------------------------ MODULE MCVoiceConversation ------------------------
EXTENDS VoiceConversation

VoiceDef == <<"u1", "u2", "u3">>

Say(c1, c2, c3) == [u1 |-> c1, u2 |-> c2, u3 |-> c3]
Asks(k1, k2) == [a1 |-> k1, a2 |-> k2]

Both(say, call, f, c) ==
    {[reuse |-> r, say |-> say, call |-> call, faults |-> f, cuts |-> c] : r \in BOOLEAN}

(* Turns and their rivals; a pause from its request to the user's words in *)
(* it; one that is not confirmed, or left by the API; one that is stopped; *)
(* one with a microphone or an assistant that fails.                       *)
ScenesDef ==
    Both(Say({"talk"}, {"talk", "stop", "noise"}, {}),
         Asks({"start"}, {"interrupt", "stop"}), 0, 1)
    \cup Both(Say({"pause"}, {"yes"}, {"noise", "resume"}), Asks({"start"}, {}), 0, 0)
    \cup Both(Say({"pause", "badpause"}, {"yes", "no"}, {}),
              Asks({"start"}, {"resume", "interrupt"}), 0, 0)
    \cup Both(Say({"pause"}, {"yes", "noise"}, {}), Asks({"start"}, {"stop"}), 0, 0)
    \cup Both(Say({"talk", "pause"}, {"yes"}, {}), Asks({"start"}, {}), 1, 0)

(* With a kept stream and two utterances: turns that overlap and one that  *)
(* is interrupted; a pause that is confirmed and left.                     *)
TwoDef == <<"u1", "u2">>
Kept(c1, c2, k2) ==
    [reuse |-> TRUE, say |-> [u1 |-> c1, u2 |-> c2], call |-> Asks({"start"}, k2),
     faults |-> 0, cuts |-> 0]
KeptDef ==
    {Kept({"talk"}, {"talk", "stop"}, {"interrupt"}), Kept({"pause"}, {"yes"}, {"resume"})}
=============================================================================
