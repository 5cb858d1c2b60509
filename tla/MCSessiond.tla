----------------------------- MODULE MCSessiond -----------------------------
(* Two launches and a shutdown; the client may also repeat the handshake, write a malformed
   line and reuse the id of a launch for a shutdown; r1 forks a descendant of its own. *)
EXTENDS Sessiond
CONSTANTS r1, r2, r3
MCRequestIds == {r1, r2, r3}
MCForkers == {r1}
MCClientLines ==
    {Hello, [type |-> "Shutdown", id |-> r3], [type |-> "Malformed", id |-> NoId],
     [type |-> "Shutdown", id |-> r1]} \cup [type: {"Launch"}, id: {r1, r2}]

(* Bound: three lines of any kind in any order; the fourth is the shutdown that follows two
   launches, r1 first.  It holds back the client alone, which no fairness is assumed of. *)
AnsweredFirst(r) ==
    \E i \in DOMAIN stdout : stdout[i].id = r /\ \A j \in 1..i : stdout[j].id \in {r, NoId}
FourthLine ==
    sent = 3 /\ sent' = 4 =>
        /\ requestIds = {r1, r2} /\ AnsweredFirst(r1)
        /\ stdin' = <<[type |-> "Shutdown", id |-> r3]>>
MCSpec == Init /\ [][Next /\ FourthLine]_vars /\ Fairness
=============================================================================
