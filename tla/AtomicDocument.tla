--------------------------- MODULE AtomicDocument ---------------------------
(***************************************************************************)
(* What a JSON document of the launcher promises: a load returns a whole   *)
(* value, the last one whose write was acknowledged or one written since;  *)
(* damage to the file costs that value and no more, unless a crash took    *)
(* the copy of the previous one.  A write over a damaged value no load     *)
(* repaired gives that copy up before it commits.                          *)
(***************************************************************************)
CONSTANTS Values, Default, Lost

VARIABLES
    doc,       \* the value a load returns
    possible,  \* what it may be after a crash
    older,     \* the value a load falls back to when the newest is damaged
    offered,   \* the value being written; Lost: none
    damaged    \* doc is the fallback, or may be after a crash

documentVars == <<doc, possible, older, offered, damaged>>

Init ==
    /\ doc = Default /\ possible = {Default} /\ older = Lost /\ offered = Lost
    /\ damaged = FALSE

Begin(v) == offered = Lost /\ offered' = v /\ UNCHANGED <<doc, possible, older, damaged>>
(* the copy of the previous value is replaced first *)
Rotate ==
    /\ offered # Lost /\ older' \in {Lost, doc}
    /\ IF damaged
          THEN /\ doc' \in {doc, Lost}
               /\ possible' \in SUBSET (possible \union {doc, Lost})
          ELSE UNCHANGED <<doc, possible>>
    /\ UNCHANGED <<offered, damaged>>
Commit ==
    /\ offered # Lost /\ doc' = offered /\ possible' = possible \union {offered}
    /\ UNCHANGED <<older, offered, damaged>>
Acknowledge ==
    /\ offered # Lost /\ doc = offered /\ offered' = Lost /\ possible' = {doc}
    /\ damaged' = FALSE /\ UNCHANGED <<doc, older>>
Fail == offered # Lost /\ offered' = Lost /\ UNCHANGED <<doc, possible, older, damaged>>
Crash ==
    /\ doc' \in possible /\ possible' = {doc'} /\ offered' = Lost
    /\ older' \in {older, Lost} /\ damaged' \in BOOLEAN
Damage ==
    /\ offered = Lost /\ doc' = older /\ possible' = {doc'} /\ damaged' = TRUE
    /\ UNCHANGED <<older, offered>>

Next ==
    \/ \E v \in Values : Begin(v)
    \/ Rotate \/ Commit \/ Acknowledge \/ Fail \/ Crash \/ Damage
Spec == Init /\ [][Next]_documentVars
=============================================================================
