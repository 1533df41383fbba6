----------------------------- MODULE RecordStore -----------------------------
(***************************************************************************)
(* What the record backend promises its callers, without regions, files or *)
(* disk operations.  A set has a saved version (store) and the version the *)
(* callers see (cur).  A save replaces the saved version as a whole, and a *)
(* reset throws the unsaved edits of at most one set away.                 *)
(*                                                                         *)
(* The only weakness admitted is the first save of a set that does not     *)
(* exist yet: until it is done, a reset may leave any prefix of it.        *)
(***************************************************************************)
EXTENDS Integers, Sequences

CONSTANTS Names, Vals, Blank, MaxRecs

VARIABLES
  store,   \* store[n]: the version of set n that survives a reset
  cur,     \* cur[n]: the version its callers read
  born     \* born[n]: has n ever been saved?

svars == <<store, cur, born>>

Put(s, i, v) ==
  [j \in 1..(IF i > Len(s) THEN i ELSE Len(s)) |->
     IF j = i THEN v ELSE IF j <= Len(s) THEN s[j] ELSE Blank]

Prefix(s, t) == Len(s) <= Len(t) /\ \A i \in 1..Len(s) : s[i] = t[i]

Init ==
  /\ store = [n \in Names |-> << >>]
  /\ cur = store
  /\ born \in [Names -> BOOLEAN]

\* A caller writes record i of n.  Nobody else may have unsaved edits.
Edit(n, i, v) ==
  /\ \A m \in Names \ {n} : cur[m] = store[m]
  /\ cur' = [cur EXCEPT ![n] = Put(@, i, v)]
  /\ UNCHANGED <<store, born>>

\* The caller's version becomes the saved one, as a whole.
Save(n) ==
  /\ store' = [store EXCEPT ![n] = cur[n]]
  /\ born' \in {born, [born EXCEPT ![n] = TRUE]}
  /\ UNCHANGED cur

\* While a set is saved for the first time, any prefix may be what survives.
FirstSave(n) ==
  /\ ~born[n]
  /\ \E s \in {SubSeq(cur[n], 1, k) : k \in 0..Len(cur[n])} :
       store' = [store EXCEPT ![n] = s]
  /\ UNCHANGED <<cur, born>>

\* A reset: unsaved edits are gone.
Reset == cur' = store /\ UNCHANGED <<store, born>>

\* After a reset, what was left of a first save is the set from now on.
Adopt(n) ==
  /\ cur[n] = store[n]
  /\ born' = [born EXCEPT ![n] = TRUE]
  /\ UNCHANGED <<store, cur>>

Next ==
  \/ \E n \in Names :
       \/ \E i \in 1..MaxRecs, v \in Vals : Edit(n, i, v)
       \/ Save(n) \/ FirstSave(n) \/ Adopt(n)
  \/ Reset

Spec == Init /\ [][Next]_svars
=============================================================================
