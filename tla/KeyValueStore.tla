--------------------------- MODULE KeyValueStore ---------------------------
(***************************************************************************)
(* What the rest of Lockbox takes a leveldb database to be: one dictionary *)
(* that DBManager's Put, Delete, Get and First act on one at a time, that  *)
(* keeps every acknowledged write when the process ends, and that may or   *)
(* may not keep a write the process was still waiting for.  A value is     *)
(* named by the number of the write that stored it, 0 is no value.         *)
(***************************************************************************)
EXTENDS Naturals, Sequences, FiniteSets

CONSTANTS Keys, Writers, Readers, NoOp, NoAnswer

VARIABLES
  store,    \* key -> the number of the write that stored its value
  count,    \* how many writes have been applied
  asked,    \* writer -> the write it waits for
  answer    \* reader -> the key it reads and the value it will be given

kvVars == <<count, asked, store, answer>>

Ops == [key : Keys, del : BOOLEAN]

Waiting == {w \in Writers : asked[w] # NoOp}

\* Orders in which some of the waiting writes are applied.
Orders == {s \in UNION {[1..n -> Waiting] : n \in 0..Cardinality(Waiting)} :
             \A i, j \in DOMAIN s : s[i] = s[j] => i = j}

\* The dictionary after the writes of s, in order.
Applied(s) ==
  [k \in Keys |->
     LET of == {i \in DOMAIN s : asked[s[i]].key = k} IN
     IF of = {} THEN store[k]
     ELSE LET i == CHOOSE m \in of : \A j \in of : j <= m IN
          IF asked[s[i]].del THEN 0 ELSE count + i]

Init ==
  /\ store = [k \in Keys |-> 0]
  /\ count = 0
  /\ asked = [w \in Writers |-> NoOp]
  /\ answer = [r \in Readers |-> NoAnswer]

Ask(w) ==
  /\ asked[w] = NoOp /\ asked'[w] \in Ops
  /\ asked' = [asked EXCEPT ![w] = asked'[w]]
  /\ UNCHANGED <<count, store, answer>>

Apply ==
  /\ count' # count
  /\ \E s \in Orders :
       /\ count' = count + Len(s)
       /\ store' = Applied(s)
       /\ asked' = [w \in Writers |->
                      IF \E i \in DOMAIN s : s[i] = w THEN NoOp ELSE asked[w]]
  /\ UNCHANGED answer

Read(r) ==
  /\ answer[r] = NoAnswer /\ answer'[r] # NoAnswer
  /\ \E k \in Keys :
       answer' = [answer EXCEPT ![r] = [key |-> k, value |-> store[k]]]
  /\ UNCHANGED <<count, asked, store>>

Return(r) ==
  /\ answer[r] # NoAnswer
  /\ answer' = [answer EXCEPT ![r] = NoAnswer]
  /\ UNCHANGED <<count, asked, store>>

\* The process ends.
End ==
  /\ asked' = [w \in Writers |-> NoOp]
  /\ answer' = [r \in Readers |-> NoAnswer]
  /\ \E s \in Orders : count' = count + Len(s) /\ store' = Applied(s)

Next == \/ \E w \in Writers : Ask(w)
        \/ Apply
        \/ \E r \in Readers : Read(r) \/ Return(r)
        \/ End

Spec == Init /\ [][Next]_kvVars
=============================================================================
