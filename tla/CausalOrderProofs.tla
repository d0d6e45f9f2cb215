------------------------- MODULE CausalOrderProofs -------------------------
(***************************************************************************)
(* causal_sort puts every list of effects into causal order.               *)
(*                                                                         *)
(* CausallySorted is not inductive: when a transaction is output, one of   *)
(* its dependencies could be below it on the stack.  Chain excludes this:  *)
(* the stack descends along dependencies, so positions decrease towards    *)
(* its top.  Visited says that what was dropped from the dependencies of a *)
(* state is no longer unseen.                                              *)
(***************************************************************************)
EXTENDS CausalOrder, SequenceTheorems, TLAPS

\* Positions decrease towards the top of the stack.
Chain ==
    \A i, j \in 1 .. Len(states) :
        i < j => effects.position[states[j].transaction] < effects.position[states[i].transaction]

\* A dependency that process has popped was seen.
Visited ==
    \A i \in 1 .. Len(states) :
        /\ states[i].dependencies \subseteq Dependencies(effects, states[i].transaction)
        /\ \A d \in Dependencies(effects, states[i].transaction) \cap effects.tx :
             d \in states[i].dependencies \/ d \notin not_seen

\* CausallySorted with the dependencies that the search follows.
Sorted ==
    \A i \in 1 .. Len(output) : \A d \in Dependencies(effects, output[i]) \cap effects.tx : Before(d, i)

IInv == TypeOK /\ Partition /\ Chain /\ Visited /\ Sorted

State == [transaction : effects.tx, dependencies : SUBSET Nat]

\* What InputsAssumption says of the list that is sorted.
LEMMA InputFacts ==
    ASSUME effects \in Inputs
    PROVE  /\ effects.tx \subseteq Nat
           /\ effects.dependencies \in [effects.tx -> SUBSET Nat]
           /\ effects.position \in [effects.tx -> Nat]
           /\ \A t \in effects.tx : Dependencies(effects, t) \subseteq Nat
           /\ \A t \in effects.tx : \A d \in Dependencies(effects, t) \cap effects.tx :
                effects.position[d] < effects.position[t]
  <1>1. IsEffects(effects) /\ Executable(effects)
    BY InputsAssumption
  <1>2. /\ effects.tx \subseteq Nat
        /\ effects.dependencies \in [effects.tx -> SUBSET Nat]
        /\ effects.position \in [effects.tx -> Nat]
    BY <1>1, Zenon DEF IsEffects
  <1>3. \A t \in effects.tx : Dependencies(effects, t) \subseteq Nat
    BY <1>2 DEF Dependencies
  <1>4. QED
    BY <1>1, <1>2, <1>3, Zenon DEF Executable

\* The search begins with an empty stack and an empty output.
LEMMA InitInv == Init => IInv
  <1> SUFFICES ASSUME Init PROVE IInv
    OBVIOUS
  <1>1. effects \in Inputs /\ not_seen = effects.tx /\ output = <<>> /\ states = <<>>
    BY Zenon DEF Init
  <1>2. Len(output) = 0 /\ Len(states) = 0
    BY <1>1
  <1>3. TypeOK
    BY <1>1 DEF TypeOK
  <1>4. Partition
    BY <1>1, <1>2 DEF Partition
  <1>5. Chain /\ Visited /\ Sorted
    BY <1>1, <1>2 DEF Chain, Visited, Sorted
  <1>6. QED
    BY <1>3, <1>4, <1>5, Zenon DEF IInv

\* A new list begins: the smallest digest is put on the empty stack.
LEMMA PopFirstStep == IInv /\ PopFirst => IInv'
  <1> SUFFICES ASSUME IInv, PopFirst PROVE IInv'
    OBVIOUS
  <1>1. PICK t \in not_seen :
          /\ states = <<>> /\ states' = <<NewState(t)>>
          /\ not_seen' = not_seen \ {t}
          /\ effects' = effects /\ output' = output
    BY Zenon DEF PopFirst
  <1>2. TypeOK /\ Partition /\ Sorted
    BY Zenon DEF IInv
  <1>3. effects \in Inputs /\ not_seen \subseteq effects.tx /\ t \in effects.tx /\ output \in Seq(effects.tx)
    BY <1>1, <1>2, Zenon DEF TypeOK
  <1>4. Dependencies(effects, t) \subseteq Nat
    BY <1>3, InputFacts, Zenon
  <1>5. NewState(t) \in State
    BY <1>3, <1>4 DEF NewState, State
  <1>6. /\ Len(states') = 1 /\ states'[1] = NewState(t) /\ states' \in Seq(State)
        /\ Len(states) = 0
    BY <1>1, <1>5
  <1>7. states'[1].transaction = t /\ states'[1].dependencies = Dependencies(effects, t)
    BY <1>6 DEF NewState
  <1>8. TypeOK'
    BY <1>1, <1>3, <1>6 DEF TypeOK, State
  <1>9. Partition'
    <2>1. \A i \in 1 .. Len(states') : i = 1
      BY <1>6
    <2>2. \A i \in 1 .. Len(output) : output[i] # t
      BY <1>1, <1>2, ZenonT(60) DEF Partition
    <2>3. \A u \in effects.tx : u \in not_seen \/ \E i \in 1 .. Len(output) : output[i] = u
      BY <1>2, <1>6 DEF Partition
    <2>4. 1 \in 1 .. Len(states')
      BY <1>6
    <2>5. \A u \in effects.tx : u \in not_seen' \/ u = t \/ \E i \in 1 .. Len(output) : output[i] = u
      BY <1>1, <2>3, Zenon
    <2>6. \A i \in 1 .. Len(output) :
            /\ output[i] \notin not_seen
            /\ \A j \in 1 .. Len(output) : output[j] = output[i] => i = j
      BY <1>2, Zenon DEF Partition
    <2>7. \A u \in effects'.tx :
            \/ u \in not_seen'
            \/ \E i \in 1 .. Len(states') : states'[i].transaction = u
            \/ \E i \in 1 .. Len(output') : output'[i] = u
      BY <1>1, <1>7, <2>4, <2>5, Zenon
    <2>8. \A i \in 1 .. Len(output') :
            /\ output'[i] \notin not_seen'
            /\ \A j \in 1 .. Len(states') : states'[j].transaction # output'[i]
            /\ \A j \in 1 .. Len(output') : output'[j] = output'[i] => i = j
      BY <1>1, <1>7, <2>1, <2>2, <2>6, Zenon
    <2>9. \A i, j \in 1 .. Len(states') :
            /\ states'[i].transaction \notin not_seen'
            /\ states'[j].transaction = states'[i].transaction => i = j
      BY <1>1, <1>7, <2>1
    <2>10. QED
      BY <2>7, <2>8, <2>9, Zenon DEF Partition
  <1>10. Chain'
    BY <1>6 DEF Chain
  <1>11. Visited'
    <2>1. \A i \in 1 .. Len(states') : i = 1
      BY <1>6
    <2>2. Dependencies(effects, t)' = Dependencies(effects, t)
      BY <1>1 DEF Dependencies
    <2>3. QED
      BY <1>1, <1>7, <2>1, <2>2, Zenon DEF Visited
  <1>12. Sorted'
    BY <1>1, <1>2 DEF Sorted, Before, Dependencies
  <1>13. QED
    BY <1>8, <1>9, <1>10, <1>11, <1>12, Zenon DEF IInv

\* A dependency is put on the stack: it lies below the old top in the order of
\* positions, and the dependencies popped on the way to it were seen.
LEMMA DescendStep == IInv /\ Descend => IInv'
  <1> SUFFICES ASSUME IInv, Descend PROVE IInv'
    OBVIOUS
  <1> DEFINE n == Len(states)
             t == states[n].transaction
  <1>1. PICK d \in Unseen :
          /\ states # <<>>
          /\ \A x \in Unseen : x <= d
          /\ not_seen' = not_seen \ {d}
          /\ states' = Append([states EXCEPT ![n].dependencies = {x \in @ : x < d}], NewState(d))
          /\ effects' = effects /\ output' = output
    BY Zenon DEF Descend
  <1>2. TypeOK /\ Partition /\ Chain /\ Visited /\ Sorted
    BY Zenon DEF IInv
  <1>3. /\ effects \in Inputs /\ not_seen \subseteq effects.tx
        /\ output \in Seq(effects.tx) /\ states \in Seq(State)
    BY <1>2, Zenon DEF TypeOK, State
  <1>4. n \in Nat /\ n > 0 /\ n \in 1 .. n
    BY <1>1, <1>3
  <1>5. d \in states[n].dependencies /\ d \in not_seen /\ d \in effects.tx
    BY <1>1, <1>3, Zenon DEF Unseen, Top
  <1>6. states[n] \in State /\ t \in effects.tx /\ states[n].dependencies \subseteq Nat
    <2>1. states[n] \in State
      BY <1>3, <1>4
    <2>2. QED
      BY <2>1 DEF State
  <1>7. Dependencies(effects, d) \subseteq Nat
    BY <1>3, <1>5, InputFacts, Zenon
  <1>8. NewState(d) \in State
    BY <1>5, <1>7 DEF NewState, State
  <1> DEFINE rest == {x \in states[n].dependencies : x < d}
             old == [states EXCEPT ![n].dependencies = rest]
  <1>9. /\ old \in Seq(State) /\ Len(old) = n
        /\ \A i \in 1 .. n : old[i].transaction = states[i].transaction
        /\ \A i \in 1 .. n : i # n => old[i] = states[i]
        /\ old[n].dependencies = rest
    BY <1>3, <1>4, <1>6 DEF State
  <1>10. states' = Append(old, NewState(d))
    BY <1>1
  <1> HIDE DEF old
  <1>11. /\ Len(states') = n + 1 /\ states' \in Seq(State)
         /\ \A i \in 1 .. n : states'[i] = old[i]
         /\ states'[n + 1] = NewState(d)
    BY <1>4, <1>8, <1>9, <1>10
  <1>12. /\ \A i \in 1 .. n : states'[i].transaction = states[i].transaction
         /\ \A i \in 1 .. n : i # n => states'[i].dependencies = states[i].dependencies
         /\ states'[n].dependencies = rest
         /\ states'[n + 1].transaction = d
         /\ states'[n + 1].dependencies = Dependencies(effects, d)
    <2>1. NewState(d).transaction = d /\ NewState(d).dependencies = Dependencies(effects, d)
      BY DEF NewState
    <2>2. QED
      BY <1>4, <1>9, <1>11, <2>1, Zenon
  <1>13. \A i \in 1 .. Len(states') : i \in 1 .. n \/ i = n + 1
    BY <1>4, <1>11
  <1>14. n + 1 \in 1 .. Len(states') /\ n + 1 \notin 1 .. n /\ \A i \in 1 .. n : i \in 1 .. Len(states')
    BY <1>4, <1>11
  <1> HIDE DEF n, rest
  <1>15. \A u \in effects.tx : Dependencies(effects', u) = Dependencies(effects, u)
    BY <1>1
  <1>16. TypeOK'
    BY <1>1, <1>3, <1>11 DEF TypeOK, State
  <1>17. Partition'
    <2>1. \A u \in effects.tx :
            \/ u \in not_seen' \/ u = d
            \/ \E i \in 1 .. n : states[i].transaction = u
            \/ \E i \in 1 .. Len(output) : output[i] = u
      BY <1>1, <1>2, Zenon DEF Partition, n
    <2>2. \A u \in effects'.tx :
            \/ u \in not_seen'
            \/ \E i \in 1 .. Len(states') : states'[i].transaction = u
            \/ \E i \in 1 .. Len(output') : output'[i] = u
      BY <1>1, <1>12, <1>14, <2>1, Zenon
    <2>3. \A i \in 1 .. Len(output) : /\ output[i] \notin not_seen
                                      /\ output[i] # d
                                      /\ \A j \in 1 .. n : states[j].transaction # output[i]
                                      /\ \A j \in 1 .. Len(output) : output[j] = output[i] => i = j
      BY <1>2, <1>5, Zenon DEF Partition, n
    <2>4. \A i \in 1 .. Len(output') :
            /\ output'[i] \notin not_seen'
            /\ \A j \in 1 .. Len(states') : states'[j].transaction # output'[i]
            /\ \A j \in 1 .. Len(output') : output'[j] = output'[i] => i = j
      <3>1. \A i \in 1 .. Len(output) : \A j \in 1 .. Len(states') : states'[j].transaction # output[i]
        BY <1>12, <1>13, <2>3, Zenon
      <3>2. QED
        BY <1>1, <2>3, <3>1
    <2>5. \A i, j \in 1 .. n : /\ states[i].transaction \notin not_seen
                               /\ states[i].transaction # d
                               /\ states[j].transaction = states[i].transaction => i = j
      BY <1>2, <1>5, Zenon DEF Partition, n
    <2>6. \A i, j \in 1 .. Len(states') :
            /\ states'[i].transaction \notin not_seen'
            /\ states'[j].transaction = states'[i].transaction => i = j
      <3>1. \A i \in 1 .. n : states'[i].transaction \notin not_seen' /\ states'[i].transaction # d
        BY <1>1, <1>12, <2>5, Zenon
      <3>2. d \notin not_seen'
        BY <1>1
      <3>3. \A i, j \in 1 .. n : states'[j].transaction = states'[i].transaction => i = j
        BY <1>12, <2>5
      <3>4. QED
        BY <1>12, <1>13, <3>1, <3>2, <3>3
    <2>7. QED
      BY <2>2, <2>4, <2>6, Zenon DEF Partition
  <1>18. Chain'
    <2>1. effects.position[d] < effects.position[t]
      <3>1. d \in Dependencies(effects, t)
        BY <1>2, <1>4, <1>5, Zenon DEF Visited, n
      <3>2. QED
        BY <1>3, <1>5, <1>6, <3>1, InputFacts, Zenon
    <2>2. \A i \in 1 .. n : i = n \/ effects.position[t] < effects.position[states[i].transaction]
      BY <1>2, <1>4 DEF Chain, n
    <2>3. \A i \in 1 .. n : states[i].transaction \in effects.tx
      <3>1. \A i \in 1 .. n : states[i] \in State
        BY <1>3 DEF n
      <3>2. QED
        BY <3>1 DEF State
    <2>4. \A i \in 1 .. n : effects.position[states[i].transaction] \in Nat
      BY <1>3, <2>3, InputFacts
    <2>5. effects.position[d] \in Nat /\ effects.position[t] \in Nat
      BY <1>3, <1>5, <1>6, InputFacts
    <2>6. \A i \in 1 .. n : effects.position[d] < effects.position[states[i].transaction]
      BY <2>1, <2>2, <2>4, <2>5
    <2>7. \A i, j \in 1 .. n : i < j => effects.position[states[j].transaction] < effects.position[states[i].transaction]
      BY <1>2, Zenon DEF Chain, n
    <2>8. \A j \in 1 .. n : ~(n + 1 < j)
      BY <1>4
    <2>9. ~(n + 1 < n + 1)
      BY <1>4
    <2>10. QED
      BY <1>1, <1>12, <1>13, <2>6, <2>7, <2>8, <2>9, Zenon DEF Chain
  <1>19. Visited'
    <2>1. \A i \in 1 .. n :
            /\ states[i].dependencies \subseteq Dependencies(effects, states[i].transaction)
            /\ \A x \in Dependencies(effects, states[i].transaction) \cap effects.tx :
                 x \in states[i].dependencies \/ x \notin not_seen
      BY <1>2, Zenon DEF Visited, n
    <2>2. \A x \in states[n].dependencies \cap effects.tx : x \in rest \/ x \notin not_seen'
      <3> SUFFICES ASSUME NEW x \in states[n].dependencies, x \in not_seen, x # d PROVE x \in rest
        BY <1>1, <1>3, Zenon
      <3>1. x <= d
        BY <1>1, Zenon DEF Unseen, Top, n
      <3>2. x \in Nat /\ d \in Nat
        BY <1>5, <1>6 DEF n
      <3>3. QED
        BY <3>1, <3>2 DEF rest
    <2>3. rest \subseteq states[n].dependencies
      BY DEF rest
    <2>4. ASSUME NEW i \in 1 .. n
          PROVE  /\ states'[i].dependencies \subseteq Dependencies(effects, states'[i].transaction)
                 /\ \A x \in Dependencies(effects, states'[i].transaction) \cap effects.tx :
                      x \in states'[i].dependencies \/ x \notin not_seen'
      BY <1>1, <1>12, <2>1, <2>2, <2>3, Zenon
    <2>5. /\ states'[n + 1].dependencies \subseteq Dependencies(effects, states'[n + 1].transaction)
          /\ \A x \in Dependencies(effects, states'[n + 1].transaction) \cap effects.tx :
               x \in states'[n + 1].dependencies \/ x \notin not_seen'
      BY <1>12, Zenon
    <2>6. QED
      BY <1>1, <1>13, <2>4, <2>5, Zenon DEF Visited
  <1>20. Sorted'
    BY <1>1, <1>2 DEF Sorted, Before, Dependencies
  <1>21. QED
    BY <1>16, <1>17, <1>18, <1>19, <1>20, Zenon DEF IInv

\* What popping a stack leaves in place.
LEMMA Pop ==
    ASSUME NEW S, NEW s \in Seq(S), NEW k \in Nat, k <= Len(s)
    PROVE  /\ SubSeq(s, 1, k) \in Seq(S) /\ Len(SubSeq(s, 1, k)) = k
           /\ \A i \in 1 .. k : SubSeq(s, 1, k)[i] = s[i]
  OBVIOUS

\* A transaction is output: its dependencies were seen, and none is on the stack, where
\* positions are larger, so they were output before it.
LEMMA FinishStep == IInv /\ Finish => IInv'
  <1> SUFFICES ASSUME IInv, Finish PROVE IInv'
    OBVIOUS
  <1> DEFINE n == Len(states)
             m == Len(output)
             t == states[n].transaction
  <1>1. /\ states # <<>> /\ states[n].dependencies \cap not_seen = {}
        /\ output' = Append(output, t) /\ states' = SubSeq(states, 1, n - 1)
        /\ effects' = effects /\ not_seen' = not_seen
    BY Zenon DEF Finish, Unseen, Top
  <1>2. TypeOK /\ Partition /\ Chain /\ Visited /\ Sorted
    BY Zenon DEF IInv
  <1>3. /\ effects \in Inputs /\ not_seen \subseteq effects.tx
        /\ output \in Seq(effects.tx) /\ states \in Seq(State)
    BY <1>2, Zenon DEF TypeOK, State
  <1>4. n \in Nat /\ n > 0 /\ n \in 1 .. n /\ m \in Nat
    BY <1>1, <1>3
  <1>5. t \in effects.tx
    <2>1. states[n] \in State
      BY <1>3, <1>4
    <2>2. QED
      BY <2>1 DEF State
  <1>6. /\ states' \in Seq(State) /\ Len(states') = n - 1
        /\ \A i \in 1 .. n - 1 : states'[i] = states[i]
    <2>1. n - 1 \in Nat /\ n - 1 <= Len(states)
      BY <1>4
    <2>2. /\ SubSeq(states, 1, n - 1) \in Seq(State) /\ Len(SubSeq(states, 1, n - 1)) = n - 1
          /\ \A i \in 1 .. n - 1 : SubSeq(states, 1, n - 1)[i] = states[i]
      BY <1>3, <2>1, Pop, Zenon
    <2>3. QED
      BY <1>1, <2>2, Zenon
  <1>7. /\ output' \in Seq(effects.tx) /\ Len(output') = m + 1 /\ output'[m + 1] = t
        /\ \A i \in 1 .. m : output'[i] = output[i]
    <2> HIDE DEF t
    <2>1. /\ Append(output, t) \in Seq(effects.tx) /\ Len(Append(output, t)) = m + 1
          /\ Append(output, t)[m + 1] = t
          /\ \A i \in 1 .. m : Append(output, t)[i] = output[i]
      BY <1>3, <1>5, AppendProperties DEF m
    <2>2. output' = Append(output, t)
      BY <1>1, Zenon
    <2>3. QED
      BY <2>1, <2>2, Zenon
  <1>8. \A i \in 1 .. n : i \in 1 .. n - 1 \/ i = n
    BY <1>4
  <1>9. \A i \in 1 .. n - 1 : i \in 1 .. n /\ i # n /\ i < n
    BY <1>4
  <1>10. /\ \A i \in 1 .. m + 1 : i \in 1 .. m \/ i = m + 1
         /\ \A i \in 1 .. m : i \in 1 .. m + 1 /\ i # m + 1
         /\ m + 1 \in 1 .. m + 1
    BY <1>4
  <1> HIDE DEF n, m
  <1>11. TypeOK'
    BY <1>1, <1>3, <1>6, <1>7 DEF TypeOK, State
  <1>12. Partition'
    <2>1. \A u \in effects.tx :
            \/ u \in not_seen
            \/ \E i \in 1 .. n - 1 : states[i].transaction = u
            \/ \E i \in 1 .. m : output[i] = u
            \/ u = t
      BY <1>2, <1>8, Zenon DEF Partition, n, m
    <2>2. \A u \in effects'.tx :
            \/ u \in not_seen'
            \/ \E i \in 1 .. Len(states') : states'[i].transaction = u
            \/ \E i \in 1 .. Len(output') : output'[i] = u
      <3>1. \A i \in 1 .. n - 1 : i \in 1 .. Len(states') /\ states'[i].transaction = states[i].transaction
        BY <1>6, Zenon
      <3>2. /\ \A i \in 1 .. m : i \in 1 .. Len(output') /\ output'[i] = output[i]
            /\ m + 1 \in 1 .. Len(output') /\ output'[m + 1] = t
        BY <1>7, <1>10, Zenon
      <3>3. QED
        <4> SUFFICES ASSUME NEW u \in effects.tx
                     PROVE  \/ u \in not_seen
                            \/ \E i \in 1 .. Len(states') : states'[i].transaction = u
                            \/ \E i \in 1 .. Len(output') : output'[i] = u
          BY <1>1, Zenon
        <4>1. CASE \E i \in 1 .. n - 1 : states[i].transaction = u
          BY <3>1, <4>1, Zenon
        <4>2. CASE \E i \in 1 .. m : output[i] = u
          BY <3>2, <4>2, Zenon
        <4>3. CASE u = t
          BY <3>2, <4>3, Zenon
        <4>4. QED
          BY <2>1, <4>1, <4>2, <4>3, Zenon
    <2>3. \A i \in 1 .. m : /\ output[i] \notin not_seen
                            /\ \A j \in 1 .. n : states[j].transaction # output[i]
      BY <1>2, Zenon DEF Partition, n, m
    <2>4. \A i, j \in 1 .. m : output[j] = output[i] => i = j
      BY <1>2, Zenon DEF Partition, m
    <2>5. \A i, j \in 1 .. n : /\ states[i].transaction \notin not_seen
                               /\ states[j].transaction = states[i].transaction => i = j
      BY <1>2, Zenon DEF Partition, n
    <2>6. t \notin not_seen /\ \A i \in 1 .. n - 1 : states[i].transaction # t
      BY <1>4, <1>9, <2>5
    <2>7. \A i \in 1 .. m : output[i] # t
      BY <1>4, <2>3, Zenon
    <2>8. \A i \in 1 .. m + 1 : /\ output'[i] \notin not_seen'
                                /\ \A j \in 1 .. n - 1 : states'[j].transaction # output'[i]
      <3>1. \A i \in 1 .. m : /\ output'[i] \notin not_seen'
                              /\ \A j \in 1 .. n - 1 : states'[j].transaction # output'[i]
        BY <1>1, <1>6, <1>7, <1>9, <2>3, Zenon
      <3>2. /\ output'[m + 1] \notin not_seen'
            /\ \A j \in 1 .. n - 1 : states'[j].transaction # output'[m + 1]
        BY <1>1, <1>6, <1>7, <2>6, Zenon
      <3>3. QED
        BY <1>10, <3>1, <3>2
    <2>9. \A i, j \in 1 .. m + 1 : output'[j] = output'[i] => i = j
      BY <1>7, <1>10, <2>4, <2>7
    <2>10. \A i, j \in 1 .. n - 1 : /\ states'[i].transaction \notin not_seen'
                                    /\ states'[j].transaction = states'[i].transaction => i = j
      BY <1>1, <1>6, <1>9, <2>5
    <2>11. QED
      BY <1>6, <1>7, <2>2, <2>8, <2>9, <2>10 DEF Partition
  <1>13. Chain'
    <2>1. \A i, j \in 1 .. n : i < j => effects.position[states[j].transaction] < effects.position[states[i].transaction]
      BY <1>2, Zenon DEF Chain, n
    <2>2. QED
      BY <1>1, <1>6, <1>9, <2>1, Zenon DEF Chain
  <1>14. Visited'
    <2>1. \A i \in 1 .. n - 1 :
            /\ states'[i].dependencies \subseteq Dependencies(effects, states'[i].transaction)
            /\ \A d \in Dependencies(effects, states'[i].transaction) \cap effects.tx :
                 d \in states'[i].dependencies \/ d \notin not_seen
      <3> SUFFICES ASSUME NEW i \in 1 .. n - 1
                   PROVE  /\ states'[i].dependencies \subseteq Dependencies(effects, states'[i].transaction)
                          /\ \A d \in Dependencies(effects, states'[i].transaction) \cap effects.tx :
                               d \in states'[i].dependencies \/ d \notin not_seen
        OBVIOUS
      <3>1. i \in 1 .. n /\ states'[i] = states[i]
        BY <1>6, <1>9, Zenon
      <3>2. /\ states[i].dependencies \subseteq Dependencies(effects, states[i].transaction)
            /\ \A d \in Dependencies(effects, states[i].transaction) \cap effects.tx :
                 d \in states[i].dependencies \/ d \notin not_seen
        BY <1>2, <3>1, Zenon DEF Visited, n
      <3>3. QED
        BY <3>1, <3>2, Zenon
    <2>2. QED
      BY <1>1, <1>6, <2>1, Zenon DEF Visited
  <1>15. Sorted'
    <2>1. ASSUME NEW d \in Dependencies(effects, t) \cap effects.tx
          PROVE  \E j \in 1 .. m : output[j] = d
      <3>1. d \notin not_seen
        BY <1>1, <1>2, <1>4, <2>1, Zenon DEF Visited, n
      <3>2. ASSUME NEW i \in 1 .. n, states[i].transaction = d PROVE FALSE
        <4>1. effects.position[d] < effects.position[t]
          BY <1>3, <1>5, <2>1, InputFacts, Zenon
        <4>2. effects.position[d] \in Nat /\ effects.position[t] \in Nat
          BY <1>3, <1>5, <2>1, InputFacts
        <4>3. i = n \/ effects.position[t] < effects.position[d]
          <5>1. i = n \/ i < n
            BY <1>4
          <5>2. i < n => effects.position[states[n].transaction] < effects.position[states[i].transaction]
            BY <1>2, <1>4, Zenon DEF Chain, n
          <5>3. QED
            BY <3>2, <5>1, <5>2, Zenon
        <4>4. i = n => d = t
          BY <3>2, Zenon
        <4>5. QED
          BY <4>1, <4>2, <4>3, <4>4
      <3>3. QED
        BY <1>2, <2>1, <3>1, <3>2, Zenon DEF Partition, n, m
    <2>2. \A i \in 1 .. m : \A d \in Dependencies(effects, output[i]) \cap effects.tx :
            \E j \in 1 .. i - 1 : output[j] = d
      BY <1>2, Zenon DEF Sorted, Before, m
    <2>3. \A i \in 1 .. m : \A j \in 1 .. i - 1 : j \in 1 .. m
      BY <1>4
    <2>4. ASSUME NEW i \in 1 .. m + 1, NEW d \in Dependencies(effects, output'[i]) \cap effects.tx
          PROVE  \E j \in 1 .. i - 1 : output'[j] = d
      <3>1. CASE i \in 1 .. m
        <4>1. output'[i] = output[i]
          BY <1>7, <3>1, Zenon
        <4>2. PICK j \in 1 .. i - 1 : output[j] = d
          BY <2>2, <2>4, <3>1, <4>1, Zenon
        <4>3. output'[j] = d
          BY <1>7, <2>3, <3>1, <4>2, Zenon
        <4>4. QED
          BY <4>3, Zenon
      <3>2. CASE i = m + 1
        <4>1. 1 .. i - 1 = 1 .. m
          BY <1>4, <3>2
        <4>2. QED
          BY <1>7, <2>1, <2>4, <3>2, <4>1, Zenon
      <3>3. QED
        BY <1>10, <3>1, <3>2, Zenon
    <2>5. QED
      BY <1>1, <1>7, <2>4, Zenon DEF Sorted, Before
  <1>16. QED
    BY <1>11, <1>12, <1>13, <1>14, <1>15, Zenon DEF IInv

\* The inductive invariant holds of every step of causal_sort, for every list of
\* effects that an execution can produce.
THEOREM SortInvariance == Spec => []IInv
  <1>1. IInv /\ UNCHANGED vars => IInv'
    <2> SUFFICES ASSUME IInv, UNCHANGED vars PROVE IInv'
      OBVIOUS
    <2>1. effects' = effects /\ not_seen' = not_seen /\ output' = output /\ states' = states
      BY Zenon DEF vars
    <2>2. TypeOK'
      BY <2>1, Zenon DEF IInv, TypeOK
    <2>3. Partition'
      BY <2>1 DEF IInv, Partition
    <2>4. Chain'
      BY <2>1, Zenon DEF IInv, Chain
    <2>5. Visited' /\ Sorted'
      BY <2>1 DEF IInv, Visited, Sorted, Before, Dependencies
    <2>6. QED
      BY <2>2, <2>3, <2>4, <2>5, Zenon DEF IInv
  <1>2. IInv /\ [Next]_vars => IInv'
    BY <1>1, PopFirstStep, DescendStep, FinishStep, Zenon DEF Next
  <1>3. QED
    BY InitInv, <1>2, PTL DEF Spec

\* causal_sort outputs a transaction after the transactions it depends on and after the
\* readers of the shared object versions that it replaces.
THEOREM SortCausal == Spec => []CausallySorted
  <1>1. IInv => CausallySorted
    <2> SUFFICES ASSUME IInv, NEW i \in 1 .. Len(output), NEW d \in effects.tx,
                        \/ d \in effects.dependencies[output[i]]
                        \/ effects.reads[d] \cap effects.overwrites[output[i]] # {}
                 PROVE  Before(d, i)
      BY Zenon DEF CausallySorted
    <2>1. d \in Dependencies(effects, output[i]) \cap effects.tx
      BY DEF Dependencies
    <2>2. QED
      BY <2>1, Zenon DEF IInv, Sorted
  <1>2. QED
    BY <1>1, SortInvariance, PTL

\* causal_sort loses no transaction of its argument and outputs none twice.
THEOREM SortPartition == Spec => []Partition
  <1>1. IInv => Partition
    BY Zenon DEF IInv
  <1>2. QED
    BY <1>1, SortInvariance, PTL

=============================================================================
