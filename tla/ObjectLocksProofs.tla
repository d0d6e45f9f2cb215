------------------------- MODULE ObjectLocksProofs -------------------------
(***************************************************************************)
(* Proofs about ObjectLocks for any validators, quorums, transactions and  *)
(* epochs: a validator does not sign twice while the epoch is open,        *)
(* certified effects survive the end of the epoch, and the validators      *)
(* together implement SingleSpend.                                         *)
(***************************************************************************)
EXTENDS ObjectLocks, TLAPS

\* The validator has locked the inputs of t in the epoch and will sign or has signed.
Held(v, e, t) ==
    \/ <<e, t>> \in signed[v]
    \/ \E c \in calls[v] : c.step = "insert" /\ c.epoch = e /\ c.tx = t

\* Epochs end one after the other, and nothing happens in a future one.
EpochOf(v) ==
    /\ \A e \in Epoch : e < epoch[v] => e \in closed
    /\ phase[v] = "reverting" => epoch[v] \in closed /\ final[epoch[v]] \subseteq executed[v]
    /\ \A c \in calls[v] : c.epoch <= epoch[v]
    /\ \A x \in signed[v] \cup effects[v] : x[1] <= epoch[v]

EpochInv ==
    /\ \A v \in Validator : EpochOf(v)
    /\ \A e \in closed : e < MaxEpoch
    /\ \A e \in Epoch \ closed : final[e] = {}

\* In an open epoch what is held stays locked until it is spent.
HeldLocked(v) ==
    \A e \in Epoch \ closed, t \in Tx : Held(v, e, t) =>
        \A r \in Inputs[t] : r \in Objects(v) /\ locks[v][r] \in {<<e, t>>, Absent}

\* A call that writes locks has read those that it does not write as its own.
WriteLocked(v) ==
    \A c \in calls[v] : c.step = "write" =>
        /\ c.refs \subseteq Inputs[c.tx]
        /\ c.epoch \notin closed =>
              \A r \in Inputs[c.tx] :
                 /\ r \in Objects(v)
                 /\ r \in c.refs \/ locks[v][r] \in {<<c.epoch, c.tx>>, Absent}

\* It overwrites nothing that is held in an open epoch, even when its own is over.
WriteApart(v) ==
    \A c \in calls[v] : c.step = "write" =>
        \A e \in Epoch \ closed, u \in Tx :
            Held(v, e, u) /\ <<e, u>> # <<c.epoch, c.tx>> => Inputs[u] \cap Inputs[c.tx] = {}

\* The mutexes keep such calls apart.
CallsApart(v) ==
    \A c, d \in calls[v] :
        c.step = "write" /\ d.step = "write" /\ c # d => Inputs[c.tx] \cap Inputs[d.tx] = {}

HeldApart(v) ==
    \A e \in Epoch \ closed, t, u \in Tx : Held(v, e, t) /\ Held(v, e, u) => ~Conflict(t, u)

LockOf(v) == HeldLocked(v) /\ WriteLocked(v) /\ WriteApart(v) /\ CallsApart(v) /\ HeldApart(v)

LockInv == \A v \in Validator : LockOf(v)

\* What is executed or final is certified; whoever helped to close an epoch has
\* executed in it what is final and nothing else; what is final is never executed a
\* second time, so never reverted.
CloserOf(e, h) ==
    /\ ExecutedIn(h, e) \subseteq final[e]
    /\ e <= epoch[h]
    /\ epoch[h] = e => phase[h] # "accepting"

FinalOf(v) ==
    \A e \in Epoch : e < epoch[v] => \A t \in final[e] :
        t \in executed[v] /\ \A d \in Epoch : d > e => <<d, t>> \notin effects[v]

CertInv ==
    /\ \A v \in Validator, e \in Epoch, t \in Tx : <<e, t>> \in effects[v] => Certified(e, t)
    /\ \A e \in closed : \E Q \in Quorum : \A h \in Q : CloserOf(e, h)
    /\ \A e \in closed : \A t, u \in final[e] : ~Conflict(t, u)
    /\ \A v \in Validator : FinalOf(v)

IInv == TypeOK /\ EpochInv /\ LockInv /\ CertInv

-----------------------------------------------------------------------------
(* Types *)

\* Every step keeps the types.
LEMMA TypeStep ==
    ASSUME TypeOK, EpochInv, Next
    PROVE  TypeOK'
<1>1. ASSUME NEW v \in Validator, NEW t \in Tx, HandleTransaction(v, t)
      PROVE  TypeOK'
  <2>1. [epoch |-> epoch[v], tx |-> t, step |-> "check", refs |-> {}] \in Call
    BY DEF TypeOK, Call, Step
  <2> QED
    BY Zenon, <1>1, <2>1 DEF HandleTransaction, TypeOK
<1>2. ASSUME NEW v \in Validator, NEW c \in calls[v], ReadLocks(v, c)
      PROVE  TypeOK'
  <2>1. c \in Call
    BY Zenon DEF TypeOK
  <2>2. [c EXCEPT !.step = "write", !.refs = {r \in Inputs[c.tx] : locks[v][r] # <<c.epoch, c.tx>>}] \in Call
    BY Zenon, <2>1, LockAssumption DEF Call, Step
  <2> QED
    BY Zenon, <1>2, <2>2 DEF ReadLocks, Continue, TypeOK
<1>3. ASSUME NEW v \in Validator, NEW c \in calls[v], WriteLocks(v, c)
      PROVE  TypeOK'
  <2>1. c \in Call
    BY Zenon DEF TypeOK
  <2>2. [c EXCEPT !.step = "insert", !.refs = {}] \in Call /\ <<c.epoch, c.tx>> \in LockDetails
    BY Zenon, <2>1 DEF Call, Step, LockDetails
  <2> QED
    BY <1>3, <2>2 DEF WriteLocks, Continue, TypeOK
<1>4. ASSUME NEW v \in Validator, NEW c \in calls[v], InsertSigned(v, c)
      PROVE  TypeOK'
  <2>1. c \in Call
    BY Zenon DEF TypeOK
  <2>2. <<c.epoch, c.tx>> \in LockDetails
    BY <2>1 DEF Call, LockDetails
  <2> QED
    BY Zenon, <1>4, <2>2 DEF InsertSigned, Continue, TypeOK
<1>5. ASSUME NEW v \in Validator, NEW t \in Tx, Execute(v, t)
      PROVE  TypeOK'
  <2>1. <<epoch[v], t>> \in LockDetails
    BY DEF TypeOK, LockDetails
  <2> QED
    BY Zenon, <1>5, <2>1 DEF Execute, TypeOK
<1>6. ASSUME NEW v \in Validator, NEW t \in Tx, Revert(v, t)
      PROVE  TypeOK'
  BY <1>6 DEF Revert, TypeOK
<1>7. ASSUME NEW v \in Validator, CloseUserCerts(v) \/ StartRevert(v) \/ Crash(v)
      PROVE  TypeOK'
  BY Zenon, <1>7 DEF CloseUserCerts, StartRevert, Crash, TypeOK
<1>8. ASSUME NEW v \in Validator, ReopenEpochDb(v)
      PROVE  TypeOK'
  <2>1. epoch[v] \in Epoch /\ epoch[v] < MaxEpoch
    BY Zenon, <1>8 DEF ReopenEpochDb, EpochInv, EpochOf, TypeOK
  <2>2. MaxEpoch \in Nat
    BY Zenon, LockAssumption
  <2>3. epoch[v] + 1 \in Epoch
    BY <2>1, <2>2 DEF Epoch
  <2> QED
    BY <1>8, <2>3 DEF ReopenEpochDb, TypeOK
<1>9. ASSUME NEW e \in Epoch, NEW S \in SUBSET Tx, CloseEpoch(e, S)
      PROVE  TypeOK'
  BY <1>9 DEF CloseEpoch, TypeOK
<1> QED
  BY <1>1, <1>2, <1>3, <1>4, <1>5, <1>6, <1>7, <1>8, <1>9 DEF Next, ValidatorStep

-----------------------------------------------------------------------------
(* Epochs *)

\* Every step keeps the order of the epochs.
LEMMA EpochStep ==
    ASSUME TypeOK, EpochInv, Next
    PROVE  EpochInv'
<1>1. ASSUME UNCHANGED <<closed, final>>, NEW v \in Validator,
             \A w \in Validator \ {v} :
                /\ epoch'[w] = epoch[w] /\ phase'[w] = phase[w] /\ executed'[w] = executed[w]
                /\ calls'[w] = calls[w] /\ signed'[w] = signed[w] /\ effects'[w] = effects[w],
             EpochOf(v)'
      PROVE  EpochInv'
  <2>1. \A w \in Validator \ {v} : EpochOf(w)'
    BY Zenon, <1>1 DEF EpochInv, EpochOf
  <2> QED
    BY Zenon, <1>1, <2>1 DEF EpochInv
<1>2. ASSUME NEW v \in Validator, NEW t \in Tx, HandleTransaction(v, t)
      PROVE  EpochInv'
  <2>1. EpochOf(v)'
    BY <1>2 DEF HandleTransaction, EpochInv, EpochOf, TypeOK, Epoch
  <2> QED
    BY <1>1, <1>2, <2>1 DEF HandleTransaction, TypeOK
<1>3. ASSUME NEW v \in Validator, NEW c \in calls[v], ReadLocks(v, c)
      PROVE  EpochInv'
  <2>1. c \in Call
    BY Zenon DEF TypeOK
  <2>2. [c EXCEPT !.step = "write", !.refs = {r \in Inputs[c.tx] : locks[v][r] # <<c.epoch, c.tx>>}].epoch = c.epoch
    BY <2>1 DEF Call
  <2>3. EpochOf(v)'
    BY Zenon, <1>3, <2>2 DEF ReadLocks, Continue, EpochInv, EpochOf, TypeOK
  <2> QED
    BY Zenon, <1>1, <1>3, <2>3 DEF ReadLocks, Continue, TypeOK
<1>4. ASSUME NEW v \in Validator, NEW c \in calls[v], WriteLocks(v, c)
      PROVE  EpochInv'
  <2>1. c \in Call
    BY Zenon DEF TypeOK
  <2>2. [c EXCEPT !.step = "insert", !.refs = {}].epoch = c.epoch
    BY <2>1 DEF Call
  <2>3. EpochOf(v)'
    BY Zenon, <1>4, <2>2 DEF WriteLocks, Continue, EpochInv, EpochOf, TypeOK
  <2> QED
    BY <1>1, <1>4, <2>3 DEF WriteLocks, Continue, TypeOK
<1>5. ASSUME NEW v \in Validator, NEW c \in calls[v], InsertSigned(v, c)
      PROVE  EpochInv'
  <2>1. EpochOf(v)'
    BY <1>5 DEF InsertSigned, Continue, EpochInv, EpochOf, TypeOK
  <2> QED
    BY <1>1, <1>5, <2>1 DEF InsertSigned, Continue, TypeOK
<1>6. ASSUME NEW v \in Validator, NEW t \in Tx, Execute(v, t)
      PROVE  EpochInv'
  <2>1. EpochOf(v)'
    BY <1>6 DEF Execute, EpochInv, EpochOf, TypeOK, Epoch
  <2> QED
    BY <1>1, <1>6, <2>1 DEF Execute, TypeOK
<1>7. ASSUME NEW v \in Validator, NEW t \in Tx, Revert(v, t)
      PROVE  EpochInv'
  <2>1. EpochOf(v)'
    BY <1>7 DEF Revert, Uncommitted, EpochInv, EpochOf, TypeOK
  <2> QED
    BY <1>1, <1>7, <2>1 DEF Revert, TypeOK
<1>8. ASSUME NEW v \in Validator, CloseUserCerts(v) \/ StartRevert(v) \/ Crash(v)
      PROVE  EpochInv'
  <2>1. EpochOf(v)'
    BY <1>8 DEF CloseUserCerts, StartRevert, Crash, EpochInv, EpochOf, TypeOK
  <2> QED
    BY <1>1, <1>8, <2>1 DEF CloseUserCerts, StartRevert, Crash, TypeOK
<1>9. ASSUME NEW v \in Validator, ReopenEpochDb(v)
      PROVE  EpochInv'
  <2>1. EpochOf(v)'
    BY <1>9 DEF ReopenEpochDb, EpochInv, EpochOf, TypeOK, Epoch, Call, LockDetails
  <2> QED
    BY <1>1, <1>9, <2>1 DEF ReopenEpochDb, TypeOK
<1>10. ASSUME NEW e \in Epoch, NEW S \in SUBSET Tx, CloseEpoch(e, S)
       PROVE  EpochInv'
  <2>1. \A v \in Validator : EpochOf(v)'
    BY <1>10 DEF CloseEpoch, EpochInv, EpochOf, TypeOK
  <2>2. \A d \in closed' : d < MaxEpoch
    BY <1>10 DEF CloseEpoch, EpochInv
  <2>3. \A d \in Epoch \ closed' : final'[d] = {}
    BY <1>10 DEF CloseEpoch, EpochInv, TypeOK
  <2> QED
    BY <2>1, <2>2, <2>3 DEF EpochInv
<1> QED
  BY Zenon, <1>2, <1>3, <1>4, <1>5, <1>6, <1>7, <1>8, <1>9, <1>10 DEF Next, ValidatorStep

-----------------------------------------------------------------------------
(* Locks *)

\* A validator that takes nothing, and whose locks and objects stay, keeps its part.
LEMMA LockFrame ==
    ASSUME NEW w \in Validator, LockOf(w), closed \subseteq closed',
           locks'[w] = locks[w], executed'[w] = executed[w],
           \A c \in calls'[w] : c.step = "write" => c \in calls[w],
           \A e \in Epoch, t \in Tx : Held(w, e, t)' => Held(w, e, t)
    PROVE  LockOf(w)'
<1>1. Objects(w)' = Objects(w)
  BY Zenon DEF Objects
<1>2. HeldLocked(w)'
  BY Zenon, <1>1 DEF LockOf, HeldLocked
<1>3. WriteLocked(w)'
  BY Zenon, <1>1 DEF LockOf, WriteLocked
<1>4. WriteApart(w)'
  BY Zenon DEF LockOf, WriteApart
<1>5. CallsApart(w)'
  BY Zenon DEF LockOf, CallsApart
<1>6. HeldApart(w)'
  BY Zenon DEF LockOf, HeldApart
<1> QED
  BY Zenon, <1>2, <1>3, <1>4, <1>5, <1>6 DEF LockOf

\* Only the validator that takes a step is concerned.
LEMMA LockOthers ==
    ASSUME LockInv, NEW v \in Validator, UNCHANGED closed, LockOf(v)',
           \A w \in Validator \ {v} :
               /\ locks'[w] = locks[w] /\ executed'[w] = executed[w]
               /\ calls'[w] = calls[w] /\ signed'[w] = signed[w]
    PROVE  LockInv'
<1>1. \A w \in Validator \ {v} : LockOf(w)'
  <2> TAKE w \in Validator \ {v}
  <2>1. \A e \in Epoch, t \in Tx : Held(w, e, t)' => Held(w, e, t)
    BY Zenon DEF Held
  <2>2. LockOf(w)
    BY Zenon DEF LockInv
  <2> QED
    BY Zenon, <2>1, <2>2, LockFrame
<1> QED
  BY Zenon, <1>1 DEF LockInv

\* In an epoch that is over a validator holds nothing of an open one.
LEMMA NothingHeld ==
    ASSUME TypeOK, EpochInv, NEW v \in Validator, epoch[v] \in closed
    PROVE  /\ \A e \in Epoch \ closed, t \in Tx : ~Held(v, e, t)
           /\ \A c \in calls[v] : c.epoch \in closed
<1>1. \A e \in Epoch : e <= epoch[v] => e \in closed
  BY DEF TypeOK, EpochInv, EpochOf, Epoch
<1>2. \A c \in calls[v] : c.epoch \in Epoch /\ c.epoch <= epoch[v]
  BY DEF TypeOK, EpochInv, EpochOf, Call
<1>3. \A e \in Epoch, t \in Tx : <<e, t>> \in signed[v] => e <= epoch[v]
  BY DEF TypeOK, EpochInv, EpochOf
<1> QED
  BY Zenon, <1>1, <1>2, <1>3 DEF Held

\* Reading the locks of the inputs.
LEMMA LockRead ==
    ASSUME TypeOK, EpochInv, LockInv, NEW v \in Validator, NEW c \in calls[v],
           ReadLocks(v, c)
    PROVE  LockOf(v)'
<1> DEFINE R == {r \in Inputs[c.tx] : locks[v][r] # <<c.epoch, c.tx>>}
           d == [c EXCEPT !.step = "write", !.refs = R]
           Taken == Inputs[c.tx] \subseteq Objects(v) /\ CanLock(v, c.epoch, c.tx)
<1>0. c \in Call /\ c.step = "check"
  BY Zenon DEF TypeOK, ReadLocks
<1>1. c.epoch \in Epoch /\ c.tx \in Tx
  BY <1>0 DEF Call
<1>2. d.step = "write" /\ d.refs = R /\ d.epoch = c.epoch /\ d.tx = c.tx
  BY <1>0 DEF Call
<1>3. /\ closed' = closed /\ locks' = locks /\ executed' = executed /\ signed' = signed
      /\ calls'[v] = (calls[v] \ {c}) \cup (IF Taken THEN {d} ELSE {})
      /\ Inputs[c.tx] \cap Mutexes(v) = {}
  BY Zenon DEF ReadLocks, Continue, TypeOK
<1>4. \A e \in Epoch, t \in Tx : Held(v, e, t)' => Held(v, e, t)
  BY Zenon, <1>2, <1>3 DEF Held
<1>5. LockOf(v)
  BY Zenon DEF LockInv
<1>6. CASE ~Taken
  BY Zenon, <1>3, <1>4, <1>5, <1>6, LockFrame
<1>7. CASE Taken
  <2> HIDE DEF d
  <2>1. \A x \in calls'[v] : x = d \/ x \in calls[v]
    BY Zenon, <1>3
  <2>2. Objects(v)' = Objects(v)
    BY Zenon, <1>3 DEF Objects
  <2>0. locks'[v] = locks[v] /\ closed' = closed
    BY Zenon, <1>3
  <2>3. HeldLocked(v)'
    BY Zenon, <2>0, <1>4, <1>5, <2>2 DEF LockOf, HeldLocked
  <2>4. WriteLocked(v)'
    <3>1. Inputs[d.tx] \subseteq Objects(v) /\ d.refs \subseteq Inputs[d.tx]
      BY Zenon, <1>2, <1>7
    <3>2. \A r \in Inputs[d.tx] : r \in d.refs \/ locks[v][r] = <<d.epoch, d.tx>>
      BY Zenon, <1>2
    <3> QED
      BY Zenon, <1>3, <1>5, <2>1, <2>2, <3>1, <3>2 DEF LockOf, WriteLocked
  <2>5. WriteApart(v)'
    <3>1. ASSUME NEW e \in Epoch \ closed, NEW u \in Tx, Held(v, e, u),
                 NEW r \in Inputs[u] \cap Inputs[c.tx]
          PROVE  e = c.epoch /\ u = c.tx
      <4>1. locks[v][r] \in {<<e, u>>, Absent}
        BY Zenon, <1>5, <3>1 DEF LockOf, HeldLocked
      <4>2. /\ locks[v][r] # Absent
            /\ locks[v][r] # NoTx =>
                  locks[v][r][1] <= c.epoch /\ (locks[v][r][1] = c.epoch => locks[v][r][2] = c.tx)
        BY Zenon, <1>7 DEF CanLock
      <4>3. <<e, u>> # NoTx
        <5>1. NoTx \notin LockDetails
          BY Zenon, LockAssumption
        <5>2. <<e, u>> \in LockDetails
          BY DEF LockDetails
        <5> QED
          BY Zenon, <5>1, <5>2
      <4>4. e <= c.epoch /\ (e = c.epoch => u = c.tx)
        BY <4>1, <4>2, <4>3
      <4>5. c.epoch <= epoch[v] /\ (e < epoch[v] => e \in closed) /\ epoch[v] \in Nat
        BY DEF EpochInv, EpochOf, TypeOK, Epoch
      <4> QED
        BY <1>1, <4>4, <4>5 DEF Epoch
    <3>2. \A e \in Epoch \ closed, u \in Tx :
             Held(v, e, u) /\ <<e, u>> # <<d.epoch, d.tx>> => Inputs[u] \cap Inputs[d.tx] = {}
      BY Zenon, <1>2, <3>1
    <3> QED
      BY Zenon, <1>3, <1>4, <1>5, <2>1, <3>2 DEF LockOf, WriteApart
  <2>6. CallsApart(v)'
    <3>1. \A x \in calls[v] : x.step = "write" => Inputs[x.tx] \cap Inputs[d.tx] = {}
      <4> TAKE x \in calls[v]
      <4> HAVE x.step = "write"
      <4>1. Inputs[x.tx] \subseteq Mutexes(v)
        BY Zenon DEF Mutexes
      <4>2. Inputs[c.tx] \cap Mutexes(v) = {} /\ d.tx = c.tx
        BY Zenon, <1>2, <1>3
      <4> QED
        BY Zenon, <4>1, <4>2
    <3> QED
      BY Zenon, <1>5, <2>1, <3>1 DEF LockOf, CallsApart
  <2>7. HeldApart(v)'
    BY Zenon, <1>3, <1>4, <1>5 DEF LockOf, HeldApart
  <2> QED
    BY Zenon, <2>3, <2>4, <2>5, <2>6, <2>7 DEF LockOf
<1> QED
  BY Zenon, <1>6, <1>7

\* Writing them.
LEMMA LockWrite ==
    ASSUME TypeOK, LockInv, NEW v \in Validator, NEW c \in calls[v], WriteLocks(v, c)
    PROVE  LockOf(v)'
<1> DEFINE d == [c EXCEPT !.step = "insert", !.refs = {}]
<1>0. c \in Call /\ c.step = "write"
  BY Zenon DEF TypeOK, WriteLocks
<1>1. c.epoch \in Epoch /\ c.tx \in Tx
  BY <1>0 DEF Call
<1>2. d.step = "insert" /\ d.epoch = c.epoch /\ d.tx = c.tx
  BY <1>0 DEF Call
<1>3. /\ closed' = closed /\ executed' = executed /\ signed' = signed
      /\ calls'[v] = (calls[v] \ {c}) \cup {d}
  BY Zenon DEF WriteLocks, Continue, TypeOK
<1> HIDE DEF d
<1>4. \A r \in Ref : locks'[v][r] = IF r \in c.refs THEN <<c.epoch, c.tx>> ELSE locks[v][r]
  BY Zenon DEF WriteLocks, TypeOK
<1>5. LockOf(v)
  BY Zenon DEF LockInv
<1>6. \A e \in Epoch, t \in Tx : Held(v, e, t)' => Held(v, e, t) \/ (e = c.epoch /\ t = c.tx)
  BY Zenon, <1>2, <1>3 DEF Held
<1>7. \A x \in calls'[v] : x.step = "write" => x \in calls[v] /\ x # c
  BY <1>2, <1>3
<1>8. /\ c.refs \subseteq Inputs[c.tx]
      /\ c.epoch \notin closed => \A r \in Inputs[c.tx] :
            r \in Objects(v) /\ (r \in c.refs \/ locks[v][r] \in {<<c.epoch, c.tx>>, Absent})
  BY Zenon, <1>0, <1>5 DEF LockOf, WriteLocked
<1>9. \A e \in Epoch \ closed, u \in Tx :
         Held(v, e, u) /\ ~(e = c.epoch /\ u = c.tx) => Inputs[u] \cap Inputs[c.tx] = {}
  <2> TAKE e \in Epoch \ closed, u \in Tx
  <2>1. (e = c.epoch /\ u = c.tx) \/ <<e, u>> # <<c.epoch, c.tx>>
    OBVIOUS
  <2> QED
    BY Zenon, <1>0, <1>5, <2>1 DEF LockOf, WriteApart
<1>10. \A t \in Tx : Inputs[t] \subseteq Ref
  BY Zenon, LockAssumption
<1>11. Objects(v)' = Objects(v)
  BY Zenon, <1>3 DEF Objects
<1>12. HeldLocked(v)'
  <2>1. ASSUME NEW e \in Epoch \ closed, NEW t \in Tx, Held(v, e, t)', NEW r \in Inputs[t]
        PROVE  r \in Objects(v) /\ locks'[v][r] \in {<<e, t>>, Absent}
    <3>1. r \in Ref
      BY Zenon, <1>10
    <3>2. CASE e = c.epoch /\ t = c.tx
      BY Zenon, <1>4, <1>8, <3>1, <3>2
    <3>3. CASE ~(e = c.epoch /\ t = c.tx)
      <4>1. Held(v, e, t)
        BY Zenon, <1>6, <2>1, <3>3
      <4>2. r \notin c.refs
        BY Zenon, <1>8, <1>9, <3>3, <4>1
      <4>3. r \in Objects(v) /\ locks[v][r] \in {<<e, t>>, Absent}
        BY Zenon, <1>5, <4>1 DEF LockOf, HeldLocked
      <4> QED
        BY Zenon, <1>4, <3>1, <4>2, <4>3
    <3> QED
      BY Zenon, <3>2, <3>3
  <2>2. closed' = closed
    BY Zenon, <1>3
  <2> QED
    BY Zenon, <1>11, <2>1, <2>2 DEF HeldLocked
<1>13. WriteLocked(v)'
  <2>1. ASSUME NEW x \in calls[v], x.step = "write", x # c
        PROVE  /\ x.refs \subseteq Inputs[x.tx]
               /\ x.epoch \notin closed => \A r \in Inputs[x.tx] :
                    r \in Objects(v) /\ (r \in x.refs \/ locks'[v][r] \in {<<x.epoch, x.tx>>, Absent})
    <3>1. x \in Call
      BY Zenon DEF TypeOK
    <3>2. x.tx \in Tx
      BY <3>1 DEF Call
    <3>3. Inputs[c.tx] \cap Inputs[x.tx] = {}
      BY Zenon, <1>0, <1>5, <2>1 DEF LockOf, CallsApart
    <3>4. \A r \in Inputs[x.tx] : locks'[v][r] = locks[v][r]
      BY Zenon, <1>4, <1>8, <1>10, <3>2, <3>3
    <3> QED
      BY Zenon, <1>5, <2>1, <3>4 DEF LockOf, WriteLocked
  <2>2. closed' = closed
    BY Zenon, <1>3
  <2> QED
    BY Zenon, <1>7, <1>11, <2>1, <2>2 DEF WriteLocked
<1>14. WriteApart(v)'
  <2>1. ASSUME NEW x \in calls[v], x.step = "write", x # c,
               NEW e \in Epoch \ closed, NEW u \in Tx, Held(v, e, u)', <<e, u>> # <<x.epoch, x.tx>>
        PROVE  Inputs[u] \cap Inputs[x.tx] = {}
    <3>1. CASE e = c.epoch /\ u = c.tx
      BY Zenon, <1>0, <1>5, <2>1, <3>1 DEF LockOf, CallsApart
    <3>2. CASE Held(v, e, u)
      BY Zenon, <1>5, <2>1, <3>2 DEF LockOf, WriteApart
    <3> QED
      BY Zenon, <1>6, <2>1, <3>1, <3>2
  <2>2. closed' = closed
    BY Zenon, <1>3
  <2> QED
    BY Zenon, <1>7, <2>1, <2>2 DEF WriteApart
<1>15. CallsApart(v)'
  BY Zenon, <1>5, <1>7 DEF LockOf, CallsApart
<1>16. HeldApart(v)'
  <2>1. ASSUME NEW e \in Epoch \ closed, NEW t \in Tx, NEW u \in Tx, Held(v, e, t)', Held(v, e, u)'
        PROVE  ~Conflict(t, u)
    <3>1. CASE Held(v, e, t) /\ Held(v, e, u)
      BY Zenon, <1>5, <3>1 DEF LockOf, HeldApart
    <3>2. CASE e = c.epoch /\ t = c.tx
      BY Zenon, <1>6, <1>9, <2>1, <3>2 DEF Conflict
    <3>3. CASE e = c.epoch /\ u = c.tx
      BY Zenon, <1>6, <1>9, <2>1, <3>3 DEF Conflict
    <3> QED
      BY Zenon, <1>6, <2>1, <3>1, <3>2, <3>3
  <2>2. closed' = closed
    BY Zenon, <1>3
  <2> QED
    BY Zenon, <2>1, <2>2 DEF HeldApart, Conflict
<1> QED
  BY Zenon, <1>12, <1>13, <1>14, <1>15, <1>16 DEF LockOf

\* Executing deletes locks; the outputs are new, so nobody holds them.
LEMMA LockExecute ==
    ASSUME TypeOK, LockInv, NEW v \in Validator, NEW x \in Tx, Execute(v, x)
    PROVE  LockOf(v)'
<1>1. /\ closed' = closed /\ signed' = signed /\ calls' = calls
      /\ executed'[v] = executed[v] \cup {x} /\ x \notin executed[v]
      /\ executed[v] \subseteq Tx
  BY Zenon DEF Execute, TypeOK
<1>2. \A r \in Ref : locks'[v][r] = CASE r \in Outputs[x] -> NoTx
                                     [] r \in Inputs[x]  -> Absent
                                     [] OTHER            -> locks[v][r]
  BY Zenon DEF Execute, TypeOK
<1>3. Outputs[x] \cap Genesis = {} /\ \A t \in Tx : t # x => Outputs[t] \cap Outputs[x] = {}
  BY Zenon, LockAssumption
<1>4. Objects(v) \subseteq Objects(v)' /\ Objects(v) \cap Outputs[x] = {}
  BY Zenon, <1>1, <1>3 DEF Objects
<1>5. \A r \in Ref : r \in Objects(v) => locks'[v][r] \in {locks[v][r], Absent}
  BY <1>2, <1>4
<1>6. LockOf(v) /\ \A t \in Tx : Inputs[t] \subseteq Ref
  BY Zenon, LockAssumption DEF LockInv
<1>7. \A e \in Epoch, t \in Tx : Held(v, e, t)' <=> Held(v, e, t)
  BY Zenon, <1>1 DEF Held
<1>8. HeldLocked(v)'
  <2>1. ASSUME NEW e \in Epoch \ closed, NEW t \in Tx, Held(v, e, t), NEW r \in Inputs[t]
        PROVE  r \in Objects(v)' /\ locks'[v][r] \in {<<e, t>>, Absent}
    <3>1. r \in Ref /\ r \in Objects(v) /\ locks[v][r] \in {<<e, t>>, Absent}
      BY Zenon, <1>6, <2>1 DEF LockOf, HeldLocked
    <3> QED
      BY Zenon, <1>4, <1>5, <3>1
  <2> QED
    BY Zenon, <1>1, <1>7, <2>1 DEF HeldLocked
<1>9. WriteLocked(v)'
  <2>1. ASSUME NEW c \in calls[v], c.step = "write", c.epoch \notin closed, NEW r \in Inputs[c.tx]
        PROVE  r \in Objects(v)' /\ (r \in c.refs \/ locks'[v][r] \in {<<c.epoch, c.tx>>, Absent})
    <3>1. c \in Call
      BY Zenon DEF TypeOK
    <3>2. c.tx \in Tx
      BY <3>1 DEF Call
    <3>3. r \in Objects(v) /\ (r \in c.refs \/ locks[v][r] \in {<<c.epoch, c.tx>>, Absent})
      BY Zenon, <1>6, <2>1 DEF LockOf, WriteLocked
    <3>4. r \in Ref
      BY Zenon, <1>6, <3>2
    <3> QED
      BY Zenon, <1>4, <1>5, <3>3, <3>4
  <2>2. \A c \in calls[v] : c.step = "write" => c.refs \subseteq Inputs[c.tx]
    BY Zenon, <1>6 DEF LockOf, WriteLocked
  <2> QED
    BY Zenon, <1>1, <2>1, <2>2 DEF WriteLocked
<1>10. WriteApart(v)' /\ CallsApart(v)' /\ HeldApart(v)'
  BY Zenon, <1>1, <1>6, <1>7 DEF LockOf, WriteApart, CallsApart, HeldApart
<1> QED
  BY Zenon, <1>8, <1>9, <1>10 DEF LockOf

\* Reverting sets locks by force, in an epoch that is over.
LEMMA LockRevert ==
    ASSUME TypeOK, EpochInv, LockInv, NEW v \in Validator, NEW x \in Tx, Revert(v, x)
    PROVE  LockOf(v)'
<1>1. closed' = closed /\ signed' = signed /\ calls' = calls /\ epoch[v] \in closed
  BY Zenon DEF Revert, EpochInv, EpochOf
<1>2. \A e \in Epoch \ closed, t \in Tx : ~Held(v, e, t)'
  BY Zenon, <1>1, NothingHeld DEF Held
<1>3. \A c \in calls[v] : c.epoch \in closed
  BY Zenon, <1>1, NothingHeld
<1>4. HeldLocked(v)' /\ WriteApart(v)' /\ HeldApart(v)'
  BY Zenon, <1>1, <1>2 DEF HeldLocked, WriteApart, HeldApart
<1>5. WriteLocked(v)' /\ CallsApart(v)'
  BY Zenon, <1>1, <1>3 DEF LockInv, LockOf, WriteLocked, CallsApart
<1> QED
  BY Zenon, <1>4, <1>5 DEF LockOf

\* Every step keeps what is held locked.
LEMMA LockStep ==
    ASSUME TypeOK, EpochInv, LockInv, Next
    PROVE  LockInv'
<1>1. ASSUME NEW v \in Validator, NEW t \in Tx, HandleTransaction(v, t)
      PROVE  LockInv'
  <2>1. /\ closed' = closed /\ locks' = locks /\ executed' = executed /\ signed' = signed
        /\ calls'[v] = calls[v] \cup {[epoch |-> epoch[v], tx |-> t, step |-> "check", refs |-> {}]}
        /\ \A w \in Validator \ {v} : calls'[w] = calls[w]
    BY Zenon, <1>1 DEF HandleTransaction, TypeOK
  <2>2. \A c \in calls'[v] : c.step # "check" => c \in calls[v]
    BY <2>1
  <2>3. \A e \in Epoch, u \in Tx : Held(v, e, u)' => Held(v, e, u)
    BY Zenon, <2>1, <2>2 DEF Held
  <2>4. LockOf(v)'
    BY Zenon, <2>1, <2>2, <2>3, LockFrame DEF LockInv
  <2> QED
    BY Zenon, <2>1, <2>4, LockOthers
<1>2. ASSUME NEW v \in Validator, NEW c \in calls[v], ReadLocks(v, c)
      PROVE  LockInv'
  <2>1. /\ closed' = closed /\ locks' = locks /\ executed' = executed /\ signed' = signed
        /\ \A w \in Validator \ {v} : calls'[w] = calls[w]
    BY Zenon, <1>2 DEF ReadLocks, Continue, TypeOK
  <2> QED
    BY Zenon, <1>2, <2>1, LockRead, LockOthers
<1>3. ASSUME NEW v \in Validator, NEW c \in calls[v], WriteLocks(v, c)
      PROVE  LockInv'
  <2>1. /\ closed' = closed /\ executed' = executed /\ signed' = signed
        /\ \A w \in Validator \ {v} : calls'[w] = calls[w] /\ locks'[w] = locks[w]
    BY Zenon, <1>3 DEF WriteLocks, Continue, TypeOK
  <2> QED
    BY Zenon, <1>3, <2>1, LockWrite, LockOthers
<1>4. ASSUME NEW v \in Validator, NEW c \in calls[v], InsertSigned(v, c)
      PROVE  LockInv'
  <2>1. /\ closed' = closed /\ locks' = locks /\ executed' = executed /\ c.step = "insert"
        /\ calls'[v] = calls[v] \ {c} /\ signed'[v] = signed[v] \cup {<<c.epoch, c.tx>>}
        /\ \A w \in Validator \ {v} : calls'[w] = calls[w] /\ signed'[w] = signed[w]
    BY Zenon, <1>4 DEF InsertSigned, Continue, TypeOK
  <2>2. \A e \in Epoch, u \in Tx : Held(v, e, u)' => Held(v, e, u)
    BY <2>1 DEF Held
  <2>3. LockOf(v)'
    BY Zenon, <2>1, <2>2, LockFrame DEF LockInv
  <2> QED
    BY Zenon, <2>1, <2>3, LockOthers
<1>5. ASSUME NEW v \in Validator, NEW x \in Tx, Execute(v, x)
      PROVE  LockInv'
  <2>1. /\ closed' = closed /\ calls' = calls /\ signed' = signed
        /\ \A w \in Validator \ {v} : executed'[w] = executed[w] /\ locks'[w] = locks[w]
    BY Zenon, <1>5 DEF Execute, TypeOK
  <2> QED
    BY Zenon, <1>5, <2>1, LockExecute, LockOthers
<1>6. ASSUME NEW v \in Validator, NEW x \in Tx, Revert(v, x)
      PROVE  LockInv'
  <2>1. /\ closed' = closed /\ calls' = calls /\ signed' = signed
        /\ \A w \in Validator \ {v} : executed'[w] = executed[w] /\ locks'[w] = locks[w]
    BY Zenon, <1>6 DEF Revert, TypeOK
  <2> QED
    BY Zenon, <1>6, <2>1, LockRevert, LockOthers
<1>7. ASSUME NEW v \in Validator,
             CloseUserCerts(v) \/ StartRevert(v) \/ ReopenEpochDb(v) \/ Crash(v)
      PROVE  LockInv'
  <2>1. /\ closed' = closed /\ locks' = locks /\ executed' = executed /\ signed' = signed
        /\ calls'[v] \subseteq calls[v]
        /\ \A w \in Validator \ {v} : calls'[w] = calls[w]
    BY Zenon, <1>7 DEF CloseUserCerts, StartRevert, ReopenEpochDb, Crash, TypeOK
  <2>2. \A e \in Epoch, u \in Tx : Held(v, e, u)' => Held(v, e, u)
    BY Zenon, <2>1 DEF Held
  <2>3. LockOf(v)'
    BY Zenon, <2>1, <2>2, LockFrame DEF LockInv
  <2> QED
    BY Zenon, <2>1, <2>3, LockOthers
<1>8. ASSUME NEW e \in Epoch, NEW S \in SUBSET Tx, CloseEpoch(e, S)
      PROVE  LockInv'
  <2>1. /\ closed \subseteq closed' /\ locks' = locks /\ executed' = executed
        /\ signed' = signed /\ calls' = calls
    BY Zenon, <1>8 DEF CloseEpoch
  <2>2. ASSUME NEW v \in Validator
        PROVE  LockOf(v)'
    <3>1. \A d \in Epoch, u \in Tx : Held(v, d, u)' => Held(v, d, u)
      BY Zenon, <2>1 DEF Held
    <3> QED
      BY Zenon, <2>1, <3>1, LockFrame DEF LockInv
  <2> QED
    BY Zenon, <2>2 DEF LockInv
<1> QED
  BY Zenon, <1>1, <1>2, <1>3, <1>4, <1>5, <1>6, <1>7, <1>8 DEF Next, ValidatorStep

-----------------------------------------------------------------------------
(* Certificates and checkpoints *)

\* How a step changes what certificates and checkpoints rest on.
StepOf(v) ==
    /\ signed[v] \subseteq signed'[v]
    /\ \/ effects'[v] = effects[v]
       \/ \E x \in Tx : Execute(v, x) /\ effects'[v] = effects[v] \cup {<<epoch[v], x>>}
    /\ \/ epoch'[v] = epoch[v] /\ (phase'[v] = "accepting" => phase[v] = "accepting")
       \/ ReopenEpochDb(v)
    /\ \/ executed[v] \subseteq executed'[v]
       \/ \E x \in Tx : Revert(v, x) /\ executed'[v] = executed[v] \ {x}

LEMMA StepTaken ==
    ASSUME TypeOK, Next
    PROVE  \A v \in Validator : StepOf(v)
<1>1. ASSUME NEW w \in Validator, NEW t \in Tx, HandleTransaction(w, t)
      PROVE  \A v \in Validator : StepOf(v)
  BY Zenon, <1>1 DEF HandleTransaction, StepOf
<1>2. ASSUME NEW w \in Validator, NEW x \in Tx, Execute(w, x)
      PROVE  \A v \in Validator : StepOf(v)
  <2>1. UNCHANGED <<signed, epoch, phase>>
    BY Zenon, <1>2 DEF Execute
  <2>2. \A v \in Validator \ {w} : effects'[v] = effects[v] /\ executed'[v] = executed[v]
    BY Zenon, <1>2 DEF Execute, TypeOK
  <2>3. effects'[w] = effects[w] \cup {<<epoch[w], x>>} /\ executed'[w] = executed[w] \cup {x}
    BY Zenon, <1>2 DEF Execute, TypeOK
  <2> QED
    BY Zenon, <1>2, <2>1, <2>2, <2>3 DEF StepOf
<1>3. ASSUME NEW w \in Validator, NEW x \in Tx, Revert(w, x)
      PROVE  \A v \in Validator : StepOf(v)
  <2>1. UNCHANGED <<signed, epoch, phase, effects>>
    BY Zenon, <1>3 DEF Revert
  <2>2. \A v \in Validator \ {w} : executed'[v] = executed[v]
    BY Zenon, <1>3 DEF Revert, TypeOK
  <2>3. executed'[w] = executed[w] \ {x}
    BY Zenon, <1>3 DEF Revert, TypeOK
  <2> QED
    BY Zenon, <1>3, <2>1, <2>2, <2>3 DEF StepOf
<1>4. ASSUME NEW w \in Validator, NEW c \in calls[w],
             ReadLocks(w, c) \/ WriteLocks(w, c) \/ InsertSigned(w, c)
      PROVE  \A v \in Validator : StepOf(v)
  <2>1. UNCHANGED <<epoch, phase, effects, executed>>
    BY Zenon, <1>4 DEF ReadLocks, WriteLocks, InsertSigned
  <2>2. \A v \in Validator : signed[v] \subseteq signed'[v]
    BY Zenon, <1>4 DEF ReadLocks, WriteLocks, InsertSigned, TypeOK
  <2> QED
    BY Zenon, <2>1, <2>2 DEF StepOf
<1>5. ASSUME NEW w \in Validator, CloseUserCerts(w) \/ StartRevert(w) \/ Crash(w)
      PROVE  \A v \in Validator : StepOf(v)
  <2>1. UNCHANGED <<epoch, signed, effects, executed>>
    BY Zenon, <1>5 DEF CloseUserCerts, StartRevert, Crash
  <2>2. \A v \in Validator : phase'[v] = "accepting" => phase[v] = "accepting"
    BY <1>5 DEF CloseUserCerts, StartRevert, Crash, TypeOK
  <2> QED
    BY Zenon, <2>1, <2>2 DEF StepOf
<1>6. ASSUME NEW w \in Validator, ReopenEpochDb(w)
      PROVE  \A v \in Validator : StepOf(v)
  <2>1. UNCHANGED <<signed, effects, executed>>
    BY Zenon, <1>6 DEF ReopenEpochDb
  <2>2. \A v \in Validator \ {w} : epoch'[v] = epoch[v] /\ phase'[v] = phase[v]
    BY Zenon, <1>6 DEF ReopenEpochDb, TypeOK
  <2> QED
    BY Zenon, <1>6, <2>1, <2>2 DEF StepOf
<1>7. ASSUME NEW e \in Epoch, NEW S \in SUBSET Tx, CloseEpoch(e, S)
      PROVE  \A v \in Validator : StepOf(v)
  BY Zenon, <1>7 DEF CloseEpoch, StepOf
<1> QED
  BY Zenon, <1>1, <1>2, <1>3, <1>4, <1>5, <1>6, <1>7 DEF Next, ValidatorStep

\* An epoch is closed once, and its checkpoints do not change afterwards.
LEMMA Closing ==
    ASSUME TypeOK, Next
    PROVE  \/ UNCHANGED <<closed, final>>
           \/ \E e \in Epoch, S \in SUBSET Tx :
                /\ CloseEpoch(e, S) /\ e \notin closed /\ closed' = closed \cup {e}
                /\ final'[e] = S /\ \A d \in Epoch \ {e} : final'[d] = final[d]
                /\ UNCHANGED <<epoch, phase, executed, signed, effects>>
<1>1. ASSUME NEW v \in Validator, ValidatorStep(v)
      PROVE  UNCHANGED <<closed, final>>
  <2>1. CASE \E t \in Tx : HandleTransaction(v, t) \/ Execute(v, t) \/ Revert(v, t)
    BY Zenon, <2>1 DEF HandleTransaction, Execute, Revert
  <2>2. CASE \E c \in calls[v] : ReadLocks(v, c) \/ WriteLocks(v, c) \/ InsertSigned(v, c)
    BY Zenon, <2>2 DEF ReadLocks, WriteLocks, InsertSigned
  <2>3. CASE CloseUserCerts(v) \/ StartRevert(v) \/ ReopenEpochDb(v) \/ Crash(v)
    BY Zenon, <2>3 DEF CloseUserCerts, StartRevert, ReopenEpochDb, Crash
  <2> QED
    BY Zenon, <1>1, <2>1, <2>2, <2>3 DEF ValidatorStep
<1>2. ASSUME NEW e \in Epoch, NEW S \in SUBSET Tx, CloseEpoch(e, S)
      PROVE  /\ e \notin closed /\ closed' = closed \cup {e}
             /\ final'[e] = S /\ \A d \in Epoch \ {e} : final'[d] = final[d]
             /\ UNCHANGED <<epoch, phase, executed, signed, effects>>
  BY Zenon, <1>2 DEF CloseEpoch, TypeOK
<1> QED
  BY Zenon, <1>1, <1>2 DEF Next

\* Two transactions that are certified in an open epoch are not in conflict: a
\* validator in both quorums holds both.
LEMMA CertifiedApart ==
    ASSUME LockInv, NEW e \in Epoch \ closed, NEW t \in Tx, NEW u \in Tx,
           Certified(e, t), Certified(e, u)
    PROVE  ~Conflict(t, u)
<1>1. PICK P \in Quorum, Q \in Quorum :
         (\A v \in P : <<e, t>> \in signed[v]) /\ (\A v \in Q : <<e, u>> \in signed[v])
  BY Zenon DEF Certified
<1>2. P \cap Q # {} /\ P \subseteq Validator
  BY Zenon, LockAssumption
<1>3. PICK v \in P \cap Q : v \in Validator
  BY Zenon, <1>2
<1>4. Held(v, e, t) /\ Held(v, e, u)
  BY Zenon, <1>1 DEF Held
<1> QED
  BY Zenon, <1>3, <1>4 DEF LockInv, LockOf, HeldApart

\* A validator that helped to close an epoch executes nothing more in it.
LEMMA CloserStep ==
    ASSUME TypeOK, Next, NEW e \in closed, NEW h \in Validator, CloserOf(e, h),
           final'[e] = final[e]
    PROVE  CloserOf(e, h)'
<1>1. StepOf(h) /\ epoch[h] \in Nat /\ e \in Nat
  <2>1. StepOf(h)
    BY Zenon, StepTaken
  <2>2. epoch[h] \in Epoch /\ e \in Epoch
    BY Zenon DEF TypeOK
  <2> QED
    BY <2>1, <2>2 DEF Epoch
<1>2. ExecutedIn(h, e)' \subseteq final[e]
  <2>1. CASE effects'[h] = effects[h]
    BY Zenon, <2>1 DEF ExecutedIn, CloserOf
  <2>2. ASSUME NEW x \in Tx, Execute(h, x), effects'[h] = effects[h] \cup {<<epoch[h], x>>}
        PROVE  ExecutedIn(h, e)' \subseteq final[e]
    <3>1. epoch[h] = e => x \in final[e]
      BY Zenon, <2>2 DEF Execute, MayExecute, CloserOf
    <3>2. \A t \in Tx : <<e, t>> \in effects'[h] => <<e, t>> \in effects[h] \/ (epoch[h] = e /\ t = x)
      BY <2>2
    <3> QED
      BY Zenon, <3>1, <3>2 DEF ExecutedIn, CloserOf
  <2> QED
    BY Zenon, <1>1, <2>1, <2>2 DEF StepOf
<1>3. e <= epoch'[h] /\ (epoch'[h] = e => phase'[h] # "accepting")
  <2>1. CASE epoch'[h] = epoch[h] /\ (phase'[h] = "accepting" => phase[h] = "accepting")
    BY Zenon, <2>1 DEF CloserOf
  <2>2. CASE ReopenEpochDb(h)
    <3>1. epoch'[h] = epoch[h] + 1 /\ e <= epoch[h]
      BY Zenon, <2>2 DEF ReopenEpochDb, TypeOK, CloserOf
    <3> QED
      BY <1>1, <3>1
  <2> QED
    BY Zenon, <1>1, <2>1, <2>2 DEF StepOf
<1> QED
  BY Zenon, <1>2, <1>3 DEF CloserOf

\* What the checkpoints of an earlier epoch contain is neither executed again nor
\* reverted.
LEMMA FinalStep ==
    ASSUME TypeOK, EpochInv, CertInv, Next, NEW v \in Validator
    PROVE  FinalOf(v)'
<1> SUFFICES ASSUME NEW e \in Epoch, e < epoch'[v], NEW t \in final'[e]
             PROVE  t \in executed'[v] /\ \A d \in Epoch : d > e => <<d, t>> \notin effects'[v]
  BY Zenon DEF FinalOf
<1>1. StepOf(v) /\ epoch[v] \in Epoch
  BY Zenon, StepTaken DEF TypeOK
<1>2. e < epoch[v] \/ (e = epoch[v] /\ ReopenEpochDb(v))
  <2>1. epoch'[v] = epoch[v] \/ (ReopenEpochDb(v) /\ epoch'[v] = epoch[v] + 1)
    BY Zenon, <1>1 DEF StepOf, ReopenEpochDb, TypeOK
  <2> QED
    BY <1>1, <2>1 DEF Epoch
<1>3. e \in closed /\ t \in final[e]
  <2>1. e \in closed
    BY Zenon, <1>1, <1>2 DEF EpochInv, EpochOf, ReopenEpochDb
  <2>2. final'[e] = final[e]
    BY Zenon, <2>1, Closing
  <2> QED
    BY Zenon, <2>1, <2>2
<1>4. CASE e < epoch[v]
  <2>1. t \in executed[v] /\ \A d \in Epoch : d > e => <<d, t>> \notin effects[v]
    BY Zenon, <1>3, <1>4 DEF CertInv, FinalOf
  <2>2. t \in executed'[v]
    <3>1. ASSUME NEW x \in Tx, Revert(v, x), executed'[v] = executed[v] \ {x}
          PROVE  t # x
      <4>1. <<epoch[v], x>> \in effects[v]
        BY Zenon, <3>1 DEF Revert, Uncommitted, ExecutedIn
      <4>2. epoch[v] > e
        BY <1>1, <1>4 DEF Epoch
      <4> QED
        BY Zenon, <1>1, <2>1, <4>1, <4>2
    <3> QED
      BY Zenon, <1>1, <2>1, <3>1 DEF StepOf
  <2>3. ASSUME NEW d \in Epoch, d > e
        PROVE  <<d, t>> \notin effects'[v]
    <3>1. ASSUME NEW x \in Tx, Execute(v, x), effects'[v] = effects[v] \cup {<<epoch[v], x>>}
          PROVE  <<d, t>> \notin effects'[v]
      <4>1. x # t
        BY Zenon, <2>1, <3>1 DEF Execute
      <4>2. <<d, t>> \notin effects[v]
        BY Zenon, <2>1, <2>3
      <4> QED
        BY <3>1, <4>1, <4>2
    <3> QED
      BY Zenon, <1>1, <2>1, <2>3, <3>1 DEF StepOf
  <2> QED
    BY Zenon, <2>2, <2>3
<1>5. CASE e = epoch[v] /\ ReopenEpochDb(v)
  <2>1. executed'[v] = executed[v] /\ effects'[v] = effects[v] /\ phase[v] = "reverting"
    BY Zenon, <1>5 DEF ReopenEpochDb
  <2>2. t \in executed[v]
    BY Zenon, <1>3, <1>5, <2>1 DEF EpochInv, EpochOf
  <2>3. \A x \in effects[v] : x[1] <= e
    BY Zenon, <1>5 DEF EpochInv, EpochOf
  <2>4. \A d \in Epoch : d > e => <<d, t>> \notin effects[v]
    BY <2>3 DEF Epoch
  <2> QED
    BY Zenon, <2>1, <2>2, <2>4
<1> QED
  BY Zenon, <1>2, <1>4, <1>5

\* Every step keeps CertInv.
LEMMA CertStep ==
    ASSUME TypeOK, EpochInv, LockInv, CertInv, Next
    PROVE  CertInv'
<1>1. ASSUME NEW v \in Validator, NEW e \in Epoch, NEW t \in Tx, <<e, t>> \in effects'[v]
      PROVE  Certified(e, t)'
  <2>1. StepOf(v) /\ \A w \in Validator : signed[w] \subseteq signed'[w]
    BY Zenon, StepTaken DEF StepOf
  <2>2. <<e, t>> \in effects[v] \/ (e = epoch[v] /\ Execute(v, t))
    <3>1. ASSUME NEW x \in Tx, Execute(v, x), effects'[v] = effects[v] \cup {<<epoch[v], x>>}
          PROVE  <<e, t>> \in effects[v] \/ (e = epoch[v] /\ t = x)
      BY <1>1, <3>1
    <3> QED
      BY Zenon, <1>1, <2>1, <3>1 DEF StepOf
  <2>3. Certified(e, t)
    BY Zenon, <2>2 DEF CertInv, Execute, MayExecute
  <2>4. \A Q \in Quorum : Q \subseteq Validator
    BY Zenon, LockAssumption
  <2> QED
    BY Zenon, <2>1, <2>3, <2>4 DEF Certified
<1>2. \A e \in closed' : \E Q \in Quorum : \A h \in Q : CloserOf(e, h)'
  <2>1. ASSUME NEW e \in closed
        PROVE  \E Q \in Quorum : \A h \in Q : CloserOf(e, h)'
    <3>1. PICK Q \in Quorum : \A h \in Q : CloserOf(e, h)
      BY Zenon DEF CertInv
    <3>2. Q \subseteq Validator /\ e \in Epoch
      BY Zenon, LockAssumption DEF TypeOK
    <3>3. final'[e] = final[e]
      BY Zenon, <3>2, Closing
    <3> QED
      BY Zenon, <3>1, <3>2, <3>3, CloserStep
  <2>2. ASSUME NEW e \in Epoch, NEW S \in SUBSET Tx, CloseEpoch(e, S), final'[e] = S,
               UNCHANGED <<epoch, phase, executed, signed, effects>>
        PROVE  \E Q \in Quorum : \A h \in Q : CloserOf(e, h)'
    <3>1. PICK Q \in Quorum : \A h \in Q :
             epoch[h] = e /\ phase[h] = "halted" /\ ExecutedIn(h, e) \subseteq S
      BY Zenon, <2>2 DEF CloseEpoch
    <3>2. \A h \in Q : epoch'[h] = e /\ phase'[h] = "halted" /\ ExecutedIn(h, e)' \subseteq final'[e]
      BY Zenon, <2>2, <3>1 DEF ExecutedIn
    <3>3. \A h \in Q : e <= epoch'[h] /\ phase'[h] # "accepting"
      BY <3>2 DEF Epoch
    <3> QED
      BY Zenon, <3>2, <3>3 DEF CloserOf
  <2> QED
    BY Zenon, <2>1, <2>2, Closing
<1>3. \A e \in closed' : \A t, u \in final'[e] : ~Conflict(t, u)
  <2>1. ASSUME NEW e \in Epoch, NEW S \in SUBSET Tx, CloseEpoch(e, S), e \notin closed
        PROVE  \A t, u \in S : ~Conflict(t, u)
    <3>1. \A t \in S : Certified(e, t)
      BY Zenon, <2>1 DEF CloseEpoch
    <3> QED
      BY Zenon, <2>1, <3>1, CertifiedApart
  <2>2. closed \subseteq Epoch
    BY Zenon DEF TypeOK
  <2> QED
    BY Zenon, <2>1, <2>2, Closing DEF CertInv
<1>4. \A v \in Validator : FinalOf(v)'
  BY Zenon, FinalStep
<1> QED
  BY Zenon, <1>1, <1>2, <1>3, <1>4 DEF CertInv, Conflict

-----------------------------------------------------------------------------
(* The invariant and what follows from it *)

\* The initial state satisfies the invariant.
LEMMA InitInv == Init => IInv
<1> SUFFICES ASSUME Init PROVE IInv
  BY Zenon
<1>1. TypeOK
  <2>1. 0 \in Epoch
    <3>1. MaxEpoch \in Nat
      BY Zenon, LockAssumption
    <3> QED
      BY <3>1 DEF Epoch
  <2> QED
    BY <2>1 DEF Init, TypeOK
<1>2. EpochInv
  BY DEF Init, EpochInv, EpochOf, Epoch
<1>3. LockInv
  BY Zenon DEF Init, LockInv, LockOf, HeldLocked, WriteLocked, WriteApart, CallsApart, HeldApart, Held
<1>4. CertInv
  BY DEF Init, CertInv, FinalOf, Epoch
<1> QED
  BY Zenon, <1>1, <1>2, <1>3, <1>4 DEF IInv

\* Every step keeps it.
LEMMA StepInv == IInv /\ [Next]_vars => IInv'
<1>1. ASSUME IInv, Next
      PROVE  IInv'
  BY Zenon, <1>1, TypeStep, EpochStep, LockStep, CertStep DEF IInv
<1>2. ASSUME IInv, UNCHANGED vars
      PROVE  IInv'
  <2>1. /\ epoch' = epoch /\ phase' = phase /\ locks' = locks /\ executed' = executed
        /\ signed' = signed /\ effects' = effects /\ calls' = calls
        /\ closed' = closed /\ final' = final
    BY Zenon, <1>2 DEF vars
  <2>2. TypeOK' /\ EpochInv'
    BY <1>2, <2>1 DEF IInv, TypeOK, EpochInv, EpochOf
  <2>3. ASSUME NEW v \in Validator
        PROVE  LockOf(v)'
    <3>1. \A e \in Epoch, t \in Tx : Held(v, e, t)' => Held(v, e, t)
      BY Zenon, <2>1 DEF Held
    <3>2. LockOf(v)
      BY Zenon, <1>2 DEF IInv, LockInv
    <3> QED
      BY Zenon, <2>1, <3>1, <3>2, LockFrame
  <2>4. CertInv'
    <3>1. \A e, t : Certified(e, t) => Certified(e, t)'
      BY Zenon, <2>1 DEF Certified
    <3>2. \A e, h : CloserOf(e, h) => CloserOf(e, h)'
      BY Zenon, <2>1 DEF CloserOf, ExecutedIn
    <3>3. \A v : FinalOf(v) => FinalOf(v)'
      BY Zenon, <2>1 DEF FinalOf
    <3>4. CertInv
      BY Zenon, <1>2 DEF IInv
    <3> QED
      BY Zenon, <2>1, <3>1, <3>2, <3>3, <3>4 DEF CertInv, Conflict
  <2> QED
    BY Zenon, <2>2, <2>3, <2>4 DEF IInv, LockInv
<1> QED
  BY Zenon, <1>1, <1>2

\* The invariant holds in every reachable state.
THEOREM LockInvariance == Spec => []IInv
  BY InitInv, StepInv, PTL DEF Spec

\* The types are right in every reachable state: a lock is free or names an epoch and
\* a transaction.
THEOREM LockTypes == Spec => []TypeOK
<1>1. IInv => TypeOK
  BY Zenon DEF IInv
<1> QED
  BY <1>1, LockInvariance, PTL

\* A validator never signs two transactions that spend the same object version in an
\* epoch that is still open, for any interleaving of handle_transaction calls,
\* executions, crashes and reconfigurations.
THEOREM SignsOnce == Spec => []NoEquivocation
<1>1. IInv => NoEquivocation
  <2>1. ASSUME IInv, NEW v \in Validator, NEW e \in Epoch, NEW t \in Tx, NEW u \in Tx,
               {<<e, t>>, <<e, u>>} \subseteq signed[v], Conflict(t, u), e \notin closed
        PROVE  FALSE
    <3>1. Held(v, e, t) /\ Held(v, e, u)
      BY Zenon, <2>1 DEF Held
    <3> QED
      BY Zenon, <2>1, <3>1 DEF IInv, LockInv, LockOf, HeldApart
  <2> QED
    BY Zenon, <2>1 DEF NoEquivocation
<1> QED
  BY <1>1, LockInvariance, PTL

\* Once an epoch is closed, effects signed by a quorum are in its checkpoints: the
\* quorum has a validator in common with the one that closed the epoch.
LEMMA EffectsFinal ==
    ASSUME IInv, NEW e \in closed, NEW t \in Tx, EffectsCertified(e, t)
    PROVE  t \in final[e]
<1>1. PICK P \in Quorum : \A h \in P : CloserOf(e, h)
  BY Zenon DEF IInv, CertInv
<1>2. PICK Q \in Quorum : \A h \in Q : <<e, t>> \in effects[h]
  BY Zenon DEF EffectsCertified
<1>3. PICK h : h \in P /\ h \in Q
  <2>1. P \cap Q # {}
    BY Zenon, LockAssumption
  <2> QED
    BY Zenon, <2>1
<1> QED
  BY Zenon, <1>1, <1>2, <1>3 DEF CloserOf, ExecutedIn

\* Effects signed by a quorum are never undone by a reconfiguration: every validator
\* in a later epoch has executed the transaction.
THEOREM EffectsSurvive == Spec => []CertifiedEffectsSurvive
<1>1. IInv => CertifiedEffectsSurvive
  <2>1. ASSUME IInv, NEW v \in Validator, NEW e \in Epoch, NEW t \in Tx,
               EffectsCertified(e, t), epoch[v] > e
        PROVE  t \in executed[v]
    <3>1. epoch[v] \in Epoch
      BY Zenon, <2>1 DEF IInv, TypeOK
    <3>2. e < epoch[v]
      BY <2>1, <3>1 DEF Epoch
    <3>3. e \in closed
      BY Zenon, <2>1, <3>2 DEF IInv, EpochInv, EpochOf
    <3>4. t \in final[e]
      BY Zenon, <2>1, <3>3, EffectsFinal
    <3> QED
      BY Zenon, <2>1, <3>2, <3>4 DEF IInv, CertInv, FinalOf
  <2> QED
    BY Zenon, <2>1 DEF CertifiedEffectsSurvive
<1> QED
  BY <1>1, LockInvariance, PTL

-----------------------------------------------------------------------------
(* The refinement *)

\* In every epoch the ledger is free of conflicts, and that of a closed epoch is what
\* its checkpoints contain.
LedgerInv ==
    /\ \A e \in Epoch : \A t, u \in ledger[e] : ~Conflict(t, u)
    /\ \A e \in closed : ledger[e] = final[e]

LEMMA LedgerFacts == IInv => LedgerInv
<1> SUFFICES ASSUME IInv PROVE LedgerInv
  BY Zenon
<1>1. \A e \in closed : ledger[e] = final[e]
  <2> TAKE e \in closed
  <2>1. e \in Epoch
    BY Zenon DEF IInv, TypeOK
  <2>2. {t \in Tx : EffectsCertified(e, t)} \subseteq final[e]
    BY Zenon, EffectsFinal
  <2> QED
    BY Zenon, <2>1, <2>2 DEF ledger
<1>2. ASSUME NEW e \in Epoch \ closed, NEW t \in ledger[e], NEW u \in ledger[e]
      PROVE  ~Conflict(t, u)
  <2>1. t \in Tx /\ u \in Tx /\ EffectsCertified(e, t) /\ EffectsCertified(e, u)
    <3>1. final[e] = {}
      BY Zenon DEF IInv, EpochInv
    <3> QED
      BY Zenon, <3>1 DEF ledger
  <2>2. \A x \in Tx : EffectsCertified(e, x) => Certified(e, x)
    <3>1. \A Q \in Quorum : Q \subseteq Validator /\ \E h : h \in Q
      <4> TAKE Q \in Quorum
      <4>1. Q \subseteq Validator /\ Q \cap Q # {}
        BY Zenon, LockAssumption
      <4> QED
        BY Zenon, <4>1
    <3> QED
      BY Zenon, <3>1 DEF EffectsCertified, IInv, CertInv
  <2> QED
    BY Zenon, <2>1, <2>2, CertifiedApart DEF IInv
<1>3. \A e \in closed : \A t, u \in ledger[e] : ~Conflict(t, u)
  BY Zenon, <1>1 DEF IInv, CertInv
<1> QED
  BY Zenon, <1>1, <1>2, <1>3 DEF LedgerInv

\* A step of the validators extends the ledger of one open epoch or leaves it alone.
LEMMA LedgerStep ==
    ASSUME IInv, IInv', LedgerInv, LedgerInv', Next
    PROVE  Ledger!Next \/ UNCHANGED Ledger!vars
<1>0. \A e \in Epoch : /\ ledger[e] = {t \in Tx : EffectsCertified(e, t)} \cup final[e]
                       /\ ledger'[e] = {t \in Tx : EffectsCertified(e, t)'} \cup final'[e]
  BY Zenon DEF ledger
<1>1. ASSUME NEW e \in Epoch \ closed, ledger[e] \subseteq ledger'[e],
             closed' = closed \/ closed' = closed \cup {e},
             \A d \in Epoch \ {e} : ledger'[d] = ledger[d]
      PROVE  Ledger!Next
  <2>1. Ledger!NoConflict(ledger'[e])
    BY Zenon DEF LedgerInv, Conflict, Ledger!NoConflict, Ledger!Conflict
  <2> QED
    BY Zenon, <1>1, <2>1 DEF Ledger!Next, Ledger!Extend
<1>2. ASSUME NEW e \in Epoch, NEW S \in SUBSET Tx, e \notin closed, closed' = closed \cup {e},
             \A d \in Epoch \ {e} : final'[d] = final[d], effects' = effects
      PROVE  Ledger!Next
  <2>1. \A d \in Epoch, t \in Tx : EffectsCertified(d, t)' <=> EffectsCertified(d, t)
    BY Zenon, <1>2 DEF EffectsCertified
  <2>2. \A d \in Epoch \ {e} : ledger'[d] = ledger[d]
    BY Zenon, <1>0, <1>2, <2>1
  <2>3. final[e] = {}
    BY Zenon, <1>2 DEF IInv, EpochInv
  <2>4. ledger[e] \subseteq ledger'[e]
    BY Zenon, <1>0, <2>1, <2>3
  <2> QED
    BY Zenon, <1>1, <1>2, <2>2, <2>4
<1>3. ASSUME UNCHANGED <<closed, final>>, effects' = effects
      PROVE  UNCHANGED Ledger!vars
  <2>1. \A d \in Epoch, t \in Tx : EffectsCertified(d, t)' <=> EffectsCertified(d, t)
    BY Zenon, <1>3 DEF EffectsCertified
  <2>2. ledger' = ledger
    BY Zenon, <1>3, <2>1 DEF ledger
  <2> QED
    BY Zenon, <1>3, <2>2 DEF Ledger!vars
<1>4. ASSUME UNCHANGED <<closed, final>>, NEW v \in Validator, NEW x \in Tx, Execute(v, x)
      PROVE  Ledger!Next \/ UNCHANGED Ledger!vars
  <2>1. epoch[v] \in Epoch /\ effects' = [effects EXCEPT ![v] = @ \cup {<<epoch[v], x>>}]
        /\ effects \in [Validator -> SUBSET LockDetails]
    BY Zenon, <1>4 DEF Execute, IInv, TypeOK
  <2>2. \A w \in Validator : effects[w] \subseteq effects'[w]
    BY Zenon, <2>1
  <2>3. \A Q \in Quorum : Q \subseteq Validator
    BY Zenon, LockAssumption
  <2>4. \A d \in Epoch, t \in Tx : EffectsCertified(d, t) => EffectsCertified(d, t)'
    BY Zenon, <2>2, <2>3 DEF EffectsCertified
  <2>5. \A w \in Validator, d \in Epoch \ {epoch[v]}, t \in Tx :
           <<d, t>> \in effects'[w] => <<d, t>> \in effects[w]
    BY <2>1
  <2>6. \A d \in Epoch \ {epoch[v]}, t \in Tx : EffectsCertified(d, t)' => EffectsCertified(d, t)
    BY Zenon, <2>3, <2>5 DEF EffectsCertified
  <2>7. \A d \in Epoch \ {epoch[v]} : ledger'[d] = ledger[d]
    BY Zenon, <1>0, <1>4, <2>4, <2>6
  <2>8. CASE epoch[v] \notin closed
    <3>1. ledger[epoch[v]] \subseteq ledger'[epoch[v]]
      BY Zenon, <1>0, <1>4, <2>1, <2>4
    <3> QED
      BY Zenon, <1>1, <1>4, <2>1, <2>7, <2>8, <3>1
  <2>9. CASE epoch[v] \in closed
    <3>0. closed' = closed /\ final' = final
      BY Zenon, <1>4
    <3>1. ledger'[epoch[v]] = ledger[epoch[v]]
      <4>1. ledger[epoch[v]] = final[epoch[v]]
        BY Zenon, <2>9 DEF LedgerInv
      <4>2. \A e \in closed' : ledger'[e] = final'[e]
        BY Zenon DEF LedgerInv
      <4> QED
        BY Zenon, <2>9, <3>0, <4>1, <4>2
    <3>2. \A d \in Epoch : ledger'[d] = ledger[d]
      BY Zenon, <2>7, <3>1
    <3>3. ledger' = ledger
      BY Zenon, <3>2 DEF ledger
    <3> QED
      BY Zenon, <1>4, <3>3 DEF Ledger!vars
  <2> QED
    BY Zenon, <2>8, <2>9
<1>5. effects' = effects \/ \E v \in Validator, x \in Tx : Execute(v, x)
  <2>1. ASSUME NEW v \in Validator, NEW t \in Tx, HandleTransaction(v, t) \/ Revert(v, t)
        PROVE  effects' = effects
    BY Zenon, <2>1 DEF HandleTransaction, Revert
  <2>2. ASSUME NEW v \in Validator, NEW c \in calls[v],
               ReadLocks(v, c) \/ WriteLocks(v, c) \/ InsertSigned(v, c)
        PROVE  effects' = effects
    BY Zenon, <2>2 DEF ReadLocks, WriteLocks, InsertSigned
  <2>3. ASSUME NEW v \in Validator,
               CloseUserCerts(v) \/ StartRevert(v) \/ ReopenEpochDb(v) \/ Crash(v)
        PROVE  effects' = effects
    BY Zenon, <2>3 DEF CloseUserCerts, StartRevert, ReopenEpochDb, Crash
  <2>4. ASSUME NEW e \in Epoch, NEW S \in SUBSET Tx, CloseEpoch(e, S)
        PROVE  effects' = effects
    BY Zenon, <2>4 DEF CloseEpoch
  <2> QED
    BY Zenon, <2>1, <2>2, <2>3, <2>4 DEF Next, ValidatorStep
<1>6. \/ UNCHANGED <<closed, final>>
      \/ \E e \in Epoch, S \in SUBSET Tx :
            /\ e \notin closed /\ closed' = closed \cup {e} /\ effects' = effects
            /\ \A d \in Epoch \ {e} : final'[d] = final[d]
  BY Zenon, Closing DEF IInv
<1> QED
  BY Zenon, <1>2, <1>3, <1>4, <1>5, <1>6

\* The validators implement SingleSpend: what clients see as final behaves like one
\* ledger per epoch that only grows, never spends an object version twice and is
\* fixed when the epoch ends.
THEOREM LedgerRefinement == Spec => LedgerSpec
<1>1. Init => Ledger!Init
  <2> SUFFICES ASSUME Init PROVE Ledger!Init
    BY Zenon
  <2>1. \A Q \in Quorum : Q \subseteq Validator /\ \E h : h \in Q
    <3> TAKE Q \in Quorum
    <3>1. Q \subseteq Validator /\ Q \cap Q # {}
      BY Zenon, LockAssumption
    <3> QED
      BY Zenon, <3>1
  <2>2. \A e \in Epoch, t \in Tx : ~EffectsCertified(e, t)
    BY Zenon, <2>1 DEF Init, EffectsCertified
  <2>3. ledger = [e \in Epoch |-> {}]
    BY Zenon, <2>2 DEF Init, ledger
  <2> QED
    BY Zenon, <2>3 DEF Init, Ledger!Init
<1>2. IInv /\ IInv' /\ LedgerInv /\ LedgerInv' /\ [Next]_vars => [Ledger!Next]_(Ledger!vars)
  <2>1. ASSUME UNCHANGED vars
        PROVE  UNCHANGED Ledger!vars
    BY Zenon, <2>1 DEF vars, Ledger!vars, ledger, EffectsCertified
  <2> QED
    BY <2>1, LedgerStep
<1> QED
  BY <1>1, <1>2, LedgerFacts, LockInvariance, PTL DEF Spec, LedgerSpec, Ledger!Spec

=============================================================================
