-------------------------- MODULE EpochEndProofs ----------------------------
(***************************************************************************)
(* Proof that the effects a quorum has signed are never lost at the end of *)
(* an epoch.  The inductive invariant expresses every table of the handler *)
(* by the log of commits: what a validator has processed, counted and      *)
(* scheduled is a function of how far in the log it is.  What is pending   *)
(* in the adapter has a task, and EndOfPublish is sent when nothing is.    *)
(*                                                                         *)
(* The heart of the invariant is OrderInv: when EndOfPublish of a          *)
(* validator is committed, whatever that validator has executed or         *)
(* submitted was committed before.                                         *)
(***************************************************************************)
EXTENDS EpochEnd, TLAPS

\* Keys in the first i commits.
Seen(i) == UNION {Keys(log[j]) : j \in 1..i}

\* The first i commits close the epoch.
ClosedAt(i) == \E Q \in Quorum : Q \subseteq Seen(i)

\* Keys in the first i commits up to the one that closes the epoch.
Counted(i) == {k \in Cert \cup Validator :
                 \E j \in 1..i : k \in Keys(log[j]) /\ ~ClosedAt(j - 1)}

\* The tables of the handler, by position in the log.
TableInv ==
    \A v \in Validator :
        /\ processed[v] = Seen(index[v])
        /\ endOfPublish[v] = Counted(index[v]) \cap Validator
        /\ scheduled[v] = Counted(index[v]) \cap Cert
        /\ (status[v] = "RejectAllCerts") <=> ClosedAt(index[v])

\* An epoch is closed by votes that are counted.
CloseInv ==
    \A v \in Validator :
        status[v] = "RejectAllCerts" => \E Q \in Quorum : Q \subseteq endOfPublish[v]

\* Some message of v is on its way to consensus or was output.
Published(v, m) ==
    \/ <<v, m>> \in narwhal
    \/ \E i \in DOMAIN log : <<v, m>> \in log[i]

\* v has decided to send EndOfPublish.
Finishing(v) ==
    \/ closing[v]
    \/ EndOfPublish(v) \in pending[v]
    \/ \E p \in Progress : <<EndOfPublish(v), p>> \in tasks[v]
    \/ Published(v, EndOfPublish(v))

\* A certificate is followed from its acceptance until it is output.
AdapterOf(v) ==
    /\ accepting[v] # {} => status[v] = "AcceptAllCerts"
    /\ Finishing(v) => status[v] # "AcceptAllCerts" /\ pending[v] \cap Cert = {}
    /\ \A t \in tasks[v] :
         /\ t[1] \in Message(v)
         /\ t[1] \in Cert => t[1] \in pending[v] \cup processed[v]
         /\ t[2] \in {"woken", "removed"} => t[1] \in processed[v]
    /\ \A c \in Cert : Published(v, c) => c \in pending[v] \cup processed[v]

AdapterInv == \A v \in Validator : AdapterOf(v)

\* What v has taken for execution.
Taken(v) == signed[v] \cup requested[v]

\* What v publishes and executes was output before its EndOfPublish.
OrderInv ==
    \A v \in Validator, i \in DOMAIN log :
        <<v, EndOfPublish(v)>> \in log[i] =>
            /\ \A c \in Cert : Published(v, c) => c \in Seen(i - 1)
            /\ Taken(v) \subseteq Seen(i - 1) \cup Counted(Len(log))

\* What v has taken is pending, was output, or comes from a checkpoint.
ExecutionInv ==
    \A v \in Validator :
        /\ executed[v] \subseteq signed[v]
        /\ Taken(v) \subseteq pending[v] \cup processed[v] \cup Checkpointed

\* Certificates with shared inputs are executed only in consensus order.
SharedOf(v) ==
    /\ requested[v] \cap Shared = {}
    /\ executed[v] \cap Shared \subseteq scheduled[v] \cup Checkpointed

SharedInv == \A v \in Validator : SharedOf(v)

IInv == TypeOK /\ TableInv /\ CloseInv /\ AdapterInv /\ OrderInv /\ ExecutionInv /\ SharedInv

-----------------------------------------------------------------------------
(* Facts about the log *)

\* Membership in Seen and Counted, and their order: what was output stays output,
\* and a closed epoch stays closed.
LEMMA SeenMonotone ==
    ASSUME NEW i \in Nat, NEW j \in Nat, i <= j
    PROVE  /\ Seen(i) \subseteq Seen(j)
           /\ ClosedAt(i) => ClosedAt(j)
           /\ Counted(i) \subseteq Counted(j)
           /\ Counted(j) \subseteq Seen(j)
<1>1. Seen(i) \subseteq Seen(j)
  BY DEF Seen
<1>2. ClosedAt(i) => ClosedAt(j)
  BY Zenon, <1>1 DEF ClosedAt
<1>3. Counted(i) \subseteq Counted(j)
  BY DEF Counted
<1>4. Counted(j) \subseteq Seen(j)
  BY Zenon DEF Counted, Seen
<1> QED
  BY Zenon, <1>1, <1>2, <1>3, <1>4

\* One more commit adds its keys.
LEMMA SeenNext ==
    ASSUME NEW i \in Nat
    PROVE  Seen(i + 1) = Seen(i) \cup Keys(log[i + 1])
<1>1. \A j : j \in 1..(i + 1) <=> j \in 1..i \/ j = i + 1
  OBVIOUS
<1> QED
  BY Zenon, <1>1 DEF Seen

\* Keys of commits are certificates and validators.
LEMMA SeenType ==
    ASSUME log \in Seq(SUBSET Entry), NEW i \in Nat, i <= Len(log)
    PROVE  Seen(i) \subseteq Cert \cup Validator
<1> SUFFICES ASSUME NEW j \in 1..i, NEW e \in log[j]
             PROVE  e[2] \in Cert \cup Validator
  BY DEF Seen, Keys
<1>1. j \in DOMAIN log
  OBVIOUS
<1>2. e \in Entry
  BY <1>1
<1> QED
  BY Zenon, <1>2 DEF Entry

\* Until the epoch closes every key is counted, the keys of the closing commit
\* included.
LEMMA CountedOpen ==
    ASSUME log \in Seq(SUBSET Entry), NEW i \in Nat, i + 1 <= Len(log), ~ClosedAt(i)
    PROVE  /\ Counted(i) = Seen(i)
           /\ Counted(i + 1) = Seen(i + 1)
<1>1. \A j \in 1..(i + 1) : j - 1 \in Nat /\ j - 1 <= i
  OBVIOUS
<1>2. \A j \in 1..(i + 1) : ~ClosedAt(j - 1)
  BY Zenon, <1>1, SeenMonotone
<1>3. Seen(i + 1) \subseteq Cert \cup Validator /\ Seen(i) \subseteq Cert \cup Validator
  BY SeenType
<1> QED
  BY <1>2, <1>3 DEF Counted, Seen

\* After the epoch has closed nothing is counted.
LEMMA CountedClosed ==
    ASSUME NEW i \in Nat, NEW j \in Nat, ClosedAt(i)
    PROVE  Counted(j) \subseteq Counted(i)
<1> SUFFICES ASSUME NEW k \in Cert \cup Validator, NEW n \in 1..j,
                    k \in Keys(log[n]), ~ClosedAt(n - 1)
             PROVE  n \in 1..i
  BY Zenon DEF Counted
<1>1. CASE n <= i
  BY <1>1
<1>2. CASE i <= n - 1
  BY <1>2, SeenMonotone
<1> QED
  BY <1>1, <1>2

\* A commit appended to the log changes nothing about the earlier ones.
LEMMA LogExtends ==
    ASSUME log \in Seq(SUBSET Entry), log' \in Seq(SUBSET Entry),
           Len(log) <= Len(log'), \A i \in 1..Len(log) : log'[i] = log[i],
           NEW i \in Nat, i <= Len(log)
    PROVE  /\ Seen(i)' = Seen(i)
           /\ ClosedAt(i)' <=> ClosedAt(i)
           /\ Counted(i)' = Counted(i)
<1>1. \A j \in Nat : j <= i => Seen(j)' = Seen(j)
  BY SMTT(30) DEF Seen
<1>2. \A j \in Nat : j <= i => (ClosedAt(j)' <=> ClosedAt(j))
  BY Zenon, <1>1 DEF ClosedAt
<1>3. \A j \in 1..i : Keys(log[j])' = Keys(log[j])
  BY DEF Keys
<1>4. \A j \in 1..i : j - 1 \in Nat /\ j - 1 <= i
  OBVIOUS
<1>5. Counted(i)' = Counted(i)
  BY Zenon, <1>2, <1>3, <1>4 DEF Counted
<1> QED
  BY <1>1, <1>2, <1>5

-----------------------------------------------------------------------------
(* Typing *)

\* Every step keeps the types, and messages with those who may send them.
LEMMA TypeStep ==
    ASSUME TypeOK, Next
    PROVE  TypeOK'
<1> USE EpochAssumption
<1>1. ASSUME NEW v \in Validator, NEW c \in Cert, HandleCertificate(v, c)
      PROVE  TypeOK'
  <2>1. calls' \in [Validator -> [Cert -> Nat]]
    BY <1>1 DEF TypeOK, HandleCertificate
  <2>2. CASE c \in processed[v]
    <3>1. /\ accepting' = accepting
          /\ requested' = [requested EXCEPT ![v] = @ \cup ({c} \ Shared)]
      BY <1>1, <2>2, Zenon DEF HandleCertificate
    <3> QED
      BY <1>1, <2>1, <3>1 DEF TypeOK, HandleCertificate, dbVars
  <2>3. CASE c \notin processed[v]
    <3>1. /\ accepting' = [accepting EXCEPT ![v] = @ \cup {c}]
          /\ requested' = requested
      BY <1>1, <2>3, Zenon DEF HandleCertificate
    <3> QED
      BY <1>1, <2>1, <3>1 DEF TypeOK, HandleCertificate, dbVars
  <2> QED
    BY Zenon, <2>2, <2>3
<1>2. ASSUME NEW v \in Validator, NEW c \in Cert, SubmitCertificate(v, c)
      PROVE  TypeOK'
  <2>1. tasks' \in [Validator -> SUBSET ((Cert \cup Validator) \X Progress)]
    BY <1>2 DEF TypeOK, SubmitCertificate, submit, Progress
  <2>2. /\ pending' \in [Validator -> SUBSET (Cert \cup Validator)]
        /\ \A w \in Validator : pending'[w] \subseteq Message(w)
    BY <1>2 DEF TypeOK, SubmitCertificate, submit, Message
  <2>3. requested' \in [Validator -> SUBSET Cert]
    BY <1>2 DEF TypeOK, SubmitCertificate
  <2> QED
    BY Zenon, <1>2, <2>1, <2>2, <2>3 DEF TypeOK, SubmitCertificate, dbVars, netVars
<1>3. ASSUME NEW v \in Validator, NEW c \in Cert, Execute(v, c)
      PROVE  TypeOK'
  BY <1>3 DEF TypeOK, Execute, dbVars, netVars
<1>4. ASSUME NEW v \in Validator, NEW c \in Cert, FinishTask(v, c)
      PROVE  TypeOK'
  <2> DEFINE left == tasks[v] \ {<<c, "removed">>}
  <2>1. left \subseteq (Cert \cup Validator) \X Progress
    BY Zenon DEF TypeOK
  <2>2. \/ /\ tasks' = [tasks EXCEPT ![v] = left \cup {<<v, "start">>}]
           /\ pending' = [pending EXCEPT ![v] = @ \cup {v}]
        \/ /\ tasks' = [tasks EXCEPT ![v] = left]
           /\ pending' = pending
    BY <1>4, Zenon DEF FinishTask, EndOfPublish
  <2>3. <<v, "start">> \in (Cert \cup Validator) \X Progress
    BY Zenon DEF Progress
  <2> HIDE DEF left
  <2> DEFINE T == (Cert \cup Validator) \X Progress
  <2>4. tasks' \in [Validator -> SUBSET T]
    <3> tasks \in [Validator -> SUBSET T]
      BY Zenon DEF TypeOK
    <3> HIDE DEF T
    <3> QED
      BY <2>1, <2>2, <2>3 DEF T
  <2>5. /\ pending' \in [Validator -> SUBSET (Cert \cup Validator)]
        /\ \A w \in Validator : pending'[w] \subseteq Message(w)
    <3>1. CASE pending' = pending
      BY Zenon, <3>1 DEF TypeOK
    <3>2. CASE pending' = [pending EXCEPT ![v] = @ \cup {v}]
      BY <3>2 DEF TypeOK, Message, EndOfPublish
    <3> QED
      BY Zenon, <2>2, <3>1, <3>2
  <2> QED
    BY Zenon, <1>4, <2>4, <2>5 DEF TypeOK, FinishTask, dbVars, netVars
<1>5. ASSUME NEW v \in Validator, NEW m \in Message(v), SubmitAndWait(v, m)
      PROVE  TypeOK'
  <2>1. <<v, m>> \in Entry
    BY Zenon DEF Entry, Message, EndOfPublish
  <2>2. tasks' \in [Validator -> SUBSET ((Cert \cup Validator) \X Progress)]
    BY <1>5 DEF TypeOK, SubmitAndWait, Progress, Message, EndOfPublish
  <2>3. narwhal' \subseteq narwhal \cup {<<v, m>>}
    BY Zenon, <1>5 DEF SubmitAndWait
  <2>4. narwhal' \subseteq Entry
    <3>1. narwhal \subseteq Entry
      BY Zenon DEF TypeOK
    <3> QED
      BY <2>1, <2>3, <3>1, Zenon
  <2> QED
    BY Zenon, <1>5, <2>2, <2>4 DEF TypeOK, SubmitAndWait, dbVars
<1>6. ASSUME NEW v \in Validator, NEW m \in Message(v), RemovePending(v, m)
      PROVE  TypeOK'
  BY <1>6 DEF TypeOK, RemovePending, dbVars, netVars, Message, Progress
<1>7. ASSUME NEW v \in Validator, CloseEpoch(v)
      PROVE  TypeOK'
  BY Zenon, <1>7 DEF TypeOK, CloseEpoch, dbVars, netVars, Status
<1>8. ASSUME NEW v \in Validator, SendEndOfPublish(v)
      PROVE  TypeOK'
  BY <1>8 DEF TypeOK, SendEndOfPublish, submit, dbVars, netVars, Message, Progress, EndOfPublish
<1>9. ASSUME NEW v \in Validator, HandleConsensusOutput(v)
      PROVE  TypeOK'
  <2> DEFINE commit == log[index[v] + 1]
  <2>1. index[v] + 1 \in DOMAIN log
    BY <1>9 DEF TypeOK, HandleConsensusOutput
  <2>2. commit \subseteq Entry
    BY <2>1 DEF TypeOK
  <2>3. Keys(commit) \subseteq Cert \cup Validator
    BY <2>2 DEF Keys, Entry
  <2>4. Accepted(v, commit) \subseteq Cert
    BY DEF Accepted
  <2>5. Votes(v, commit) \subseteq Validator
    BY Zenon DEF Votes, TypeOK
  <2>6. tasks' \in [Validator -> SUBSET ((Cert \cup Validator) \X Progress)]
    BY <1>9 DEF HandleConsensusOutput, TypeOK, Progress
  <2>7. status' \in [Validator -> Status]
    BY <1>9 DEF HandleConsensusOutput, TypeOK, Status
  <2> QED
    BY <1>9, <2>1, <2>3, <2>4, <2>5, <2>6, <2>7 DEF HandleConsensusOutput, TypeOK, netVars
<1>10. ASSUME NEW v \in Validator, Crash(v)
       PROVE  TypeOK'
  <2>1. recovered(v) \subseteq Cert \cup Validator
    BY DEF recovered, TypeOK, EndOfPublish
  <2>2. tasks' \in [Validator -> SUBSET ((Cert \cup Validator) \X Progress)]
    BY Zenon, <1>10, <2>1 DEF Crash, TypeOK, Progress
  <2> QED
    BY <1>10, <2>2 DEF TypeOK, Crash, dbVars
<1>11. ASSUME NEW v \in Validator, NEW S \in SUBSET Cert, Reconfigure(v, S)
       PROVE  TypeOK'
  BY <1>11 DEF TypeOK, Reconfigure, dbVars, netVars, Status
<1>12. ASSUME NEW S \in SUBSET narwhal, Sequence(S)
       PROVE  TypeOK'
  <2>1. log' \in Seq(SUBSET Entry) /\ Len(log') = Len(log) + 1
    BY <1>12 DEF TypeOK, Sequence
  <2> QED
    BY <1>12, <2>1 DEF TypeOK, Sequence, dbVars
<1>13. ASSUME NEW i \in DOMAIN log, NEW e \in log[i], Resend(e)
       PROVE  TypeOK'
  <2>1. e \in Entry
    BY DEF TypeOK
  <2> QED
    BY <1>13, <2>1 DEF TypeOK, Resend, dbVars
<1> QED
  BY Zenon, <1>1, <1>2, <1>3, <1>4, <1>5, <1>6, <1>7, <1>8, <1>9, <1>10, <1>11, <1>12, <1>13
  DEF Next, Step

-----------------------------------------------------------------------------
(* The tables of the consensus handler *)

\* The author of a certificate that is output for the first time has not sent
\* EndOfPublish.
LEMMA FreshAuthor ==
    ASSUME TypeOK, TableInv, OrderInv
    PROVE  NoCertAfterEndOfPublish
<1> SUFFICES ASSUME NEW w \in Validator, index[w] < Len(log),
                    NEW e \in Fresh(w, log[index[w] + 1]),
                    e[2] \in Cert, e[1] \in endOfPublish[w]
             PROVE  FALSE
  BY Zenon DEF NoCertAfterEndOfPublish
<1> DEFINE v == e[1]
           c == e[2]
           n == index[w] + 1
<1>1. n \in DOMAIN log /\ index[w] \in Nat
  BY DEF TypeOK
<1>2. e \in log[n] /\ log[n] \subseteq Entry
  BY <1>1 DEF Fresh, TypeOK
<1>3. e = <<v, c>> /\ v \in Validator /\ c \in Cert
  BY <1>2 DEF Entry
<1>4. PICK j \in 1..index[w] : v \in Keys(log[j])
  <2>1. v \in Counted(index[w])
    BY Zenon DEF TableInv
  <2> QED
    BY Zenon, <2>1 DEF Counted
<1>5. j \in DOMAIN log /\ log[j] \subseteq Entry
  BY DEF TypeOK
<1>6. <<v, EndOfPublish(v)>> \in log[j]
  <2>1. PICK f \in log[j] : f[2] = v
    BY Zenon, <1>4 DEF Keys
  <2>2. f \in Entry
    BY Zenon, <1>5
  <2>3. f = <<f[1], f[2]>> /\ f[1] = v
    BY <2>1, <2>2, <1>3, EpochAssumption DEF Entry, Message, EndOfPublish
  <2> QED
    BY Zenon, <2>1, <2>3 DEF EndOfPublish
<1>7. c \in Seen(j - 1)
  BY Zenon, <1>1, <1>2, <1>3, <1>5, <1>6 DEF OrderInv, Published
<1>8. c \in Seen(index[w])
  BY <1>1, <1>7, SeenMonotone
<1> QED
  BY Zenon, <1>8 DEF TableInv, Fresh

\* Steps that neither commit, nor handle a commit, nor close the epoch.
LEMMA TableFrame ==
    ASSUME TypeOK, TableInv, log' = log, UNCHANGED dbVars,
           \A v \in Validator : status'[v] = "RejectAllCerts" <=> status[v] = "RejectAllCerts"
    PROVE  TableInv'
<1> SUFFICES ASSUME NEW v \in Validator
             PROVE  /\ processed'[v] = Seen(index[v])'
                    /\ endOfPublish'[v] = Counted(index[v])' \cap Validator
                    /\ scheduled'[v] = Counted(index[v])' \cap Cert
                    /\ (status'[v] = "RejectAllCerts") <=> ClosedAt(index[v])'
  BY Zenon DEF TableInv
<1>1. index[v] \in Nat /\ index[v] <= Len(log) /\ index'[v] = index[v] /\ log \in Seq(SUBSET Entry)
  BY Zenon DEF TypeOK, dbVars
<1>2. /\ Seen(index[v])' = Seen(index[v])
      /\ ClosedAt(index[v])' <=> ClosedAt(index[v])
      /\ Counted(index[v])' = Counted(index[v])
  BY <1>1 DEF Seen, ClosedAt, Counted, Keys
<1> QED
  BY Zenon, <1>1, <1>2 DEF TableInv, dbVars

\* handle_consensus_output brings the tables from one position of the log to the
\* next.
LEMMA TableOutput ==
    ASSUME TypeOK, TableInv, OrderInv, NEW v \in Validator, HandleConsensusOutput(v)
    PROVE  TableInv'
<1> USE EpochAssumption
<1> DEFINE i == index[v]
           commit == log[i + 1]
<1>1. /\ i \in Nat /\ i + 1 <= Len(log) /\ log \in Seq(SUBSET Entry)
      /\ index' = [index EXCEPT ![v] = i + 1]
      /\ log' = log
  BY DEF HandleConsensusOutput, TypeOK, netVars
<1>2. /\ status' = [status EXCEPT ![v] = IF Closes(v, commit) THEN "RejectAllCerts" ELSE @]
      /\ processed' = [processed EXCEPT ![v] = @ \cup Keys(commit)]
      /\ endOfPublish' = [endOfPublish EXCEPT ![v] = Votes(v, commit)]
      /\ scheduled' = [scheduled EXCEPT ![v] = @ \cup Accepted(v, commit)]
  BY Zenon DEF HandleConsensusOutput
<1>3. NoCertAfterEndOfPublish
  BY Zenon, FreshAuthor
<1>4. Seen(i + 1) = Seen(i) \cup Keys(commit)
  BY Zenon, <1>1, SeenNext
<1>5. /\ processed[v] = Seen(i)
      /\ endOfPublish[v] = Counted(i) \cap Validator
      /\ scheduled[v] = Counted(i) \cap Cert
      /\ should_accept_consensus_certs(v) <=> ~ClosedAt(i)
  BY Zenon DEF TableInv, should_accept_consensus_certs
<1> HIDE DEF i, commit
<1>6. /\ Counted(i + 1) \cap Validator = Votes(v, commit)
      /\ Counted(i + 1) \cap Cert = scheduled[v] \cup Accepted(v, commit)
      /\ ClosedAt(i + 1) <=> ClosedAt(i) \/ Closes(v, commit)
  <2>1. CASE ClosedAt(i)
    <3>1. Counted(i + 1) = Counted(i) /\ ClosedAt(i + 1)
      <4>1. i + 1 \in Nat /\ i <= i + 1
        BY <1>1
      <4>2. Counted(i + 1) \subseteq Counted(i)
        BY Zenon, <1>1, <2>1, <4>1, CountedClosed
      <4> QED
        BY Zenon, <1>1, <2>1, <4>1, <4>2, SeenMonotone
    <3>2. Votes(v, commit) = endOfPublish[v] /\ Accepted(v, commit) = {}
      BY <1>5, <2>1 DEF Votes, Accepted
    <3> QED
      BY <1>5, <2>1, <3>1, <3>2, Zenon
  <2>2. CASE ~ClosedAt(i)
    <3>1. Counted(i) = Seen(i) /\ Counted(i + 1) = Seen(i + 1)
      BY Zenon, <1>1, <2>2, CountedOpen
    <3>2. Votes(v, commit) = Seen(i + 1) \cap Validator
      BY <1>4, <1>5, <2>2, <3>1 DEF Votes, Keys, Fresh
    <3>3. \A e \in Fresh(v, commit) : e[2] \in Cert => e[1] \notin endOfPublish[v]
      <4>1. index[v] < Len(log)
        BY <1>1 DEF i
      <4> QED
        BY <1>3, <4>1, Zenon DEF NoCertAfterEndOfPublish, i, commit
    <3>4. Accepted(v, commit) = {k \in Keys(commit) \cap Cert : k \notin processed[v]}
      BY <1>5, <2>2, <3>3 DEF Accepted, Keys, Fresh
    <3>5. ClosedAt(i + 1) <=> Closes(v, commit)
      <4>1. \A Q \in Quorum : Q \subseteq Seen(i + 1) <=> Q \subseteq Votes(v, commit)
        BY Zenon, <3>2
      <4> QED
        BY <1>5, <2>2, <4>1, Zenon DEF ClosedAt, Closes
    <3>6. Counted(i + 1) \cap Cert = scheduled[v] \cup Accepted(v, commit)
      BY <1>4, <1>5, <3>1, <3>4
    <3> QED
      BY <2>2, <3>1, <3>2, <3>5, <3>6, Zenon
  <2> QED
    BY Zenon, <2>1, <2>2
<1> SUFFICES ASSUME NEW w \in Validator
             PROVE  /\ processed'[w] = Seen(index[w])'
                    /\ endOfPublish'[w] = Counted(index[w])' \cap Validator
                    /\ scheduled'[w] = Counted(index[w])' \cap Cert
                    /\ (status'[w] = "RejectAllCerts") <=> ClosedAt(index[w])'
  BY Zenon DEF TableInv
<1>7. /\ Seen(index[w])' = Seen(index'[w])
      /\ ClosedAt(index[w])' <=> ClosedAt(index'[w])
      /\ Counted(index[w])' = Counted(index'[w])
  <2>1. Seen(index[w])' = Seen(index'[w])
    BY <1>1 DEF Seen, Keys
  <2>2. ClosedAt(index[w])' <=> ClosedAt(index'[w])
    BY <2>1 DEF ClosedAt
  <2>3. Counted(index[w])' = Counted(index'[w])
    BY <1>1 DEF Counted, ClosedAt, Seen, Keys
  <2> QED
    BY Zenon, <2>1, <2>2, <2>3
<1>8. CASE w = v
  <2>1. /\ index'[w] = i + 1
        /\ processed'[w] = processed[v] \cup Keys(commit)
        /\ endOfPublish'[w] = Votes(v, commit)
        /\ scheduled'[w] = scheduled[v] \cup Accepted(v, commit)
        /\ status'[w] = IF Closes(v, commit) THEN "RejectAllCerts" ELSE status[v]
    BY <1>1, <1>2, <1>8 DEF TypeOK
  <2>2. status[v] = "RejectAllCerts" <=> ClosedAt(i)
    BY Zenon DEF TableInv, i
  <2>3. (status'[w] = "RejectAllCerts") <=> ClosedAt(i + 1)
    BY Zenon, <1>6, <2>1, <2>2
  <2> QED
    BY Zenon, <1>4, <1>5, <1>6, <1>7, <2>1, <2>3
<1>9. CASE w # v
  <2>1. /\ index'[w] = index[w]
        /\ processed'[w] = processed[w]
        /\ endOfPublish'[w] = endOfPublish[w]
        /\ scheduled'[w] = scheduled[w]
        /\ status'[w] = status[w]
    BY <1>1, <1>2, <1>9 DEF TypeOK
  <2> QED
    BY ZenonT(60), <1>7, <2>1 DEF TableInv
<1> QED
  BY Zenon, <1>8, <1>9

\* A commit that is appended leaves the tables as they are.
LEMMA TableSequence ==
    ASSUME TypeOK, TypeOK', TableInv, NEW S \in SUBSET narwhal, Sequence(S)
    PROVE  TableInv'
<1>1. /\ log \in Seq(SUBSET Entry) /\ log' \in Seq(SUBSET Entry)
      /\ Len(log) <= Len(log') /\ \A i \in 1..Len(log) : log'[i] = log[i]
  BY DEF Sequence, TypeOK
<1>2. UNCHANGED <<dbVars, status>>
  BY Zenon DEF Sequence
<1> SUFFICES ASSUME NEW v \in Validator
             PROVE  /\ processed'[v] = Seen(index[v])'
                    /\ endOfPublish'[v] = Counted(index[v])' \cap Validator
                    /\ scheduled'[v] = Counted(index[v])' \cap Cert
                    /\ (status'[v] = "RejectAllCerts") <=> ClosedAt(index[v])'
  BY Zenon DEF TableInv
<1>3. PICK i \in Nat : i = index[v] /\ i <= Len(log) /\ index'[v] = i
  BY Zenon, <1>2 DEF TypeOK, dbVars
<1>4. /\ Seen(i)' = Seen(i)
      /\ ClosedAt(i)' <=> ClosedAt(i)
      /\ Counted(i)' = Counted(i)
  BY Zenon, <1>1, <1>3, LogExtends
<1> QED
  BY Zenon, <1>2, <1>3, <1>4 DEF TableInv, dbVars

-----------------------------------------------------------------------------
(* Who a step concerns *)

\* A step of one validator leaves the state of the others alone, and publishes
\* nothing in their name.
LEMMA Others ==
    ASSUME TypeOK, NEW v \in Validator, Step(v), NEW w \in Validator, w # v
    PROVE  /\ status'[w] = status[w] /\ pending'[w] = pending[w]
           /\ processed'[w] = processed[w] /\ scheduled'[w] = scheduled[w]
           /\ executed'[w] = executed[w] /\ ended'[w] = ended[w]
           /\ accepting'[w] = accepting[w] /\ requested'[w] = requested[w]
           /\ tasks'[w] = tasks[w] /\ closing'[w] = closing[w] /\ signed'[w] = signed[w]
           /\ log' = log
           /\ \A m : <<w, m>> \in narwhal' => <<w, m>> \in narwhal
<1> DEFINE Same == /\ status'[w] = status[w] /\ pending'[w] = pending[w]
                   /\ processed'[w] = processed[w] /\ scheduled'[w] = scheduled[w]
                   /\ executed'[w] = executed[w] /\ ended'[w] = ended[w]
                   /\ accepting'[w] = accepting[w] /\ requested'[w] = requested[w]
                   /\ tasks'[w] = tasks[w] /\ closing'[w] = closing[w]
                   /\ signed'[w] = signed[w]
                   /\ log' = log
                   /\ \A m : <<w, m>> \in narwhal' => <<w, m>> \in narwhal
<1> SUFFICES Same
  BY Zenon
<1>1. ASSUME NEW c \in Cert, HandleCertificate(v, c) \/ SubmitCertificate(v, c)
                               \/ Execute(v, c) \/ FinishTask(v, c)
      PROVE  Same
  <2>1. CASE HandleCertificate(v, c)
    BY Zenon, <2>1 DEF HandleCertificate, TypeOK, dbVars
  <2>2. CASE SubmitCertificate(v, c)
    BY Zenon, <2>2 DEF SubmitCertificate, submit, TypeOK, dbVars, netVars
  <2>3. CASE Execute(v, c)
    BY Zenon, <2>3 DEF Execute, TypeOK, dbVars, netVars
  <2>4. CASE FinishTask(v, c)
    BY <2>4 DEF FinishTask, TypeOK, dbVars, netVars
  <2> QED
    BY Zenon, <1>1, <2>1, <2>2, <2>3, <2>4
<1>2. ASSUME NEW m \in Message(v), SubmitAndWait(v, m) \/ RemovePending(v, m)
      PROVE  Same
  <2>1. CASE SubmitAndWait(v, m)
    BY Zenon, <2>1 DEF SubmitAndWait, TypeOK, dbVars
  <2>2. CASE RemovePending(v, m)
    BY Zenon, <2>2 DEF RemovePending, TypeOK, dbVars, netVars
  <2> QED
    BY Zenon, <1>2, <2>1, <2>2
<1>3. CASE CloseEpoch(v)
  BY Zenon, <1>3 DEF CloseEpoch, TypeOK, dbVars, netVars
<1>4. CASE SendEndOfPublish(v)
  BY Zenon, <1>4 DEF SendEndOfPublish, submit, TypeOK, dbVars, netVars
<1>5. CASE HandleConsensusOutput(v)
  BY Zenon, <1>5 DEF HandleConsensusOutput, TypeOK, netVars
<1>6. CASE Crash(v)
  BY Zenon, <1>6 DEF Crash, TypeOK, dbVars
<1>7. ASSUME NEW S \in SUBSET Cert, Reconfigure(v, S)
      PROVE  Same
  BY Zenon, <1>7 DEF Reconfigure, TypeOK, dbVars, netVars
<1> HIDE DEF Same
<1> QED
  BY Zenon, <1>1, <1>2, <1>3, <1>4, <1>5, <1>6, <1>7 DEF Step

\* Only the consensus handler writes its tables, and only it closes the epoch.
LEMMA OnlyOutput ==
    ASSUME TypeOK, NEW v \in Validator, Step(v)
    PROVE  \/ HandleConsensusOutput(v)
           \/ /\ UNCHANGED <<dbVars, log>>
              /\ \A w \in Validator :
                   status'[w] = "RejectAllCerts" <=> status[w] = "RejectAllCerts"
<1> DEFINE Frame == /\ UNCHANGED <<dbVars, log>>
                    /\ \A w \in Validator :
                         status'[w] = "RejectAllCerts" <=> status[w] = "RejectAllCerts"
<1> SUFFICES HandleConsensusOutput(v) \/ Frame
  BY Zenon
<1>1. ASSUME NEW c \in Cert, HandleCertificate(v, c) \/ SubmitCertificate(v, c)
                               \/ Execute(v, c) \/ FinishTask(v, c)
      PROVE  Frame
  BY Zenon, <1>1 DEF HandleCertificate, SubmitCertificate, Execute, FinishTask, netVars
<1>2. ASSUME NEW m \in Message(v), SubmitAndWait(v, m) \/ RemovePending(v, m)
      PROVE  Frame
  BY Zenon, <1>2 DEF SubmitAndWait, RemovePending, netVars
<1>3. ASSUME CloseEpoch(v)
      PROVE  Frame
  BY Zenon, <1>3 DEF CloseEpoch, should_accept_user_certs, TypeOK, netVars
<1>4. ASSUME SendEndOfPublish(v) \/ Crash(v)
      PROVE  Frame
  BY Zenon, <1>4 DEF SendEndOfPublish, Crash, netVars
<1>5. ASSUME NEW S \in SUBSET Cert, Reconfigure(v, S)
      PROVE  Frame
  BY Zenon, <1>5 DEF Reconfigure, should_accept_user_certs, TypeOK, netVars
<1> HIDE DEF Frame
<1> QED
  BY Zenon, <1>1, <1>2, <1>3, <1>4, <1>5 DEF Step

\* A step of Narwhal changes nothing but the network.
LEMMA NarwhalStep ==
    ASSUME \/ \E S \in SUBSET narwhal : Sequence(S)
           \/ \E i \in DOMAIN log : \E e \in log[i] : Resend(e)
    PROVE  UNCHANGED <<status, pending, dbVars, executed, ended, accepting, requested,
                       tasks, closing, signed>>
<1>1. ASSUME NEW S \in SUBSET narwhal, Sequence(S)
      PROVE  UNCHANGED <<status, pending, dbVars, executed, ended, accepting, requested,
                         tasks, closing, signed>>
  BY Zenon, <1>1 DEF Sequence
<1>2. ASSUME NEW i \in DOMAIN log, NEW e \in log[i], Resend(e)
      PROVE  UNCHANGED <<status, pending, dbVars, executed, ended, accepting, requested,
                         tasks, closing, signed>>
  BY Zenon, <1>2 DEF Resend
<1> QED
  BY <1>1, <1>2, Zenon

\* Every step keeps the tables what the log says.
LEMMA TableStep ==
    ASSUME TypeOK, TypeOK', TableInv, OrderInv, Next
    PROVE  TableInv'
<1>1. ASSUME NEW v \in Validator, Step(v)
      PROVE  TableInv'
  <2>1. CASE HandleConsensusOutput(v)
    BY Zenon, <2>1, TableOutput
  <2>2. CASE /\ UNCHANGED <<dbVars, log>>
             /\ \A w \in Validator :
                  status'[w] = "RejectAllCerts" <=> status[w] = "RejectAllCerts"
    BY Zenon, <2>2, TableFrame
  <2> QED
    BY Zenon, <1>1, <2>1, <2>2, OnlyOutput
<1>2. ASSUME NEW S \in SUBSET narwhal, Sequence(S)
      PROVE  TableInv'
  BY Zenon, <1>2, TableSequence
<1>3. ASSUME NEW i \in DOMAIN log, NEW e \in log[i], Resend(e)
      PROVE  TableInv'
  BY <1>3, TableFrame, Zenon DEF Resend
<1> QED
  BY Zenon, <1>1, <1>2, <1>3 DEF Next

\* The votes that close an epoch stay counted.
LEMMA CloseStep ==
    ASSUME TypeOK, CloseInv, Next
    PROVE  CloseInv'
<1>1. ASSUME UNCHANGED dbVars, \A w \in Validator :
               status'[w] = "RejectAllCerts" <=> status[w] = "RejectAllCerts"
      PROVE  CloseInv'
  BY Zenon, <1>1 DEF CloseInv, dbVars
<1>2. ASSUME NEW v \in Validator, HandleConsensusOutput(v)
      PROVE  CloseInv'
  <2> DEFINE commit == log[index[v] + 1]
  <2>1. /\ status' = [status EXCEPT ![v] = IF Closes(v, commit) THEN "RejectAllCerts" ELSE @]
        /\ endOfPublish' = [endOfPublish EXCEPT ![v] = Votes(v, commit)]
    BY <1>2, Zenon DEF HandleConsensusOutput
  <2>2. Closes(v, commit) => \E Q \in Quorum : Q \subseteq Votes(v, commit)
    BY Zenon DEF Closes
  <2>3. endOfPublish[v] \subseteq Votes(v, commit)
    BY Zenon DEF Votes
  <2> HIDE DEF commit
  <2> QED
    BY Zenon, <2>1, <2>2, <2>3 DEF CloseInv, TypeOK
<1>3. CASE \E v \in Validator : Step(v)
  BY Zenon, <1>1, <1>2, <1>3, OnlyOutput
<1>4. CASE ~ \E v \in Validator : Step(v)
  BY Zenon, <1>1, <1>4, NarwhalStep DEF Next
<1> QED
  BY Zenon, <1>3, <1>4


-----------------------------------------------------------------------------
(* The consensus adapter *)

\* A validator that starts nothing new keeps its part of the invariant.
LEMMA AdapterFrame ==
    ASSUME TypeOK, NEW w \in Validator, AdapterOf(w),
           accepting'[w] \subseteq accepting[w],
           \/ status'[w] = status[w]
           \/ status'[w] # "AcceptAllCerts" /\ accepting'[w] = {},
           pending'[w] = pending[w], processed[w] \subseteq processed'[w],
           tasks'[w] \subseteq tasks[w], closing'[w] => closing[w],
           \A m : Published(w, m)' => Published(w, m)
    PROVE  AdapterOf(w)'
<1>1. Finishing(w)' => Finishing(w)
  BY Zenon DEF Finishing, EndOfPublish
<1>2. \A t \in tasks'[w] :
         /\ t[1] \in Message(w)
         /\ t[1] \in Cert => t[1] \in pending'[w] \cup processed'[w]
         /\ t[2] \in {"woken", "removed"} => t[1] \in processed'[w]
  BY Zenon DEF AdapterOf
<1>3. \A c \in Cert : Published(w, c)' => c \in pending'[w] \cup processed'[w]
  BY Zenon DEF AdapterOf
<1>4. Finishing(w)' => status'[w] # "AcceptAllCerts" /\ pending'[w] \cap Cert = {}
  BY Zenon, <1>1 DEF AdapterOf
<1>5. accepting'[w] # {} => status'[w] = "AcceptAllCerts"
  BY Zenon DEF AdapterOf
<1> QED
  BY <1>2, <1>3, <1>4, <1>5, Zenon DEF AdapterOf, Message, EndOfPublish

\* What is published is known from the network and the log.
LEMMA PublishedFrame ==
    ASSUME log' = log, NEW w, NEW m, <<w, m>> \in narwhal' => <<w, m>> \in narwhal
    PROVE  Published(w, m)' => Published(w, m)
BY Zenon DEF Published

\* Committing or repeating a message publishes nothing new.
LEMMA PublishedNarwhal ==
    ASSUME TypeOK, NEW w, NEW m,
           \/ \E S \in SUBSET narwhal : Sequence(S)
           \/ \E i \in DOMAIN log : \E e \in log[i] : Resend(e)
    PROVE  Published(w, m)' => Published(w, m)
<1>1. ASSUME NEW S \in SUBSET narwhal, Sequence(S)
      PROVE  Published(w, m)' => Published(w, m)
  <2>1. /\ log' = Append(log, S) /\ narwhal' = narwhal \ S
        /\ log \in Seq(SUBSET Entry)
    BY Zenon, <1>1 DEF Sequence, TypeOK
  <2>2. S \in SUBSET Entry
    BY Zenon DEF TypeOK
  <2>3. \A i \in DOMAIN log' : (i \in DOMAIN log /\ log'[i] = log[i]) \/ log'[i] = S
    BY <2>1, <2>2
  <2> QED
    BY Zenon, <2>1, <2>3 DEF Published
<1>2. ASSUME NEW i \in DOMAIN log, NEW e \in log[i], Resend(e)
      PROVE  Published(w, m)' => Published(w, m)
  BY Zenon, <1>2 DEF Published, Resend
<1> QED
  BY Zenon, <1>1, <1>2

\* The steps of handle_certificate.
LEMMA AdapterCertificate ==
    ASSUME TypeOK, NEW v \in Validator, AdapterOf(v), NEW c \in Cert,
           HandleCertificate(v, c) \/ SubmitCertificate(v, c) \/ Execute(v, c)
    PROVE  AdapterOf(v)'
<1>0. v \notin Cert
  BY Zenon, EpochAssumption
<1>1. CASE HandleCertificate(v, c)
  <2>1. /\ accepting'[v] # {} => status'[v] = "AcceptAllCerts"
        /\ status' = status /\ pending' = pending /\ processed' = processed
        /\ tasks' = tasks /\ closing' = closing /\ narwhal' = narwhal /\ log' = log
    BY Zenon, <1>1 DEF HandleCertificate, should_accept_user_certs, dbVars
  <2>2. Finishing(v)' <=> Finishing(v)
    BY Zenon, <2>1 DEF Finishing, Published, EndOfPublish
  <2>3. \A m : Published(v, m)' <=> Published(v, m)
    BY Zenon, <2>1 DEF Published
  <2> QED
    BY Zenon, <2>1, <2>2, <2>3 DEF AdapterOf, Message, EndOfPublish
<1>2. CASE SubmitCertificate(v, c)
  <2>1. /\ c \in accepting[v] /\ status[v] = "AcceptAllCerts" /\ status' = status
        /\ pending'[v] = pending[v] \cup {c} /\ processed' = processed
        /\ tasks'[v] = tasks[v] \cup {<<c, "start">>}
        /\ closing' = closing /\ narwhal' = narwhal /\ log' = log
    BY Zenon, <1>2 DEF SubmitCertificate, submit, AdapterOf, TypeOK, dbVars, netVars
  <2>2. \A m : Published(v, m)' <=> Published(v, m)
    BY Zenon, <2>1 DEF Published
  <2>3. ~Finishing(v)
    BY Zenon, <2>1 DEF AdapterOf
  <2>4. ~Finishing(v)'
    BY Zenon, <1>0, <2>1, <2>2, <2>3 DEF Finishing, EndOfPublish
  <2>5. \A t \in tasks'[v] :
           /\ t[1] \in Message(v)
           /\ t[1] \in Cert => t[1] \in pending'[v] \cup processed'[v]
           /\ t[2] \in {"woken", "removed"} => t[1] \in processed'[v]
    BY <2>1 DEF AdapterOf, Message
  <2>6. \A d \in Cert : Published(v, d)' => d \in pending'[v] \cup processed'[v]
    BY Zenon, <2>1, <2>2 DEF AdapterOf
  <2> QED
    BY <2>1, <2>4, <2>5, <2>6, Zenon DEF AdapterOf, Message, EndOfPublish
<1>3. CASE Execute(v, c)
  <2>1. UNCHANGED <<accepting, status, pending, processed, tasks, closing, narwhal, log>>
    BY Zenon, <1>3 DEF Execute, dbVars, netVars
  <2>2. \A m : Published(v, m)' => Published(v, m)
    BY Zenon, <2>1 DEF Published
  <2> QED
    BY Zenon, <2>1, <2>2, AdapterFrame
<1> QED
  BY Zenon, <1>1, <1>2, <1>3

\* The steps of a task of the adapter: what it submits is pending or was output,
\* and it sends EndOfPublish when no certificate is pending.
LEMMA AdapterTask ==
    ASSUME TypeOK, NEW v \in Validator, AdapterOf(v),
           \/ \E c \in Cert : FinishTask(v, c)
           \/ \E m \in Message(v) : SubmitAndWait(v, m) \/ RemovePending(v, m)
    PROVE  AdapterOf(v)'
<1>0. v \notin Cert
  BY Zenon, EpochAssumption
<1>1. ASSUME NEW c \in Cert, FinishTask(v, c)
      PROVE  AdapterOf(v)'
  <2>1. UNCHANGED <<accepting, status, processed, closing, narwhal, log>>
    BY Zenon, <1>1 DEF FinishTask, dbVars, netVars
  <2>2. \A m : Published(v, m)' <=> Published(v, m)
    BY Zenon, <2>1 DEF Published
  <2>3. CASE send_end_of_publish(v)
    <3>1. /\ tasks'[v] = (tasks[v] \ {<<c, "removed">>}) \cup {<<v, "start">>}
          /\ pending'[v] = pending[v] \cup {v}
      BY Zenon, <1>1, <2>3 DEF FinishTask, TypeOK, EndOfPublish
    <3>2. status[v] # "AcceptAllCerts" /\ pending[v] \cap Cert = {}
      BY Zenon, <2>3 DEF send_end_of_publish, is_reject_user_certs, pending_consensus_certificates
    <3>3. \A t \in tasks'[v] :
             /\ t[1] \in Message(v)
             /\ t[1] \in Cert => t[1] \in pending'[v] \cup processed'[v]
             /\ t[2] \in {"woken", "removed"} => t[1] \in processed'[v]
      <4>1. ASSUME NEW t \in tasks'[v], t \in tasks[v]
            PROVE  /\ t[1] \in Message(v)
                   /\ t[1] \in Cert => t[1] \in pending'[v] \cup processed'[v]
                   /\ t[2] \in {"woken", "removed"} => t[1] \in processed'[v]
        BY Zenon, <2>1, <3>1, <4>1 DEF AdapterOf
      <4>2. ASSUME NEW t, t = <<v, "start">>
            PROVE  t[1] = v /\ t[2] = "start" /\ v \in Message(v)
        BY Zenon, <4>2 DEF Message, EndOfPublish
      <4>3. "start" \notin {"woken", "removed"}
        BY Zenon
      <4>4. QED
        BY Zenon, <1>0, <3>1, <4>1, <4>2, <4>3
    <3>4. \A d \in Cert : Published(v, d)' => d \in pending'[v] \cup processed'[v]
      BY Zenon, <2>1, <2>2, <3>1 DEF AdapterOf
    <3>5. accepting'[v] # {} => status'[v] = "AcceptAllCerts"
      BY ZenonT(60), <2>1 DEF AdapterOf
    <3>6. pending'[v] \cap Cert = {}
      BY Zenon, <1>0, <3>1, <3>2
    <3>7. status'[v] # "AcceptAllCerts"
      BY Zenon, <2>1, <3>2
    <3> QED
      BY <3>3, <3>4, <3>5, <3>6, <3>7, Zenon DEF AdapterOf, Message, EndOfPublish
  <2>4. CASE ~send_end_of_publish(v)
    <3>1. pending' = pending /\ tasks'[v] \subseteq tasks[v]
      BY <1>1, <2>4 DEF FinishTask, TypeOK
    <3> QED
      BY Zenon, <2>1, <2>2, <3>1, AdapterFrame
  <2> QED
    BY Zenon, <2>3, <2>4
<1>2. ASSUME NEW m \in Message(v), SubmitAndWait(v, m)
      PROVE  AdapterOf(v)'
  <2>1. /\ UNCHANGED <<accepting, status, pending, processed, closing, log>>
        /\ <<m, "start">> \in tasks[v]
        /\ narwhal' \subseteq narwhal \cup {<<v, m>>}
        /\ tasks'[v] \subseteq tasks[v] \cup {<<m, "waiting">>, <<m, "woken">>}
        /\ <<m, "woken">> \in tasks'[v] => m \in processed[v] \/ <<m, "woken">> \in tasks[v]
    BY Zenon, <1>2 DEF SubmitAndWait, dbVars, TypeOK
  <2>2. \A n : Published(v, n)' => Published(v, n) \/ n = m
    BY Zenon, <2>1 DEF Published
  <2>3. Finishing(v)' => Finishing(v)
    BY Zenon, <2>1, <2>2 DEF Finishing, EndOfPublish, Progress
  <2>4. \A t \in tasks'[v] :
           /\ t[1] \in Message(v)
           /\ t[1] \in Cert => t[1] \in pending'[v] \cup processed'[v]
           /\ t[2] \in {"woken", "removed"} => t[1] \in processed'[v]
    <3>1. ASSUME NEW t \in tasks[v]
          PROVE  /\ t[1] \in Message(v)
                 /\ t[1] \in Cert => t[1] \in pending'[v] \cup processed'[v]
                 /\ t[2] \in {"woken", "removed"} => t[1] \in processed'[v]
      BY Zenon, <2>1 DEF AdapterOf
    <3>2. m \in Cert => m \in pending'[v] \cup processed'[v]
      <4>1. <<m, "start">>[1] = m
        BY Zenon
      <4>2. QED
        BY Zenon, <2>1, <3>1, <4>1
    <3>3. ASSUME NEW t \in tasks'[v], t = <<m, "woken">>, t \notin tasks[v]
          PROVE  t[1] = m /\ m \in processed'[v]
      <4>1. t[1] = m
        BY Zenon, <3>3
      <4>2. QED
        BY Zenon, <2>1, <3>3, <4>1
    <3>4. ASSUME NEW t, t = <<m, "waiting">>
          PROVE  t[1] = m /\ t[2] \notin {"woken", "removed"}
      BY Zenon, <3>4
    <3>5. QED
      BY Zenon, <2>1, <3>1, <3>2, <3>3, <3>4
  <2>5. \A d \in Cert : Published(v, d)' => d \in pending'[v] \cup processed'[v]
    BY ZenonT(60), <2>1, <2>2 DEF AdapterOf
  <2> QED
    BY Zenon, <2>1, <2>3, <2>4, <2>5 DEF AdapterOf, Message, EndOfPublish
<1>3. ASSUME NEW m \in Message(v), RemovePending(v, m)
      PROVE  AdapterOf(v)'
  <2>1. /\ UNCHANGED <<accepting, status, processed, closing, narwhal, log>>
        /\ <<m, "woken">> \in tasks[v]
        /\ pending'[v] = pending[v] \ {m}
        /\ tasks'[v] \subseteq tasks[v] \cup (({m} \cap Cert) \X {"removed"})
    BY <1>3 DEF RemovePending, dbVars, netVars, TypeOK
  <2>2. m \in processed[v]
    BY Zenon, <2>1 DEF AdapterOf
  <2>3. \A n : Published(v, n)' <=> Published(v, n)
    BY Zenon, <2>1 DEF Published
  <2>4. Finishing(v)' => Finishing(v)
    BY ZenonT(60), <2>1, <2>3 DEF Finishing, EndOfPublish, Progress
  <2>5. \A t \in tasks'[v] :
           /\ t[1] \in Message(v)
           /\ t[1] \in Cert => t[1] \in pending'[v] \cup processed'[v]
           /\ t[2] \in {"woken", "removed"} => t[1] \in processed'[v]
    BY Zenon, <2>1, <2>2 DEF AdapterOf
  <2>6. \A d \in Cert : Published(v, d)' => d \in pending'[v] \cup processed'[v]
    BY Zenon, <2>1, <2>2, <2>3 DEF AdapterOf
  <2> QED
    BY Zenon, <2>1, <2>4, <2>5, <2>6 DEF AdapterOf, Message, EndOfPublish
<1> QED
  BY Zenon, <1>1, <1>2, <1>3

\* close_epoch decides to send EndOfPublish when no certificate is pending and none
\* can become so.
LEMMA AdapterClose ==
    ASSUME TypeOK, NEW v \in Validator, AdapterOf(v), CloseEpoch(v) \/ SendEndOfPublish(v)
    PROVE  AdapterOf(v)'
<1>0. v \notin Cert
  BY Zenon, EpochAssumption
<1>1. CASE CloseEpoch(v)
  <2>1. /\ UNCHANGED <<pending, processed, accepting, tasks, narwhal, log>>
        /\ accepting[v] = {} /\ status[v] = "AcceptAllCerts"
        /\ status'[v] = "RejectUserCerts"
        /\ closing'[v] = (pending[v] \cap Cert = {})
    BY Zenon, <1>1 DEF CloseEpoch, should_accept_user_certs, pending_consensus_certificates,
                dbVars, netVars, TypeOK
  <2>2. \A m : Published(v, m)' <=> Published(v, m)
    BY Zenon, <2>1 DEF Published
  <2>3. ~Finishing(v)
    BY Zenon, <2>1 DEF AdapterOf
  <2>4. Finishing(v)' => pending[v] \cap Cert = {}
    BY Zenon, <2>1, <2>2, <2>3 DEF Finishing, EndOfPublish
  <2> QED
    BY Zenon, <2>1, <2>2, <2>4 DEF AdapterOf, Message, EndOfPublish
<1>2. CASE SendEndOfPublish(v)
  <2>1. /\ UNCHANGED <<status, processed, accepting, narwhal, log>>
        /\ closing[v]
        /\ pending'[v] = pending[v] \cup {v}
        /\ tasks'[v] = tasks[v] \cup {<<v, "start">>}
    BY Zenon, <1>2 DEF SendEndOfPublish, submit, EndOfPublish, dbVars, netVars, TypeOK
  <2>2. \A m : Published(v, m)' <=> Published(v, m)
    BY Zenon, <2>1 DEF Published
  <2>3. status[v] # "AcceptAllCerts" /\ pending[v] \cap Cert = {}
    BY Zenon, <2>1 DEF AdapterOf, Finishing
  <2>4. pending'[v] \cap Cert = {}
    BY Zenon, <1>0, <2>1, <2>3
  <2>5. \A t \in tasks'[v] :
           /\ t[1] \in Message(v)
           /\ t[1] \in Cert => t[1] \in pending'[v] \cup processed'[v]
           /\ t[2] \in {"woken", "removed"} => t[1] \in processed'[v]
    BY SMTT(30), <1>0, <2>1 DEF AdapterOf, Message, EndOfPublish
  <2>6. \A d \in Cert : Published(v, d)' => d \in pending'[v] \cup processed'[v]
    BY Zenon, <2>1, <2>2 DEF AdapterOf
  <2> QED
    BY Zenon, <2>1, <2>3, <2>4, <2>5, <2>6 DEF AdapterOf, Message, EndOfPublish
<1> QED
  BY Zenon, <1>1, <1>2

\* A task is woken only for what was output.
LEMMA AdapterOutput ==
    ASSUME TypeOK, NEW v \in Validator, AdapterOf(v), HandleConsensusOutput(v)
    PROVE  AdapterOf(v)'
<1> DEFINE commit == log[index[v] + 1]
           woken == {t \in tasks[v] : t[2] = "waiting" /\ t[1] \in Notified(v, commit)}
<1>1. /\ UNCHANGED <<pending, accepting, closing, narwhal, log>>
      /\ Closes(v, commit) => accepting[v] = {}
      /\ status' = [status EXCEPT ![v] = IF Closes(v, commit) THEN "RejectAllCerts" ELSE @]
      /\ processed' = [processed EXCEPT ![v] = @ \cup Keys(commit)]
      /\ tasks' = [tasks EXCEPT ![v] = (@ \ woken) \cup {<<t[1], "woken">> : t \in woken}]
  BY Zenon DEF HandleConsensusOutput, netVars
<1>2. Notified(v, commit) \subseteq Keys(commit)
  BY Zenon DEF Notified, Accepted, Fresh, Keys
<1>3. /\ status'[v] = status[v] \/ (status'[v] # "AcceptAllCerts" /\ accepting'[v] = {})
      /\ processed'[v] = processed[v] \cup Keys(commit)
      /\ tasks'[v] = (tasks[v] \ woken) \cup {<<t[1], "woken">> : t \in woken}
  BY ZenonT(60), <1>1 DEF TypeOK
<1>4. \A t \in tasks'[v] :
         \/ t \in tasks[v]
         \/ /\ t[1] \in Notified(v, commit) /\ t[2] = "woken"
            /\ \E u \in tasks[v] : u[1] = t[1] /\ u[2] = "waiting" /\ u = <<t[1], "waiting">>
  BY <1>3 DEF TypeOK
<1> HIDE DEF commit, woken
<1>5. \A m : Published(v, m)' <=> Published(v, m)
  BY Zenon, <1>1 DEF Published
<1>6. Finishing(v)' => Finishing(v)
  BY Zenon, <1>1, <1>4, <1>5 DEF Finishing, EndOfPublish, Progress
<1>7. \A t \in tasks'[v] :
         /\ t[1] \in Message(v)
         /\ t[1] \in Cert => t[1] \in pending'[v] \cup processed'[v]
         /\ t[2] \in {"woken", "removed"} => t[1] \in processed'[v]
  BY Zenon, <1>1, <1>2, <1>3, <1>4 DEF AdapterOf
<1>8. \A d \in Cert : Published(v, d)' => d \in pending'[v] \cup processed'[v]
  BY Zenon, <1>1, <1>3, <1>5 DEF AdapterOf
<1>9. Finishing(v)' => status'[v] # "AcceptAllCerts" /\ pending'[v] \cap Cert = {}
  BY Zenon, <1>1, <1>3, <1>6 DEF AdapterOf
<1>10. accepting'[v] # {} => status'[v] = "AcceptAllCerts"
  BY Zenon, <1>1, <1>3 DEF AdapterOf
<1> QED
  BY <1>7, <1>8, <1>9, <1>10, Zenon DEF AdapterOf, Message, EndOfPublish

\* Recovery restarts a task for what is pending; reconfiguration ends all of them.
LEMMA AdapterEnd ==
    ASSUME TypeOK, NEW v \in Validator, AdapterOf(v),
           Crash(v) \/ \E S \in SUBSET Cert : Reconfigure(v, S)
    PROVE  AdapterOf(v)'
<1>1. CASE Crash(v)
  <2>1. /\ UNCHANGED <<status, pending, processed, log>>
        /\ narwhal' \subseteq narwhal
        /\ accepting'[v] = {} /\ ~closing'[v]
        /\ tasks'[v] = recovered(v) \X {"start"}
    BY Zenon, <1>1 DEF Crash, dbVars, TypeOK
  <2>2. recovered(v) = pending[v]
    BY Zenon DEF recovered
  <2>3. \A m : Published(v, m)' => Published(v, m)
    BY ZenonT(60), <2>1 DEF Published
  <2>4. Finishing(v)' => Finishing(v)
    BY ZenonT(60), <2>1, <2>2, <2>3 DEF Finishing, EndOfPublish
  <2>5. \A t \in tasks'[v] :
           /\ t[1] \in Message(v)
           /\ t[1] \in Cert => t[1] \in pending'[v] \cup processed'[v]
           /\ t[2] \in {"woken", "removed"} => t[1] \in processed'[v]
    BY Zenon, <2>1, <2>2 DEF TypeOK
  <2> QED
    BY Zenon, <2>1, <2>3, <2>4, <2>5 DEF AdapterOf, Message, EndOfPublish
<1>2. ASSUME NEW S \in SUBSET Cert, Reconfigure(v, S)
      PROVE  AdapterOf(v)'
  <2>1. /\ UNCHANGED <<pending, processed, accepting, narwhal, log>>
        /\ accepting[v] = {} /\ ~closing'[v] /\ tasks'[v] = {}
        /\ status'[v] = status[v] \/ status'[v] # "AcceptAllCerts"
    BY <1>2 DEF Reconfigure, dbVars, netVars, TypeOK
  <2>2. \A m : Published(v, m)' => Published(v, m)
    BY Zenon, <2>1 DEF Published
  <2> QED
    BY Zenon, <2>1, <2>2, AdapterFrame
<1> QED
  BY Zenon, <1>1, <1>2

\* Every step keeps the adapters' part of the invariant.
LEMMA AdapterStep ==
    ASSUME TypeOK, AdapterInv, Next
    PROVE  AdapterInv'
<1> SUFFICES ASSUME NEW w \in Validator
             PROVE  AdapterOf(w)'
  BY Zenon DEF AdapterInv
<1>1. AdapterOf(w)
  BY Zenon DEF AdapterInv
<1>2. ASSUME NEW v \in Validator, Step(v), w # v
      PROVE  AdapterOf(w)'
  <2>1. \A m : Published(w, m)' => Published(w, m)
    BY Zenon, <1>2, Others, PublishedFrame
  <2> QED
    BY Zenon, <1>1, <1>2, <2>1, Others, AdapterFrame
<1>3. ASSUME Step(w)
      PROVE  AdapterOf(w)'
  BY Zenon, <1>1, <1>3, AdapterCertificate, AdapterTask, AdapterClose, AdapterOutput, AdapterEnd
     DEF Step
<1>4. CASE ~ \E v \in Validator : Step(v)
  <2>1. \A m : Published(w, m)' => Published(w, m)
    BY Zenon, <1>4, PublishedNarwhal DEF Next
  <2> QED
    BY Zenon, <1>1, <1>4, <2>1, NarwhalStep, AdapterFrame DEF Next, dbVars
<1> QED
  BY Zenon, <1>2, <1>3, <1>4


-----------------------------------------------------------------------------
(* Executions and the order of messages *)

\* What a step of v adds to the certificates v has taken: ones it accepts from a
\* client, which it first makes pending, or ones that consensus has output, here or at
\* a quorum.
TakenBy(v) ==
    \A c \in Taken(v)' :
        \/ c \in Taken(v)
        \/ status[v] = "AcceptAllCerts" /\ c \in pending'[v] \cup processed'[v]
        \/ c \in scheduled[v]
        \/ c \in Checkpointed

\* What a validator is responsible for it does not forget, and it publishes only
\* certificates that are pending.
Responsible(v) ==
    /\ executed'[v] \subseteq signed'[v]
    /\ \A c \in Cert : c \in pending[v] \cup processed[v] => c \in pending'[v] \cup processed'[v]
    /\ \A c \in Cert : Published(v, c)' => Published(v, c) \/ c \in pending[v]

\* The checkpoints of the whole epoch are checkpoints.
LEMMA FinalCheckpointed ==
    ASSUME NEW S \in SUBSET Cert, Final(S)
    PROVE  S \subseteq Checkpointed
<1>1. PICK Q \in Quorum : \A w \in Q : scheduled[w] = S
  BY Zenon DEF Final
<1> QED
  BY Zenon, <1>1 DEF Checkpointed

\* Both hold of every step.
LEMMA OwnCertificate ==
    ASSUME TypeOK, NEW v \in Validator, AdapterOf(v), executed[v] \subseteq signed[v], NEW c \in Cert,
           HandleCertificate(v, c) \/ SubmitCertificate(v, c) \/ Execute(v, c)
    PROVE  TakenBy(v) /\ Responsible(v)
<1>1. CASE HandleCertificate(v, c)
  <2>1. /\ UNCHANGED <<executed, signed, ended, pending, processed, narwhal, log>>
        /\ status[v] = "AcceptAllCerts"
        /\ requested'[v] \subseteq requested[v] \cup {d \in {c} : c \in processed[v]}
    BY <1>1 DEF HandleCertificate, should_accept_user_certs, dbVars, TypeOK
  <2> QED
    BY Zenon, <2>1 DEF TakenBy, Taken, Responsible, Published
<1>2. CASE SubmitCertificate(v, c)
  <2>1. /\ UNCHANGED <<executed, signed, ended, processed, narwhal, log>>
        /\ status[v] = "AcceptAllCerts"
        /\ pending'[v] = pending[v] \cup {c}
        /\ requested'[v] \subseteq requested[v] \cup {c}
    BY Zenon, <1>2 DEF SubmitCertificate, submit, AdapterOf, dbVars, netVars, TypeOK
  <2> QED
    BY Zenon, <2>1 DEF TakenBy, Taken, Responsible, Published
<1>3. CASE Execute(v, c)
  <2>1. /\ UNCHANGED <<pending, processed, narwhal, log>>
        /\ c \in requested[v] \cup scheduled[v] \cup Checkpointed
        /\ executed'[v] = executed[v] \cup {c}
        /\ signed'[v] = signed[v] \cup {c}
        /\ requested'[v] \subseteq requested[v]
    BY Zenon, <1>3 DEF Execute, dbVars, netVars, TypeOK
  <2> QED
    BY Zenon, <2>1 DEF TakenBy, Taken, Responsible, Published
<1> QED
  BY Zenon, <1>1, <1>2, <1>3

\* The steps of the adapter.
LEMMA OwnTask ==
    ASSUME TypeOK, NEW v \in Validator, AdapterOf(v), executed[v] \subseteq signed[v],
           \/ \E c \in Cert : FinishTask(v, c)
           \/ \E m \in Message(v) : SubmitAndWait(v, m) \/ RemovePending(v, m)
           \/ CloseEpoch(v) \/ SendEndOfPublish(v)
    PROVE  TakenBy(v) /\ Responsible(v)
<1> DEFINE Quiet == UNCHANGED <<executed, signed, requested, ended, processed>>
<1>1. ASSUME NEW c \in Cert, FinishTask(v, c)
      PROVE  TakenBy(v) /\ Responsible(v)
  <2>1. Quiet /\ UNCHANGED <<narwhal, log>> /\ pending[v] \subseteq pending'[v]
    BY <1>1 DEF FinishTask, dbVars, netVars, TypeOK
  <2> QED
    BY Zenon, <2>1 DEF TakenBy, Taken, Responsible, Published
<1>2. ASSUME NEW m \in Message(v), SubmitAndWait(v, m)
      PROVE  TakenBy(v) /\ Responsible(v)
  <2>1. /\ Quiet /\ UNCHANGED <<pending, log>>
        /\ <<m, "start">> \in tasks[v]
        /\ narwhal' \subseteq narwhal \cup {<<v, n>> : n \in {k \in {m} : m \notin processed[v]}}
    BY Zenon, <1>2 DEF SubmitAndWait, dbVars
  <2>2. m \in Cert => m \in pending[v] \cup processed[v]
    BY Zenon, <2>1 DEF AdapterOf
  <2> QED
    BY Zenon, <2>1, <2>2 DEF TakenBy, Taken, Responsible, Published
<1>3. ASSUME NEW m \in Message(v), RemovePending(v, m)
      PROVE  TakenBy(v) /\ Responsible(v)
  <2>1. Quiet /\ UNCHANGED <<narwhal, log>> /\ pending'[v] = pending[v] \ {m}
        /\ <<m, "woken">> \in tasks[v]
    BY Zenon, <1>3 DEF RemovePending, dbVars, netVars, TypeOK
  <2>2. m \in processed[v]
    BY Zenon, <2>1 DEF AdapterOf
  <2> QED
    BY Zenon, <2>1, <2>2 DEF TakenBy, Taken, Responsible, Published
<1>4. CASE CloseEpoch(v) \/ SendEndOfPublish(v)
  <2>1. Quiet /\ UNCHANGED <<narwhal, log>> /\ pending[v] \subseteq pending'[v]
    BY <1>4 DEF CloseEpoch, SendEndOfPublish, submit, dbVars, netVars, TypeOK
  <2> QED
    BY Zenon, <2>1 DEF TakenBy, Taken, Responsible, Published
<1> QED
  BY Zenon, <1>1, <1>2, <1>3, <1>4

\* Output, crash and reconfiguration.
LEMMA OwnEnd ==
    ASSUME TypeOK, NEW v \in Validator, executed[v] \subseteq signed[v],
           \/ HandleConsensusOutput(v) \/ Crash(v)
           \/ \E S \in SUBSET Cert : Reconfigure(v, S)
    PROVE  TakenBy(v) /\ Responsible(v)
<1>1. CASE HandleConsensusOutput(v)
  <2>1. /\ UNCHANGED <<executed, signed, requested, ended, pending, narwhal, log>>
        /\ processed' = [processed EXCEPT ![v] = @ \cup Keys(log[index[v] + 1])]
    BY <1>1, Zenon DEF HandleConsensusOutput, netVars
  <2>2. processed[v] \subseteq processed'[v]
    BY Zenon, <2>1 DEF TypeOK
  <2> QED
    BY Zenon, <2>1, <2>2 DEF TakenBy, Taken, Responsible, Published
<1>2. CASE Crash(v)
  <2>1. /\ UNCHANGED <<executed, signed, ended, pending, processed, log>>
        /\ requested'[v] = {} /\ narwhal' \subseteq narwhal
    BY Zenon, <1>2 DEF Crash, dbVars, TypeOK
  <2> QED
    BY Zenon, <2>1 DEF TakenBy, Taken, Responsible, Published
<1>3. ASSUME NEW S \in SUBSET Cert, Reconfigure(v, S)
      PROVE  TakenBy(v) /\ Responsible(v)
  <2>1. /\ UNCHANGED <<requested, pending, processed, narwhal, log>>
        /\ executed'[v] \subseteq executed[v] \cup S
        /\ signed'[v] = signed[v] \cup S
    BY <1>3 DEF Reconfigure, dbVars, netVars, TypeOK
  <2>2. S \subseteq Checkpointed
    BY Zenon, <1>3, FinalCheckpointed DEF Reconfigure
  <2> QED
    BY Zenon, <2>1, <2>2 DEF TakenBy, Taken, Responsible, Published
<1> QED
  BY Zenon, <1>1, <1>2, <1>3

\* Every step, seen from any validator.
LEMMA AnyStep ==
    ASSUME TypeOK, AdapterInv, ExecutionInv, Next, NEW w \in Validator
    PROVE  TakenBy(w) /\ Responsible(w)
<1>1. AdapterOf(w) /\ executed[w] \subseteq signed[w]
  BY Zenon DEF AdapterInv, ExecutionInv
<1>2. CASE Step(w)
  BY Zenon, <1>1, <1>2, OwnCertificate, OwnTask, OwnEnd DEF Step
<1>3. ASSUME NEW v \in Validator, Step(v), v # w
      PROVE  TakenBy(w) /\ Responsible(w)
  <2>1. /\ executed'[w] = executed[w] /\ signed'[w] = signed[w] /\ requested'[w] = requested[w]
        /\ ended'[w] = ended[w] /\ pending'[w] = pending[w] /\ processed'[w] = processed[w]
        /\ log' = log /\ \A m : <<w, m>> \in narwhal' => <<w, m>> \in narwhal
    BY Zenon, <1>3, Others
  <2> QED
    BY Zenon, <1>1, <2>1 DEF TakenBy, Taken, Responsible, Published
<1>4. CASE ~ \E v \in Validator : Step(v)
  <2>1. UNCHANGED <<executed, signed, requested, ended, pending, processed>>
    BY Zenon, <1>4, NarwhalStep DEF Next, dbVars
  <2>2. \A c \in Cert : Published(w, c)' => Published(w, c)
    BY Zenon, <1>4, PublishedNarwhal DEF Next
  <2> QED
    BY Zenon, <1>1, <2>1, <2>2 DEF TakenBy, Taken, Responsible
<1> QED
  BY Zenon, <1>2, <1>3, <1>4

\* The log only grows, and what it says of its old positions stays.
LEMMA LogStep ==
    ASSUME TypeOK, TypeOK', Next
    PROVE  /\ Len(log) <= Len(log') /\ \A i \in 1..Len(log) : log'[i] = log[i]
           /\ \A i \in 0..Len(log) : Seen(i)' = Seen(i) /\ Counted(i)' = Counted(i)
           /\ Counted(Len(log)) \subseteq Counted(Len(log))'
<1>1. Len(log) \in Nat /\ log \in Seq(SUBSET Entry) /\ log' \in Seq(SUBSET Entry) /\ Len(log') \in Nat
  BY DEF TypeOK
<1>2. Len(log) <= Len(log') /\ \A i \in 1..Len(log) : log'[i] = log[i]
  <2>1. CASE \E v \in Validator : Step(v)
    <3>1. log' = log
      BY Zenon, <2>1, OnlyOutput DEF HandleConsensusOutput, netVars
    <3> QED
      BY <1>1, <3>1
  <2>2. ASSUME NEW S \in SUBSET narwhal, Sequence(S)
        PROVE  Len(log) <= Len(log') /\ \A i \in 1..Len(log) : log'[i] = log[i]
    BY <1>1, <2>2 DEF Sequence
  <2>3. ASSUME NEW i \in DOMAIN log, NEW e \in log[i], Resend(e)
        PROVE  Len(log) <= Len(log') /\ \A j \in 1..Len(log) : log'[j] = log[j]
    BY <1>1, <2>3 DEF Resend
  <2> QED
    BY Zenon, <2>1, <2>2, <2>3 DEF Next
<1>3. \A i \in 0..Len(log) : Seen(i)' = Seen(i) /\ Counted(i)' = Counted(i)
  BY <1>1, <1>2, LogExtends
<1>4. PICK n \in Nat : n = Len(log)
  BY Zenon, <1>1
<1>5. Counted(n)' = Counted(n)
  BY <1>3, <1>4
<1>6. \A j \in Nat : n <= j => Counted(n)' \subseteq Counted(j)'
  BY DEF Counted
<1>7. Counted(n)' \subseteq Counted(Len(log))'
  <2>1. PICK j \in Nat : j = Len(log')
    BY Zenon, <1>1
  <2>2. Counted(j)' = Counted(Len(log))'
    BY Zenon, <2>1
  <2> QED
    BY Zenon, <1>2, <1>4, <1>6, <2>1, <2>2
<1> QED
  BY Zenon, <1>2, <1>3, <1>4, <1>5, <1>7

\* What is scheduled stays so, and with it what is in the checkpoints.
LEMMA ScheduledGrows ==
    ASSUME TypeOK, Next
    PROVE  /\ \A w \in Validator : scheduled[w] \subseteq scheduled'[w]
           /\ Checkpointed \subseteq Checkpointed'
<1>1. \A w \in Validator : scheduled[w] \subseteq scheduled'[w]
  <2>1. ASSUME NEW v \in Validator, HandleConsensusOutput(v), NEW w \in Validator
        PROVE  scheduled[w] \subseteq scheduled'[w]
    <3>1. scheduled' = [scheduled EXCEPT ![v] = @ \cup Accepted(v, log[index[v] + 1])]
      BY Zenon, <2>1 DEF HandleConsensusOutput
    <3> QED
      BY Zenon, <3>1 DEF TypeOK
  <2>2. CASE \E v \in Validator : Step(v)
    BY Zenon, <2>1, <2>2, OnlyOutput DEF dbVars
  <2>3. CASE ~ \E v \in Validator : Step(v)
    BY Zenon, <2>3, NarwhalStep DEF Next, dbVars
  <2> QED
    BY Zenon, <2>2, <2>3
<1>2. \A Q \in Quorum : Q \subseteq Validator
  BY Zenon, EpochAssumption
<1>3. Checkpointed \subseteq Checkpointed'
  BY Zenon, <1>1, <1>2 DEF Checkpointed
<1> QED
  BY Zenon, <1>1, <1>3

\* What any validator has scheduled was counted.
LEMMA ScheduledCounted ==
    ASSUME TypeOK, TableInv, NEW u \in Validator
    PROVE  scheduled[u] \subseteq Counted(Len(log)) /\ scheduled[u] \subseteq processed[u]
<1>1. index[u] \in Nat /\ Len(log) \in Nat /\ index[u] <= Len(log)
  BY DEF TypeOK
<1>2. Counted(index[u]) \subseteq Counted(Len(log)) /\ Counted(index[u]) \subseteq Seen(index[u])
  BY <1>1, SeenMonotone
<1> QED
  BY Zenon, <1>2 DEF TableInv

\* So was what is in the checkpoints.
LEMMA CheckpointedCounted ==
    ASSUME TypeOK, TableInv
    PROVE  Checkpointed \subseteq Counted(Len(log))
<1> SUFFICES ASSUME NEW Q \in Quorum, NEW c, \A w \in Q : c \in scheduled[w]
             PROVE  c \in Counted(Len(log))
  BY Zenon DEF Checkpointed
<1>1. PICK w \in Q : w \in Validator
  BY EpochAssumption
<1> QED
  BY Zenon, <1>1, ScheduledCounted

\* What is executed stays pending until it is output.
LEMMA ExecutionStep ==
    ASSUME TypeOK, TypeOK', TableInv, AdapterInv, ExecutionInv, Next
    PROVE  ExecutionInv'
<1> SUFFICES ASSUME NEW v \in Validator
             PROVE  /\ executed'[v] \subseteq signed'[v]
                    /\ Taken(v)' \subseteq pending'[v] \cup processed'[v] \cup Checkpointed'
  BY Zenon DEF ExecutionInv
<1>1. TakenBy(v) /\ Responsible(v)
  BY Zenon, AnyStep
<1>2. Checkpointed \subseteq Checkpointed'
  BY Zenon, ScheduledGrows
<1>3. scheduled[v] \subseteq processed[v]
  BY Zenon, ScheduledCounted
<1>4. Taken(v) \subseteq Cert /\ scheduled[v] \subseteq Cert
  BY Zenon DEF Taken, TypeOK
<1> SUFFICES ASSUME NEW c \in Taken(v)'
             PROVE  c \in pending'[v] \cup processed'[v] \cup Checkpointed'
  BY Zenon, <1>1 DEF Responsible
<1>5. CASE c \in Taken(v)
  BY Zenon, <1>1, <1>2, <1>4, <1>5 DEF ExecutionInv, Responsible
<1>6. CASE c \in scheduled[v]
  BY Zenon, <1>1, <1>3, <1>4, <1>6 DEF Responsible
<1> QED
  BY Zenon, <1>1, <1>2, <1>5, <1>6 DEF TakenBy

\* When EndOfPublish of v is committed, no certificate of v is under way: all were
\* output before.
LEMMA OrderStep ==
    ASSUME TypeOK, TypeOK', TableInv, AdapterInv, OrderInv, ExecutionInv, Next
    PROVE  OrderInv'
<1> SUFFICES ASSUME NEW v \in Validator, NEW i \in DOMAIN log', <<v, v>> \in log'[i]
             PROVE  /\ \A c \in Cert : Published(v, c)' => c \in Seen(i - 1)'
                    /\ Taken(v)' \subseteq Seen(i - 1)' \cup Counted(Len(log))'
  BY Zenon DEF OrderInv, EndOfPublish
<1>1. /\ log \in Seq(SUBSET Entry) /\ log' \in Seq(SUBSET Entry)
      /\ Len(log) \in Nat /\ i \in 1..Len(log')
  BY DEF TypeOK
<1>2. TakenBy(v) /\ Responsible(v) /\ AdapterOf(v)
  BY Zenon, AnyStep DEF AdapterInv
<1>3. /\ \A j \in 1..Len(log) : log'[j] = log[j]
      /\ \A j \in 0..Len(log) : Seen(j)' = Seen(j)
      /\ Counted(Len(log)) \subseteq Counted(Len(log))'
  BY Zenon, LogStep
<1>4. scheduled[v] \subseteq Counted(Len(log)) /\ Checkpointed \subseteq Counted(Len(log))
  BY Zenon, ScheduledCounted, CheckpointedCounted
<1>5. i \in 1..Len(log) \/ (i = Len(log) + 1 /\ \E S \in SUBSET narwhal : log'[i] = S)
  <2>1. CASE \E S \in SUBSET narwhal : Sequence(S)
    BY <1>1, <2>1 DEF Sequence
  <2>2. CASE log' = log
    BY Zenon, <1>1, <2>2
  <2>3. CASE \E v_1 \in Validator : Step(v_1)
    BY Zenon, <2>2, <2>3, OnlyOutput DEF HandleConsensusOutput, netVars
  <2>4. CASE \E j \in DOMAIN log : \E e \in log[j] : Resend(e)
    BY Zenon, <2>2, <2>4 DEF Resend
  <2> QED
    BY Zenon, <2>1, <2>3, <2>4 DEF Next
<1>6. Published(v, v)
  BY <1>1, <1>3, <1>5 DEF Published
<1>7. status[v] # "AcceptAllCerts" /\ pending[v] \cap Cert = {}
  BY Zenon, <1>2, <1>6 DEF AdapterOf, Finishing, EndOfPublish
<1>8. /\ \A c \in Cert : Published(v, c)' => Published(v, c)
      /\ \A c \in Taken(v)' : c \in Taken(v) \cup Counted(Len(log))
  BY Zenon, <1>2, <1>4, <1>7 DEF Responsible, TakenBy
<1>9. /\ \A c \in Cert : Published(v, c) => c \in Seen(i - 1)
      /\ Taken(v) \subseteq Seen(i - 1) \cup Counted(Len(log))
      /\ Seen(i - 1)' = Seen(i - 1)
  <2>1. CASE i \in 1..Len(log)
    <3>1. <<v, EndOfPublish(v)>> \in log[i] /\ i \in DOMAIN log /\ i - 1 \in 0..Len(log)
      BY <1>1, <1>3, <2>1 DEF EndOfPublish
    <3> QED
      BY Zenon, <1>3, <3>1 DEF OrderInv
  <2>2. CASE i = Len(log) + 1
    <3>1. i - 1 = Len(log) /\ i - 1 \in Nat /\ i - 1 \in 0..Len(log)
      BY <1>1, <2>2
    <3>2. processed[v] \subseteq Seen(i - 1)
      <4>1. index[v] \in Nat /\ index[v] <= i - 1
        BY Zenon, <3>1 DEF TypeOK
      <4>2. Seen(index[v]) \subseteq Seen(i - 1)
        BY Zenon, <3>1, <4>1, SeenMonotone
      <4> QED
        BY Zenon, <4>2 DEF TableInv
    <3>3. Taken(v) \subseteq Cert
      BY Zenon DEF Taken, TypeOK
    <3>4. \A c \in Cert : Published(v, c) => c \in Seen(i - 1)
      BY Zenon, <1>2, <1>7, <3>2 DEF AdapterOf
    <3>5. Taken(v) \subseteq Seen(i - 1) \cup Counted(Len(log))
      BY Zenon, <1>4, <1>7, <3>2, <3>3 DEF ExecutionInv
    <3> QED
      BY Zenon, <1>3, <3>1, <3>4, <3>5
  <2> QED
    BY Zenon, <1>5, <2>1, <2>2
<1> QED
  BY Zenon, <1>3, <1>8, <1>9

\* No request is for a certificate with shared inputs.
LEMMA SharedStep ==
    ASSUME TypeOK, SharedInv, Next
    PROVE  SharedInv'
<1> SUFFICES ASSUME NEW w \in Validator
             PROVE  SharedOf(w)'
  BY Zenon DEF SharedInv
<1>0. scheduled[w] \subseteq scheduled'[w] /\ Checkpointed \subseteq Checkpointed'
  BY Zenon, ScheduledGrows
<1>1. SharedOf(w)
  BY Zenon DEF SharedInv
<1>2. ASSUME requested'[w] \subseteq requested[w], executed'[w] = executed[w]
      PROVE  SharedOf(w)'
  BY Zenon, <1>0, <1>1, <1>2 DEF SharedOf
<1>3. ASSUME NEW v \in Validator, Step(v), v # w
      PROVE  SharedOf(w)'
  BY Zenon, <1>2, <1>3, Others
<1>4. CASE ~ \E v \in Validator : Step(v)
  BY Zenon, <1>2, <1>4, NarwhalStep DEF Next
<1>5. CASE Step(w)
  <2>1. ASSUME NEW c \in Cert, HandleCertificate(w, c) \/ SubmitCertificate(w, c)
        PROVE  SharedOf(w)'
    <3>1. /\ UNCHANGED executed
          /\ requested'[w] \subseteq requested[w] \cup ({c} \ Shared)
      BY <2>1 DEF HandleCertificate, SubmitCertificate, TypeOK
    <3> QED
      BY Zenon, <1>0, <1>1, <3>1 DEF SharedOf
  <2>2. ASSUME NEW c \in Cert, Execute(w, c)
        PROVE  SharedOf(w)'
    <3>1. /\ c \in requested[w] \cup scheduled[w] \cup Checkpointed
          /\ executed'[w] = executed[w] \cup {c}
          /\ requested'[w] \subseteq requested[w]
      BY Zenon, <2>2 DEF Execute, TypeOK
    <3> QED
      BY Zenon, <1>0, <1>1, <3>1 DEF SharedOf
  <2>3. ASSUME \/ \E c \in Cert : FinishTask(w, c)
               \/ \E m \in Message(w) : SubmitAndWait(w, m) \/ RemovePending(w, m)
               \/ CloseEpoch(w) \/ SendEndOfPublish(w)
        PROVE  SharedOf(w)'
    <3>1. UNCHANGED <<executed, requested>>
      BY Zenon, <2>3 DEF FinishTask, SubmitAndWait, RemovePending, CloseEpoch, SendEndOfPublish
    <3> QED
      BY Zenon, <1>2, <3>1
  <2>4. CASE HandleConsensusOutput(w)
    <3>1. UNCHANGED <<executed, requested>>
      BY Zenon, <2>4 DEF HandleConsensusOutput
    <3> QED
      BY Zenon, <1>2, <3>1
  <2>5. CASE Crash(w)
    <3>1. UNCHANGED executed /\ requested'[w] = {}
      BY Zenon, <2>5 DEF Crash, TypeOK
    <3> QED
      BY Zenon, <1>2, <3>1
  <2>6. ASSUME NEW S \in SUBSET Cert, Reconfigure(w, S)
        PROVE  SharedOf(w)'
    <3>1. executed'[w] \subseteq executed[w] \cup S /\ requested' = requested
      BY <2>6 DEF Reconfigure, TypeOK
    <3>2. S \subseteq Checkpointed
      BY Zenon, <2>6, FinalCheckpointed DEF Reconfigure
    <3> QED
      BY Zenon, <1>0, <1>1, <3>1, <3>2 DEF SharedOf
  <2> QED
    BY Zenon, <1>5, <2>1, <2>2, <2>3, <2>4, <2>5, <2>6 DEF Step
<1> QED
  BY Zenon, <1>3, <1>4, <1>5

-----------------------------------------------------------------------------
(* The invariant and what follows from it *)

\* Initially nothing is pending, published or executed.
LEMMA InitInv ==
    ASSUME Init
    PROVE  IInv
<1> USE EpochAssumption DEF Init, Empty
<1>1. TypeOK
  BY DEF TypeOK, Status
<1>2. ASSUME NEW v \in Validator
      PROVE  Seen(0) = {} /\ Counted(0) = {} /\ ~ClosedAt(0)
  <2>1. Seen(0) = {} /\ Counted(0) = {}
    BY DEF Seen, Counted
  <2> QED
    BY <2>1 DEF ClosedAt
<1>3. TableInv
  BY Zenon, <1>2 DEF TableInv
<1>4. CloseInv
  BY Zenon DEF CloseInv
<1>5. \A v, m : ~Published(v, m)
  BY DEF Published
<1>6. AdapterInv
  BY Zenon, <1>5 DEF AdapterInv, AdapterOf, Finishing
<1>7. OrderInv
  BY DEF OrderInv
<1>8. ExecutionInv
  BY Zenon DEF ExecutionInv, Taken
<1>9. SharedInv
  BY Zenon DEF SharedInv, SharedOf
<1> QED
  BY Zenon, <1>1, <1>3, <1>4, <1>6, <1>7, <1>8, <1>9 DEF IInv

\* Every reachable state satisfies the invariant.
THEOREM EpochInvariance == Spec => []IInv
<1>1. Init => IInv
  BY Zenon, InitInv
<1>2. IInv /\ [Next]_vars => IInv'
  <2>1. ASSUME IInv, Next
        PROVE  IInv'
    <3>1. TypeOK'
      BY Zenon, <2>1, TypeStep DEF IInv
    <3> QED
      BY Zenon, <2>1, <3>1, TableStep, CloseStep, AdapterStep, OrderStep, ExecutionStep, SharedStep
         DEF IInv
  <2>2. ASSUME IInv, UNCHANGED vars
        PROVE  IInv'
    <3>1. TypeOK' /\ CloseInv'
      BY Zenon, <2>2 DEF IInv, TypeOK, CloseInv, vars, Message, EndOfPublish, Entry
    <3>2. TableInv'
      BY Zenon, <2>2, TableFrame DEF IInv, vars, dbVars
    <3>3. AdapterInv'
      BY Zenon, <2>2 DEF IInv, AdapterInv, AdapterOf, Finishing, Published, Message, EndOfPublish, vars
    <3>4. OrderInv' /\ ExecutionInv'
      <4>1. log' = log /\ narwhal' = narwhal
        BY Zenon, <2>2 DEF vars
      <4>2. /\ \A i : Seen(i)' = Seen(i) /\ Counted(i)' = Counted(i)
            /\ \A v, m : Published(v, m)' <=> Published(v, m)
        BY <4>1 DEF Seen, Counted, ClosedAt, Keys, Published
      <4>3. Counted(Len(log))' = Counted(Len(log))
        BY <4>1 DEF Seen, Counted, ClosedAt, Keys
      <4>4. \A v \in Validator : Taken(v)' = Taken(v)
        BY Zenon, <2>2 DEF vars, Taken
      <4>5. OrderInv'
        BY Zenon, <2>2, <4>1, <4>2, <4>3, <4>4 DEF IInv, OrderInv, EndOfPublish
      <4>6. ExecutionInv'
        BY ZenonT(60), <2>2, <4>4 DEF IInv, ExecutionInv, Checkpointed, vars
      <4> QED
        BY Zenon, <4>5, <4>6
    <3>5. SharedInv'
      BY Zenon, <2>2 DEF IInv, SharedInv, SharedOf, Checkpointed, vars
    <3> QED
      BY Zenon, <3>1, <3>2, <3>3, <3>4, <3>5 DEF IInv
  <2> QED
    BY Zenon, <2>1, <2>2
<1> QED
  BY <1>1, <1>2, PTL DEF Spec

\* A certificate committed before the epoch closed was counted.
LEMMA SeenCounted ==
    ASSUME log \in Seq(SUBSET Entry), NEW i \in Nat, NEW j \in Nat, i <= j, j <= Len(log),
           ~ClosedAt(i)
    PROVE  Seen(i) \subseteq Counted(j)
<1>1. \A n \in 1..i : n \in 1..j /\ n - 1 \in Nat /\ n - 1 <= i
  OBVIOUS
<1>2. \A n \in 1..i : ~ClosedAt(n - 1)
  BY Zenon, <1>1, SeenMonotone
<1>3. Seen(i) \subseteq Cert \cup Validator
  BY SeenType
<1> QED
  BY Zenon, <1>1, <1>2, <1>3 DEF Seen, Counted

\* Positions in the first n elements of a sequence, and what is there.
LEMMA InPrefix ==
    ASSUME NEW S, NEW q \in Seq(S), NEW n \in Nat, n <= Len(q), NEW j \in 1..n
    PROVE  j \in DOMAIN q /\ j - 1 \in Nat /\ j - 1 <= n /\ q[j] \in S
OBVIOUS

\* A validator is named only by its own EndOfPublish.
LEMMA OwnEndOfPublish ==
    ASSUME NEW v \in Validator, NEW e \in Entry, e[2] = v
    PROVE  e = <<v, v>>
BY EpochAssumption DEF Entry, Message, EndOfPublish

\* Any quorum of signers shares a validator with the quorum that closed the epoch.
\* What that validator signed was output before its EndOfPublish or is counted.
LEMMA SignersMeetClosers ==
    ASSUME IInv
    PROVE  EffectsQuorumFinal
<1> USE EpochAssumption
<1> SUFFICES ASSUME NEW c \in Cert, NEW w \in Validator, NEW Q \in Quorum,
                    \A v \in Q : c \in signed[v],
                    status[w] = "RejectAllCerts"
             PROVE  c \in scheduled[w]
  BY Zenon DEF EffectsQuorumFinal
<1>1. PICK v \in Q : v \in endOfPublish[w]
  BY DEF IInv, CloseInv
<1>2. /\ index[w] \in Nat /\ index[w] <= Len(log) /\ Len(log) \in Nat
      /\ log \in Seq(SUBSET Entry) /\ v \in Validator
  BY DEF IInv, TypeOK
<1>3. /\ endOfPublish[w] = Counted(index[w]) \cap Validator
      /\ scheduled[w] = Counted(index[w]) \cap Cert
      /\ ClosedAt(index[w])
  BY Zenon DEF IInv, TableInv
<1>4. PICK j \in 1..index[w] : v \in Keys(log[j]) /\ ~ClosedAt(j - 1)
  BY Zenon, <1>1, <1>3 DEF Counted
<1>5. j \in DOMAIN log /\ j - 1 \in Nat /\ j - 1 <= index[w] /\ log[j] \in SUBSET Entry
  BY Zenon, <1>2, <1>4, InPrefix
<1>6. <<v, EndOfPublish(v)>> \in log[j]
  <2>1. PICK e \in log[j] : e[2] = v
    BY Zenon, <1>4 DEF Keys
  <2>2. e \in Entry
    BY Zenon, <1>5
  <2>3. e = <<v, v>>
    BY Zenon, <1>2, <2>1, <2>2, OwnEndOfPublish
  <2> QED
    BY Zenon, <2>1, <2>3 DEF EndOfPublish
<1>7. c \in Seen(j - 1) \cup Counted(Len(log))
  BY Zenon, <1>2, <1>5, <1>6 DEF IInv, OrderInv, Taken
<1>8. Seen(j - 1) \subseteq Counted(index[w])
  BY Zenon, <1>2, <1>4, <1>5, SeenCounted
<1>9. Counted(Len(log)) \subseteq Counted(index[w])
  BY Zenon, <1>2, <1>3, CountedClosed
<1> QED
  BY Zenon, <1>3, <1>7, <1>8, <1>9

\* Effects that a quorum of validators has signed are of a certificate that every
\* validator has scheduled when its epoch closes: it is in the checkpoints of the
\* epoch and not reverted, whatever crashes and orders of messages there were.
THEOREM EffectsFinal == Spec => []EffectsQuorumFinal
<1>1. IInv => EffectsQuorumFinal
  BY Zenon, SignersMeetClosers
<1> QED
  BY <1>1, EpochInvariance, PTL

\* "This can not happen with valid authority": the consensus handler never meets a
\* new certificate from a validator whose EndOfPublish it has counted.
THEOREM NoLateCertificate == Spec => []NoCertAfterEndOfPublish
<1>1. IInv => NoCertAfterEndOfPublish
  BY Zenon, FreshAuthor DEF IInv
<1> QED
  BY <1>1, EpochInvariance, PTL

\* Validators that have handled the same commits have the same tables.
THEOREM OutputAgreement == Spec => []SameOutput
<1>1. IInv => SameOutput
  <2> SUFFICES ASSUME IInv, NEW v \in Validator, NEW w \in Validator, index[v] = index[w]
               PROVE  /\ scheduled[v] = scheduled[w]
                      /\ processed[v] = processed[w]
                      /\ endOfPublish[v] = endOfPublish[w]
                      /\ should_accept_consensus_certs(v) <=> should_accept_consensus_certs(w)
    BY Zenon DEF SameOutput, should_accept_consensus_certs
  <2> QED
    BY Zenon DEF IInv, TableInv, should_accept_consensus_certs
<1> QED
  BY <1>1, EpochInvariance, PTL

\* What a validator has executed is scheduled, at a quorum if not here, or still pending,
\* until the epoch closes.
THEOREM ExecutionTracked == Spec => []ExecutedIsTracked
<1>1. IInv => ExecutedIsTracked
  <2> SUFFICES ASSUME IInv, NEW v \in Validator, should_accept_consensus_certs(v), ~ended[v],
                      NEW c \in executed[v]
               PROVE  c \in Checkpointed \cup scheduled[v] \cup pending[v]
    BY Zenon DEF ExecutedIsTracked
  <2>1. c \in pending[v] \cup processed[v] \cup Checkpointed /\ c \in Cert
    BY Zenon DEF IInv, ExecutionInv, Taken, TypeOK
  <2>2. index[v] \in Nat /\ index[v] <= Len(log) /\ log \in Seq(SUBSET Entry)
    BY Zenon DEF IInv, TypeOK
  <2>3. ~ClosedAt(index[v])
    BY Zenon DEF IInv, TableInv, should_accept_consensus_certs
  <2>4. Seen(index[v]) \subseteq Counted(index[v])
    BY <2>2, <2>3, SeenCounted
  <2> QED
    BY Zenon, <2>1, <2>4 DEF IInv, TableInv
<1> QED
  BY <1>1, EpochInvariance, PTL

\* The state is well typed: in particular only a validator itself sends its
\* EndOfPublish, and only validators are counted as voters.
THEOREM EpochTypes == Spec => []TypeOK
<1>1. IInv => TypeOK
  BY Zenon DEF IInv
<1> QED
  BY <1>1, EpochInvariance, PTL

\* The assertion of revert_state_update holds: a certificate with shared inputs that
\* was executed is in the checkpoints of the epoch.
THEOREM SharedNotReverted == Spec => []NoSharedRevert
<1> USE EpochAssumption
<1>1. IInv => NoSharedRevert
  <2> SUFFICES ASSUME IInv, NEW v \in Validator, NEW S \in SUBSET Cert, ~ended[v], Final(S),
                      NEW c \in executed[v], c \in Shared
               PROVE  c \in S
    BY Zenon DEF NoSharedRevert, Reverted
  <2>1. PICK w \in Validator : status[w] = "RejectAllCerts" /\ scheduled[w] = S
    BY DEF Final
  <2>2. c \in Counted(Len(log))
    BY Zenon, ScheduledCounted, CheckpointedCounted DEF IInv, SharedInv, SharedOf
  <2>3. index[w] \in Nat /\ Len(log) \in Nat
    BY DEF IInv, TypeOK
  <2>4. ClosedAt(index[w]) /\ S = Counted(index[w]) \cap Cert
    BY Zenon, <2>1 DEF IInv, TableInv
  <2>5. Counted(Len(log)) \subseteq Counted(index[w])
    BY Zenon, <2>3, <2>4, CountedClosed
  <2> QED
    BY Zenon, <2>2, <2>4, <2>5
<1> QED
  BY <1>1, EpochInvariance, PTL

-----------------------------------------------------------------------------
(* What reconfiguration leaves *)

\* A validator in the next epoch has executed nothing of this one besides the
\* checkpoints, except what consensus has output; all it has scheduled is in them.
SurvivorOf(v) ==
    ended[v] => /\ scheduled[v] \subseteq Checkpointed
                /\ executed[v] \subseteq Checkpointed \cup processed[v]

\* The checkpoints of the whole epoch hold everything that was counted.
LEMMA FinalComplete ==
    ASSUME TypeOK, TableInv, NEW S \in SUBSET Cert, Final(S), NEW v \in Validator
    PROVE  scheduled[v] \subseteq S
<1>1. PICK w \in Validator : status[w] = "RejectAllCerts" /\ scheduled[w] = S
  BY EpochAssumption DEF Final
<1>2. index[w] \in Nat /\ Len(log) \in Nat
  BY DEF TypeOK
<1>3. ClosedAt(index[w]) /\ S = Counted(index[w]) \cap Cert
  BY Zenon, <1>1 DEF TableInv
<1>4. Counted(Len(log)) \subseteq Counted(index[w])
  BY Zenon, <1>2, <1>3, CountedClosed
<1>5. scheduled[v] \subseteq Counted(Len(log)) /\ scheduled[v] \subseteq Cert
  BY Zenon, ScheduledCounted DEF TypeOK
<1> QED
  BY Zenon, <1>3, <1>4, <1>5

\* The steps of the validator itself.
LEMMA SurvivorOwn ==
    ASSUME TypeOK, TableInv, ExecutionInv, NEW v \in Validator, SurvivorOf(v), Step(v),
           Checkpointed \subseteq Checkpointed'
    PROVE  SurvivorOf(v)'
<1>1. ASSUME ~ended[v], ended' = ended
      PROVE  SurvivorOf(v)'
  BY Zenon, <1>1 DEF SurvivorOf
<1>2. ASSUME (\E c \in Cert : Execute(v, c)) \/ HandleConsensusOutput(v)
      PROVE  SurvivorOf(v)'
  BY Zenon, <1>1, <1>2 DEF Execute, HandleConsensusOutput
<1>3. ASSUME \/ \E c \in Cert : HandleCertificate(v, c) \/ SubmitCertificate(v, c) \/ FinishTask(v, c)
             \/ \E m \in Message(v) : SubmitAndWait(v, m) \/ RemovePending(v, m)
             \/ CloseEpoch(v) \/ SendEndOfPublish(v) \/ Crash(v)
      PROVE  SurvivorOf(v)'
  <2>1. UNCHANGED <<executed, ended, scheduled, processed>>
    BY Zenon, <1>3 DEF HandleCertificate, SubmitCertificate, FinishTask, SubmitAndWait,
         RemovePending, CloseEpoch, SendEndOfPublish, Crash, dbVars
  <2> QED
    BY Zenon, <2>1 DEF SurvivorOf
<1>4. ASSUME NEW S \in SUBSET Cert, Reconfigure(v, S)
      PROVE  SurvivorOf(v)'
  <2>1. /\ executed'[v] = (executed[v] \cup S) \ ((pending[v] \cap Cert) \ S)
        /\ UNCHANGED <<scheduled, processed>>
    BY Zenon, <1>4 DEF Reconfigure, Reverted, pending_consensus_certificates, dbVars, TypeOK
  <2>2. S \subseteq Checkpointed /\ scheduled[v] \subseteq S
    BY Zenon, <1>4, FinalCheckpointed, FinalComplete DEF Reconfigure
  <2>3. executed[v] \subseteq pending[v] \cup processed[v] \cup Checkpointed /\ executed[v] \subseteq Cert
    BY Zenon DEF ExecutionInv, Taken, TypeOK
  <2>4. executed'[v] \subseteq Checkpointed \cup processed[v]
    BY Zenon, <2>1, <2>2, <2>3
  <2> QED
    BY Zenon, <2>1, <2>2, <2>4 DEF SurvivorOf
<1> QED
  BY Zenon, <1>2, <1>3, <1>4 DEF Step

\* Any step.
LEMMA SurvivorStep ==
    ASSUME IInv, Next, NEW v \in Validator, SurvivorOf(v)
    PROVE  SurvivorOf(v)'
<1>1. Checkpointed \subseteq Checkpointed' /\ TypeOK /\ TableInv /\ ExecutionInv
  BY Zenon, ScheduledGrows DEF IInv
<1>2. ASSUME executed'[v] = executed[v], ended'[v] = ended[v], scheduled'[v] = scheduled[v],
             processed'[v] = processed[v]
      PROVE  SurvivorOf(v)'
  BY Zenon, <1>1, <1>2 DEF SurvivorOf
<1>3. CASE \E w \in Validator : w # v /\ Step(w)
  BY Zenon, <1>1, <1>2, <1>3, Others
<1>4. CASE Step(v)
  BY Zenon, <1>1, <1>4, SurvivorOwn
<1>5. CASE ~ \E w \in Validator : Step(w)
  <2>1. UNCHANGED <<executed, ended, scheduled, processed>>
    BY Zenon, <1>5, NarwhalStep DEF Next, dbVars
  <2> QED
    BY Zenon, <1>2, <2>1
<1> QED
  BY Zenon, <1>3, <1>4, <1>5

\* revert_uncommitted_epoch_transactions misses one kind of execution only: that of a
\* certificate which consensus has output and the handler has not scheduled, because
\* the epoch was closed.  It is the case that UncommittedReverted is about.
THEOREM OnlyIgnoredSurvive ==
    Spec => [](\A v \in Validator :
                 ended[v] => executed[v] \ Checkpointed \subseteq processed[v] \ scheduled[v])
<1> DEFINE Survivors == \A v \in Validator : SurvivorOf(v)
<1>1. Init => Survivors
  BY Zenon DEF Init, SurvivorOf
<1>2. IInv /\ Survivors /\ [Next]_vars => Survivors'
  <2>1. ASSUME Survivors, UNCHANGED vars
        PROVE  Survivors'
    BY Zenon, <2>1 DEF SurvivorOf, Checkpointed, vars
  <2> QED
    BY Zenon, <2>1, SurvivorStep
<1>3. Survivors => \A v \in Validator :
                     ended[v] => executed[v] \ Checkpointed \subseteq processed[v] \ scheduled[v]
  BY Zenon DEF SurvivorOf
<1> HIDE DEF Survivors
<1> QED
  BY <1>1, <1>2, <1>3, EpochInvariance, PTL DEF Spec

=============================================================================
