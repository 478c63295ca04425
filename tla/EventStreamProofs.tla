------------------------- MODULE EventStreamProofs --------------------------
(***************************************************************************)
(* Theorems about EventStream, for any number of executions and clients.   *)
(***************************************************************************)
EXTENDS EventStream, FiniteSetTheorems, SequenceTheorems, TLAPS

-----------------------------------------------------------------------------
(* Numbers under the row lock                                              *)

\* The types of the variables emit works on.
EmitTypes ==
    /\ log \in Seq(Nat)
    /\ lock \in Executions \union {Nobody}
    /\ epc \in [Executions -> {"idle", "working", "locked", "inserted",
                               "committed", "raised", "ended"}]
    /\ pending \in [Executions -> Nat]

\* Only the execution that holds the lock is between the SELECT FOR UPDATE and
\* its commit, and the number it has picked is the next one.
LockInv ==
    \A e \in Executions :
        /\ epc[e] \in {"locked", "inserted"} => lock = e
        /\ epc[e] = "inserted" => pending[e] = Len(log)

EmitInv == EmitTypes /\ LogIsContiguous /\ log # <<>> /\ LockInv

\* get_next_sequence returns the length of a contiguous log.
LEMMA NextIsLength ==
    ASSUME log \in Seq(Nat), LogIsContiguous, log # <<>>
    PROVE  NextSequence = Len(log)
<1> DEFINE IsLast(n) == n \in Range(log) /\ \A m \in Range(log) : m <= n
<1>1. Len(log) \in Nat \ {0}
  OBVIOUS
<1>2. \A n : n \in Range(log) <=> \E i \in 1 .. Len(log) : n = i - 1
  BY <1>1 DEF Range, LogIsContiguous
<1>3. IsLast(Len(log) - 1)
  BY <1>1, <1>2
<1>4. \A n : IsLast(n) => n = Len(log) - 1
  BY <1>1, <1>2, <1>3
<1>5. (CHOOSE n \in Range(log) : \A m \in Range(log) : m <= n) = Len(log) - 1
  BY <1>3, <1>4
<1>6. NextSequence =
        (CHOOSE n \in Range(log) : \A m \in Range(log) : m <= n) + 1
  BY DEF NextSequence
<1>7. NextSequence = (Len(log) - 1) + 1
  BY <1>5, <1>6, Zenon
<1> QED
  BY <1>1, <1>7

LEMMA InitEmit == Init => EmitInv
BY DEF Init, EmitInv, EmitTypes, LogIsContiguous, LockInv

LEMMA EmitStep ==
    ASSUME EmitInv, [Next]_vars
    PROVE  EmitInv'
<1> USE BoundsAssumption DEF EmitInv, EmitTypes, BoundsAssumption
<1>1. ASSUME NEW e \in Executions, Lock(e)
      PROVE  EmitInv'
  BY <1>1 DEF Lock, Goes, LockInv, LogIsContiguous
<1>2. ASSUME NEW e \in Executions, Insert(e)
      PROVE  EmitInv'
  <2>1. NextSequence = Len(log) /\ Len(log) \in Nat
    BY NextIsLength
  <2> QED
    BY <1>2, <2>1 DEF Insert, Goes, LockInv, LogIsContiguous
<1>3. ASSUME NEW e \in Executions, Commit(e)
      PROVE  EmitInv'
  <2>1. /\ log' = Append(log, Len(log)) /\ lock = e /\ lock' = Nobody
        /\ epc' = [epc EXCEPT ![e] = "committed"] /\ UNCHANGED pending
    BY <1>3 DEF Commit, Goes, LockInv
  <2>2. log' \in Seq(Nat) /\ log' # <<>> /\ LogIsContiguous'
    <3>1. Len(log) \in Nat /\ Len(log') = Len(log) + 1
      BY <2>1
    <3>2. \A i \in 1 .. Len(log) : log'[i] = log[i]
      BY <2>1
    <3>3. log'[Len(log) + 1] = Len(log)
      BY <2>1
    <3>4. ASSUME NEW i \in 1 .. Len(log') PROVE log'[i] = i - 1
      <4>1. i \in 1 .. Len(log) \/ i = Len(log) + 1
        BY <3>1
      <4> QED
        BY <3>1, <3>2, <3>3, <4>1 DEF LogIsContiguous
    <3>5. log' \in Seq(Nat) /\ log' # <<>>
      BY <2>1, <3>1
    <3> QED
      BY <3>4, <3>5 DEF LogIsContiguous
  <2>3. \A x \in Executions : epc'[x] \notin {"locked", "inserted"}
    BY <2>1 DEF LockInv
  <2> QED
    BY <2>1, <2>2, <2>3 DEF LockInv
<1>4. ASSUME NEW e \in Executions,
             Begin(e) \/ Publish(e) \/ Finish(e) \/ MarkCompleted(e)
      PROVE  EmitInv'
  <2>1. /\ UNCHANGED <<log, lock>>
        /\ pending' \in [Executions -> Nat]
        /\ \A x \in Executions : pending'[x] = pending[x] \/ epc'[x] = "working"
        /\ \E to \in {"idle", "working", "ended"} : epc' = [epc EXCEPT ![e] = to]
    <3>1. CASE Begin(e)
      BY <3>1 DEF Begin, Goes, emitting
    <3>2. CASE Publish(e)
      BY <3>2 DEF Publish, Goes
    <3>3. CASE Finish(e) \/ MarkCompleted(e)
      BY <3>3 DEF Finish, MarkCompleted, Goes, emitting
    <3> QED
      BY <1>4, <3>1, <3>2, <3>3
  <2> QED
    BY <2>1 DEF LockInv, LogIsContiguous
<1>5. ASSUME NEW e \in Executions, EmitFails(e)
      PROVE  EmitInv'
  <2>1. /\ lock = e /\ lock' = Nobody /\ UNCHANGED log
        /\ epc' = [epc EXCEPT ![e] = "raised"]
        /\ pending' \in [Executions -> Nat]
    BY <1>5 DEF EmitFails, Goes, LockInv
  <2>2. \A x \in Executions : epc'[x] \notin {"locked", "inserted"}
    BY <2>1 DEF LockInv
  <2> QED
    BY <2>1, <2>2 DEF LockInv, LogIsContiguous
<1>6. ASSUME NEW c \in Clients, ServerStep(c) \/ ClientStep(c)
      PROVE  EmitInv'
  <2>1. UNCHANGED <<emitting, epc>>
    BY <1>6
    DEF ServerStep, ClientStep, Replay, ReplayFails, FallbackRead, FallbackMark,
        FallbackFails, Get, Heartbeat, EndOrWait, Connect, Disconnect,
        DisconnectEarly
  <2> QED
    BY <2>1 DEF emitting, LockInv, LogIsContiguous
<1>7. CASE Crash
  BY <1>7 DEF Crash, LockInv, LogIsContiguous
<1>8. CASE UNCHANGED vars
  BY <1>8 DEF vars, emitting, LockInv, LogIsContiguous
<1> QED
  BY <1>1, <1>2, <1>3, <1>4, <1>5, <1>6, <1>7, <1>8 DEF Next, ExecutionStep

\* Whatever executions overlap, fail or crash, the sequence_no's of the log are
\* 0, 1, 2, ... in commit order: the row lock serialises number and commit.
THEOREM NumbersAreContiguous == Spec => []LogIsContiguous
<1>1. EmitInv /\ [Next]_vars => EmitInv'
  BY EmitStep
<1>2. EmitInv => LogIsContiguous
  BY DEF EmitInv
<1> QED
  BY <1>1, <1>2, InitEmit, PTL DEF Spec

-----------------------------------------------------------------------------
(* Sequences of numbers                                                    *)

LEMMA RangeOfSequence ==
  ASSUME NEW s \in Seq(Nat)
  PROVE  /\ \A n : n \in Range(s) <=> \E i \in 1 .. Len(s) : n = s[i]
         /\ Range(s) \subseteq Nat
<1>1. DOMAIN s = 1 .. Len(s) /\ \A i \in 1 .. Len(s) : s[i] \in Nat
  OBVIOUS
<1> QED
  BY <1>1 DEF Range

LEMMA RangeOfAppend ==
  ASSUME NEW s \in Seq(Nat), NEW n \in Nat
  PROVE  Append(s, n) \in Seq(Nat) /\ Range(Append(s, n)) = Range(s) \union {n}
<1> DEFINE a == Append(s, n)
<1>1. /\ a \in Seq(Nat) /\ Len(a) = Len(s) + 1 /\ Len(s) \in Nat
      /\ \A i \in 1 .. Len(s) : a[i] = s[i]
      /\ a[Len(s) + 1] = n
  OBVIOUS
<1> HIDE DEF a
<1>2. \A x : x \in Range(a) <=> \E i \in 1 .. Len(s) + 1 : x = a[i]
  BY <1>1, RangeOfSequence
<1>3. ASSUME NEW x \in Range(a) PROVE x = n \/ x \in Range(s)
  <2>1. PICK i \in 1 .. Len(s) + 1 : x = a[i]
    BY <1>2
  <2>2. i \in 1 .. Len(s) \/ i = Len(s) + 1
    BY <1>1, <2>1
  <2> QED
    BY <1>1, <2>1, <2>2, RangeOfSequence
<1>4. ASSUME NEW x, x = n \/ x \in Range(s) PROVE x \in Range(a)
  <2>1. CASE x = n
    <3>1. Len(s) + 1 \in 1 .. Len(s) + 1
      BY <1>1
    <3> QED
      BY <1>1, <1>2, <2>1, <3>1
  <2>2. CASE x \in Range(s)
    <3>1. PICK i \in 1 .. Len(s) : x = s[i]
      BY <2>2, RangeOfSequence
    <3>2. i \in 1 .. Len(s) + 1
      BY <1>1, <3>1
    <3> QED
      BY <1>1, <1>2, <3>1, <3>2
  <2> QED
    BY <1>4, <2>1, <2>2
<1>5. Range(a) = Range(s) \union {n}
  BY <1>3, <1>4
<1> QED
  BY <1>1, <1>5 DEF a

LEMMA RangeOfConcat ==
  ASSUME NEW s \in Seq(Nat), NEW t \in Seq(Nat)
  PROVE  s \o t \in Seq(Nat) /\ Range(s \o t) = Range(s) \union Range(t)
<1> DEFINE a == s \o t
<1>1. /\ a \in Seq(Nat)
      /\ Len(a) = Len(s) + Len(t) /\ Len(s) \in Nat /\ Len(t) \in Nat
      /\ \A i \in 1 .. Len(s) : a[i] = s[i]
      /\ \A i \in 1 .. Len(t) : a[Len(s) + i] = t[i]
  OBVIOUS
<1> HIDE DEF a
<1>2. \A x : x \in Range(a) <=> \E i \in 1 .. Len(a) : x = a[i]
  BY <1>1, RangeOfSequence
<1>3. ASSUME NEW x \in Range(a) PROVE x \in Range(s) \union Range(t)
  <2>1. PICK i \in 1 .. Len(a) : x = a[i]
    BY <1>2
  <2>2. CASE i \in 1 .. Len(s)
    BY <1>1, <2>1, <2>2, RangeOfSequence
  <2>3. CASE i \notin 1 .. Len(s)
    <3>1. i - Len(s) \in 1 .. Len(t) /\ i = Len(s) + (i - Len(s))
      BY <1>1, <2>1, <2>3
    <3>2. x = t[i - Len(s)]
      BY <1>1, <2>1, <3>1
    <3> QED
      BY <3>1, <3>2, RangeOfSequence
  <2> QED
    BY <2>2, <2>3
<1>4. ASSUME NEW x \in Range(s) \union Range(t) PROVE x \in Range(a)
  <2>1. CASE x \in Range(s)
    <3>1. PICK i \in 1 .. Len(s) : x = s[i]
      BY <2>1, RangeOfSequence
    <3>2. i \in 1 .. Len(a) /\ x = a[i]
      BY <1>1, <3>1
    <3> QED
      BY <1>2, <3>2
  <2>2. CASE x \in Range(t)
    <3>1. PICK i \in 1 .. Len(t) : x = t[i]
      BY <2>2, RangeOfSequence
    <3>2. Len(s) + i \in 1 .. Len(a)
      BY <1>1, <3>1
    <3>3. x = a[Len(s) + i]
      BY <1>1, <3>1
    <3> QED
      BY <1>2, <3>2, <3>3
  <2> QED
    BY <1>4, <2>1, <2>2
<1>5. Range(a) = Range(s) \union Range(t)
  BY <1>3, <1>4
<1> QED
  BY <1>1, <1>5 DEF a

LEMMA RangeOfQueue ==
  ASSUME NEW s \in Seq(Nat), s # <<>>
  PROVE  /\ Head(s) \in Nat /\ Tail(s) \in Seq(Nat)
         /\ Range(s) = {Head(s)} \union Range(Tail(s))
<1> DEFINE t == Tail(s)
<1>1. /\ t \in Seq(Nat) /\ Head(s) \in Nat
      /\ Len(s) \in Nat \ {0} /\ Head(s) = s[1] /\ Len(t) = Len(s) - 1
      /\ \A i \in 1 .. Len(s) - 1 : t[i] = s[i + 1]
  OBVIOUS
<1> HIDE DEF t
<1>2. \A x : x \in Range(t) <=> \E i \in 1 .. Len(s) - 1 : x = t[i]
  BY <1>1, RangeOfSequence
<1>3. ASSUME NEW x \in Range(s) PROVE x = Head(s) \/ x \in Range(t)
  <2>1. PICK i \in 1 .. Len(s) : x = s[i]
    BY RangeOfSequence
  <2>2. i = 1 \/ (i - 1 \in 1 .. Len(s) - 1 /\ i = (i - 1) + 1)
    BY <1>1, <2>1
  <2> QED
    BY <1>1, <1>2, <2>1, <2>2
<1>4. ASSUME NEW x \in Range(t) PROVE x \in Range(s)
  <2>1. PICK i \in 1 .. Len(s) - 1 : x = t[i]
    BY <1>2
  <2>2. i + 1 \in 1 .. Len(s) /\ x = s[i + 1]
    BY <1>1, <2>1
  <2> QED
    BY <2>2, RangeOfSequence
<1>5. Head(s) \in Range(s)
  <2>1. 1 \in 1 .. Len(s) /\ Head(s) = s[1]
    BY <1>1
  <2> QED
    BY <2>1, RangeOfSequence
<1>6. Range(s) = {Head(s)} \union Range(t)
  BY <1>3, <1>4, <1>5
<1> QED
  BY <1>1, <1>6 DEF t

LEMMA RangeOfLog ==
  ASSUME log \in Seq(Nat), LogIsContiguous
  PROVE  Range(log) = 0 .. Len(log) - 1
<1>1. Len(log) \in Nat
  OBVIOUS
<1>2. \A i \in 1 .. Len(log) : log[i] = i - 1
  BY DEF LogIsContiguous
<1>3. \A n \in 0 .. Len(log) - 1 : n + 1 \in 1 .. Len(log) /\ log[n + 1] = n
  BY <1>1, <1>2
<1>4. \A n \in Range(log) : n \in 0 .. Len(log) - 1
  BY <1>1, <1>2, RangeOfSequence
<1>5. \A n \in 0 .. Len(log) - 1 : n \in Range(log)
  BY <1>3, RangeOfSequence
<1> QED
  BY <1>4, <1>5

LEMMA IntervalSize ==
  ASSUME NEW a \in Nat, NEW b \in Nat, a <= b, NEW S, S = a .. b - 1
  PROVE  Cardinality(S) = b - a
<1> DEFINE last == b - 1
<1>1. last \in Int /\ S = a .. last
  OBVIOUS
<1> HIDE DEF last
<1>2. Cardinality(S) = IF a > last THEN 0 ELSE last - a + 1
  BY <1>1, FS_Interval
<1> QED
  BY <1>2 DEF last

\* A replay sends what the log has from resume[c] on.
LEMMA NewerIsRest ==
  ASSUME log \in Seq(Nat), LogIsContiguous, NEW c \in Clients,
         resume[c] \in 0 .. Len(log)
  PROVE  /\ Newer(c) \in Seq(Nat)
         /\ Len(Newer(c)) = Len(log) - resume[c]
         /\ \A i \in 1 .. Len(log) - resume[c] : Newer(c)[i] = resume[c] + i - 1
<1> DEFINE first == resume[c]
           newer == {n \in Range(log) : n >= first}
           smaller(n) == {m \in newer : m < n}
           ith(i) == CHOOSE n \in newer : Cardinality(smaller(n)) = i - 1
<1>1. Len(log) \in Nat /\ first \in 0 .. Len(log)
  OBVIOUS
<1>2. newer = first .. Len(log) - 1
  BY <1>1, RangeOfLog
<1>3. Cardinality(newer) = Len(log) - first
  <2>1. first \in Nat /\ first <= Len(log)
    BY <1>1
  <2> HIDE DEF first, newer
  <2> QED
    BY <1>1, <1>2, <2>1, IntervalSize
<1>4. ASSUME NEW n \in newer PROVE Cardinality(smaller(n)) = n - first
  <2>1. n \in first .. Len(log) - 1
    BY <1>2
  <2>2. smaller(n) = first .. n - 1
    BY <1>1, <1>2, <2>1
  <2>3. first \in Nat /\ n \in Nat /\ first <= n
    BY <1>1, <2>1
  <2> HIDE DEF first, smaller
  <2> QED
    BY <2>2, <2>3, IntervalSize
<1> HIDE DEF first, newer, smaller
<1>5. ASSUME NEW i \in 1 .. Len(log) - first PROVE ith(i) = first + i - 1
  <2>1. first + i - 1 \in newer /\ (first + i - 1) - first = i - 1
    BY <1>1, <1>2
  <2>2. Cardinality(smaller(first + i - 1)) = i - 1
    BY <1>4, <2>1
  <2>3. \A n \in newer : n - first = i - 1 => n = first + i - 1
    BY <1>1, <1>2
  <2>4. ith(i) \in newer /\ Cardinality(smaller(ith(i))) = i - 1
    BY <2>1, <2>2
  <2> QED
    BY <1>4, <2>3, <2>4
<1> HIDE DEF ith
<1>6. Newer(c) = [i \in 1 .. Len(log) - first |-> ith(i)]
  BY <1>3 DEF Newer, newer, smaller, first, ith
<1>7. Newer(c) = [i \in 1 .. Len(log) - first |-> first + i - 1]
  BY <1>5, <1>6
<1>8. Len(log) - first \in Nat /\ \A i \in 1 .. Len(log) - first : first + i - 1 \in Nat
  BY <1>1
<1>9. Newer(c) \in Seq(Nat) /\ Len(Newer(c)) = Len(log) - first
  BY <1>7, <1>8
<1> QED
  BY <1>7, <1>9 DEF first

-----------------------------------------------------------------------------
(* What an open stream has                                                 *)

Open == {"replayed", "found", "live", "sent"}

\* The types of the variables a stream works on.
StreamTypes ==
    /\ cpc \in [Clients -> {"away", "connected"} \union Open \union {"closed"}]
    /\ queue \in [Clients -> Seq(Nat)]
    /\ received \in [Clients -> Seq(Nat)]
    /\ resume \in [Clients -> Nat]
    /\ counts \in [EventKinds -> Nat]

\* What a client leaves out when it reconnects, it has.
ResumeFits ==
    \A c \in Clients :
        /\ resume[c] <= Len(log)
        /\ \A n \in Nat : n < resume[c] => n \in Range(received[c])

StreamInv == EmitInv /\ StreamTypes /\ ResumeFits

\* After a replay, or a part of it, a client has what it asks for next time
\* no more.
LEMMA ReplayAdds ==
  ASSUME StreamInv, NEW c \in Clients, NEW n \in 0 .. Len(Newer(c))
  PROVE  LET sent == SubSeq(Newer(c), 1, n) IN
         /\ sent \in Seq(Nat) /\ Len(sent) = n
         /\ \A i \in 1 .. n : sent[i] = resume[c] + i - 1
         /\ received[c] \o sent \in Seq(Nat)
         /\ resume[c] + n <= Len(log)
         /\ \A m \in Nat : m < resume[c] + n => m \in Range(received[c] \o sent)
<1> DEFINE sent == SubSeq(Newer(c), 1, n)
<1>1. /\ resume[c] \in 0 .. Len(log) /\ Len(log) \in Nat
      /\ received[c] \in Seq(Nat)
      /\ \A m \in Nat : m < resume[c] => m \in Range(received[c])
  BY DEF StreamInv, StreamTypes, EmitInv, EmitTypes, ResumeFits
<1>2. /\ Newer(c) \in Seq(Nat) /\ Len(Newer(c)) = Len(log) - resume[c]
      /\ \A i \in 1 .. Len(log) - resume[c] : Newer(c)[i] = resume[c] + i - 1
  BY <1>1, NewerIsRest DEF StreamInv, EmitInv, EmitTypes
<1>3. n \in Nat /\ n <= Len(log) - resume[c]
  BY <1>1, <1>2
<1>4. /\ sent \in Seq(Nat) /\ Len(sent) = n
      /\ \A i \in 1 .. n : sent[i] = resume[c] + i - 1
  <2>1. /\ 1 \in Int /\ n \in Int /\ n - 1 + 1 = n
        /\ (IF 1 <= n THEN n - 1 + 1 ELSE 0) = n
        /\ \A i \in 1 .. n : 1 + i - 1 = i /\ i \in 1 .. Len(log) - resume[c]
    BY <1>1, <1>3
  <2>2. \A i \in 1 .. n : Newer(c)[i] \in Nat
    BY <1>2, <2>1, ElementOfSeq
  <2>3. /\ sent \in Seq(Nat) /\ Len(sent) = IF 1 <= n THEN n - 1 + 1 ELSE 0
        /\ \A i \in 1 .. n - 1 + 1 : sent[i] = Newer(c)[1 + i - 1]
    <3> HIDE DEF sent
    <3>1. sent = SubSeq(Newer(c), 1, n)
      BY DEF sent
    <3> QED
      BY <2>1, <2>2, <3>1, SubSeqProperties
  <2> HIDE DEF sent
  <2>4. \A i \in 1 .. n : sent[i] = Newer(c)[i]
    BY <2>1, <2>3
  <2> QED
    BY <1>2, <2>1, <2>3, <2>4
<1> HIDE DEF sent
<1>5. received[c] \o sent \in Seq(Nat)
      /\ Range(received[c] \o sent) = Range(received[c]) \union Range(sent)
  BY <1>1, <1>4, RangeOfConcat
<1>6. ASSUME NEW m \in Nat, m < resume[c] + n
      PROVE  m \in Range(received[c] \o sent)
  <2>1. CASE m < resume[c]
    BY <1>1, <1>5, <2>1
  <2>2. CASE m >= resume[c]
    <3> DEFINE j == m - resume[c] + 1
    <3>1. j \in 1 .. n /\ m = resume[c] + j - 1
      BY <1>1, <1>3, <1>6, <2>2
    <3> HIDE DEF j
    <3>2. sent[j] = m
      BY <1>4, <3>1
    <3>3. m \in Range(sent)
      BY <1>4, <3>1, <3>2, RangeOfSequence
    <3> QED
      BY <1>5, <3>3
  <2> QED
    BY <1>1, <2>1, <2>2
<1> QED
  BY <1>1, <1>3, <1>4, <1>5, <1>6 DEF sent

\* The whole of a replay
LEMMA ReplayIsAll ==
  ASSUME StreamInv, NEW c \in Clients, Replay(c)
  PROVE  /\ received' = [received EXCEPT ![c] = received[c] \o SubSeq(Newer(c), 1, Len(Newer(c)))]
         /\ resume' = [resume EXCEPT ![c] = resume[c] + Len(Newer(c))]
         /\ resume[c] + Len(Newer(c)) = Len(log)
<1>1. resume[c] \in 0 .. Len(log) /\ Len(log) \in Nat /\ resume \in [Clients -> Nat]
  BY DEF StreamInv, StreamTypes, EmitInv, EmitTypes, ResumeFits
<1>2. /\ Newer(c) \in Seq(Nat) /\ Len(Newer(c)) = Len(log) - resume[c]
      /\ \A i \in 1 .. Len(log) - resume[c] : Newer(c)[i] = resume[c] + i - 1
  BY <1>1, NewerIsRest DEF StreamInv, EmitInv, EmitTypes
<1>3. SubSeq(Newer(c), 1, Len(Newer(c))) = Newer(c)
  BY <1>2
<1>4. (IF Newer(c) = <<>> THEN resume[c] ELSE Last(Newer(c)) + 1) = resume[c] + Len(Newer(c))
  <2>1. CASE Newer(c) = <<>>
    BY <1>1, <2>1
  <2>2. CASE Newer(c) # <<>>
    <3>1. Len(Newer(c)) \in 1 .. Len(log) - resume[c]
      BY <1>1, <1>2, <2>2
    <3>2. Newer(c)[Len(Newer(c))] = resume[c] + Len(Newer(c)) - 1
      BY <1>2, <3>1
    <3> QED
      BY <1>1, <2>2, <3>1, <3>2 DEF Last
  <2> QED
    BY <2>1, <2>2
<1>5. /\ received' = [received EXCEPT ![c] = received[c] \o Newer(c)]
      /\ resume' = [resume EXCEPT ![c] = IF Newer(c) = <<>> THEN resume[c]
                                         ELSE Last(Newer(c)) + 1]
  BY Zenon DEF Replay
<1>6. resume' = [resume EXCEPT ![c] = resume[c] + Len(Newer(c))]
  BY <1>4, <1>5, Zenon
<1>7. received' = [received EXCEPT ![c] = received[c] \o SubSeq(Newer(c), 1, Len(Newer(c)))]
  BY <1>3, <1>5, Zenon
<1> QED
  BY <1>1, <1>2, <1>6, <1>7

LEMMA StreamInit == Init => StreamInv
<1> SUFFICES ASSUME Init PROVE StreamInv
  OBVIOUS
<1>1. EmitInv
  BY InitEmit
<1>2. StreamTypes
  BY DEF Init, StreamTypes
<1>3. ResumeFits
  BY DEF Init, ResumeFits
<1> QED
  BY <1>1, <1>2, <1>3 DEF StreamInv

LEMMA StreamStep ==
  ASSUME StreamInv, [Next]_vars
  PROVE  StreamInv'
<1>1. EmitInv /\ EmitInv'
  BY EmitStep DEF StreamInv
<1>2. StreamTypes /\ ResumeFits /\ EmitTypes /\ Len(log) \in Nat
  BY DEF StreamInv, EmitInv, EmitTypes
<1> USE DEF StreamTypes
<1>3. ASSUME NEW e \in Executions, Begin(e) \/ ExecutionStep(e)
      PROVE  StreamInv'
  <2>1. /\ UNCHANGED <<cpc, received, resume>>
        /\ counts' \in [EventKinds -> Nat]
    <3>1. CASE Begin(e)
      BY <1>2, <3>1 DEF Begin, Happens, streams, EventKinds
    <3>2. CASE EmitFails(e)
      BY <1>2, <3>2 DEF EmitFails, Happens, streams, EventKinds
    <3>3. CASE ExecutionStep(e) /\ ~EmitFails(e)
      BY <1>2, <3>3 DEF ExecutionStep, Lock, Insert, Commit, Publish, Finish,
                        MarkCompleted, streams
    <3> QED
      BY <1>3, <3>1, <3>2, <3>3
  <2>2. queue' \in [Clients -> Seq(Nat)]
    <3>1. CASE Publish(e)
      <4>1. pending[e] \in Nat
        BY <1>2 DEF EmitTypes
      <4>2. \A c \in Clients : Append(queue[c], pending[e]) \in Seq(Nat)
        BY <1>2, <4>1, RangeOfAppend
      <4> QED
        BY <1>2, <3>1, <4>2 DEF Publish
    <3>2. CASE ~Publish(e)
      <4>1. UNCHANGED queue
        BY <1>3, <3>2 DEF Begin, ExecutionStep, Lock, Insert, Commit, EmitFails,
                          Finish, MarkCompleted, streams
      <4> QED
        BY <1>2, <4>1
    <3> QED
      BY <3>1, <3>2
  <2>3. Len(log') >= Len(log) /\ Len(log') \in Nat
    <3>1. CASE Commit(e)
      BY <1>1, <1>2, <3>1 DEF Commit, EmitTypes
    <3>2. CASE ~Commit(e)
      <4>1. UNCHANGED log
        BY <1>3, <3>2 DEF Begin, ExecutionStep, Lock, Insert, Publish, EmitFails,
                          Finish, MarkCompleted, emitting
      <4> QED
        BY <1>2, <4>1
    <3> QED
      BY <3>1, <3>2
  <2>4. StreamTypes'
    BY <1>2, <2>1, <2>2
  <2>5. ResumeFits'
    BY <1>2, <2>1, <2>3 DEF ResumeFits
  <2> QED
    BY <1>1, <2>4, <2>5 DEF StreamInv
<1>4. ASSUME NEW c \in Clients, ServerStep(c) \/ ClientStep(c)
      PROVE  StreamInv'
  <2>1. UNCHANGED log
    BY <1>4 DEF ServerStep, ClientStep, Replay, ReplayFails, FallbackRead, FallbackMark,
        FallbackFails, Get, Heartbeat, EndOrWait, Connect, Disconnect,
        DisconnectEarly, emitting
  <2>2. /\ cpc' \in [Clients -> {"away", "connected"} \union Open \union {"closed"}]
        /\ counts' \in [EventKinds -> Nat]
    <3>1. UNCHANGED counts \/ \E k \in EventKinds : counts' = [counts EXCEPT ![k] = counts[k] + 1]
      <4>1. CASE Connect(c)
        BY <4>1 DEF Connect, Happens, EventKinds
      <4>2. CASE ReplayFails(c)
        BY <4>2 DEF ReplayFails, Happens, EventKinds
      <4>3. CASE FallbackFails(c)
        BY <4>3 DEF FallbackFails, Happens, EventKinds
      <4>4. CASE ~(Connect(c) \/ ReplayFails(c) \/ FallbackFails(c))
        BY <1>4, <4>4
        DEF ServerStep, ClientStep, Replay, FallbackRead, FallbackMark, Get,
            Heartbeat, EndOrWait, Disconnect, DisconnectEarly
      <4> QED
        BY <4>1, <4>2, <4>3, <4>4
    <3>2. \E to \in {"away", "connected"} \union Open \union {"closed"} :
             cpc' = [cpc EXCEPT ![c] = to]
      BY <1>4, Zenon
      DEF ServerStep, ClientStep, Replay, ReplayFails, FallbackRead, FallbackMark,
          FallbackFails, Get, Heartbeat, EndOrWait, Connect, Disconnect,
          DisconnectEarly, Streams, Open
    <3>3. \A n \in Nat : n + 1 \in Nat
      OBVIOUS
    <3> QED
      BY <1>2, <3>1, <3>2, <3>3
  <2>3. queue' \in [Clients -> Seq(Nat)]
    <3>1. CASE Get(c)
      <4>1. queue[c] # <<>> /\ queue' = [queue EXCEPT ![c] = Tail(queue[c])]
        BY <3>1 DEF Get
      <4>2. Tail(queue[c]) \in Seq(Nat)
        BY <1>2, <4>1, RangeOfQueue
      <4> QED
        BY <1>2, <4>1, <4>2
    <3>2. CASE ~Get(c)
      <4>1. queue' = queue \/ queue' = [queue EXCEPT ![c] = <<>>]
        BY <1>4, <3>2
        DEF ServerStep, ClientStep, Replay, ReplayFails, FallbackRead, FallbackMark,
            FallbackFails, Heartbeat, EndOrWait, Connect, Disconnect, DisconnectEarly
      <4>2. <<>> \in Seq(Nat)
        OBVIOUS
      <4>3. CASE queue' = [queue EXCEPT ![c] = <<>>]
        BY <1>2, <4>2, <4>3
      <4>4. CASE queue' = queue
        BY <1>2, <4>4
      <4> QED
        BY <4>1, <4>3, <4>4
    <3> QED
      BY <3>1, <3>2
  <2>4. /\ received' \in [Clients -> Seq(Nat)] /\ resume' \in [Clients -> Nat]
        /\ ResumeFits'
    <3>1. ASSUME NEW n \in 0 .. Len(Newer(c)),
                 received' = [received EXCEPT ![c] = received[c] \o SubSeq(Newer(c), 1, n)],
                 resume' = [resume EXCEPT ![c] = resume[c] + n]
          PROVE  /\ received' \in [Clients -> Seq(Nat)] /\ resume' \in [Clients -> Nat]
                 /\ ResumeFits'
      <4> DEFINE more == received[c] \o SubSeq(Newer(c), 1, n)
      <4>1. /\ more \in Seq(Nat) /\ resume[c] + n <= Len(log)
            /\ \A m \in Nat : m < resume[c] + n => m \in Range(more)
        BY ReplayAdds
      <4>2. Len(Newer(c)) \in Nat
        BY <1>1, <1>2, NewerIsRest DEF EmitInv, EmitTypes, ResumeFits
      <4>3. resume[c] + n \in Nat
        BY <1>2, <4>2
      <4>4. received' = [received EXCEPT ![c] = more]
        BY <3>1
      <4> HIDE DEF more
      <4>5. received' \in [Clients -> Seq(Nat)] /\ resume' \in [Clients -> Nat]
        BY <1>2, <3>1, <4>1, <4>3, <4>4
      <4>6. ASSUME NEW x \in Clients
            PROVE  /\ resume'[x] <= Len(log')
                   /\ \A m \in Nat : m < resume'[x] => m \in Range(received'[x])
        <5>1. CASE x = c
          BY <1>2, <2>1, <3>1, <4>1, <4>4, <5>1
        <5>2. CASE x # c
          BY <1>2, <2>1, <3>1, <4>4, <5>2 DEF ResumeFits
        <5> QED
          BY <5>1, <5>2
      <4> QED
        BY <4>5, <4>6 DEF ResumeFits
    <3>2. CASE Replay(c)
      <4>1. Len(Newer(c)) \in 0 .. Len(Newer(c))
        BY <1>1, <1>2, NewerIsRest DEF EmitInv, EmitTypes, ResumeFits
      <4> QED
        BY <3>1, <3>2, <4>1, ReplayIsAll
    <3>3. CASE DisconnectEarly(c) /\ cpc[c] = "connected"
      <4>1. PICK n \in 0 .. Len(Newer(c)) :
               /\ received' = [received EXCEPT ![c] = received[c] \o SubSeq(Newer(c), 1, n)]
               /\ resume' = [resume EXCEPT ![c] = IF n = 0 THEN resume[c] ELSE Newer(c)[n] + 1]
        BY <3>3 DEF DisconnectEarly, Streams
      <4>2. (IF n = 0 THEN resume[c] ELSE Newer(c)[n] + 1) = resume[c] + n
        <5>1. resume[c] \in 0 .. Len(log) /\ log \in Seq(Nat) /\ LogIsContiguous
          BY <1>1, <1>2 DEF EmitInv, EmitTypes, ResumeFits
        <5>2. /\ Len(Newer(c)) = Len(log) - resume[c]
              /\ \A i \in 1 .. Len(log) - resume[c] : Newer(c)[i] = resume[c] + i - 1
          BY <5>1, NewerIsRest
        <5>3. n # 0 => n \in 1 .. Len(log) - resume[c]
          BY <1>2, <5>1, <5>2
        <5> QED
          BY <1>2, <5>1, <5>2, <5>3
      <4>3. resume' = [resume EXCEPT ![c] = resume[c] + n]
        BY <4>1, <4>2, Zenon
      <4> QED
        BY <3>1, <4>1, <4>3
    <3>4. CASE Get(c)
      <4> DEFINE more == Append(received[c], Head(queue[c]))
      <4>1. queue[c] # <<>> /\ received' = [received EXCEPT ![c] = more] /\ UNCHANGED resume
        BY <3>4 DEF Get
      <4>2. more \in Seq(Nat) /\ Range(received[c]) \subseteq Range(more)
        <5>1. Head(queue[c]) \in Nat
          BY <1>2, <4>1, RangeOfQueue
        <5> QED
          BY <1>2, <5>1, RangeOfAppend
      <4> HIDE DEF more
      <4>3. \A x \in Clients : Range(received[x]) \subseteq Range(received'[x])
        BY <1>2, <4>1, <4>2
      <4> QED
        BY <1>2, <2>1, <4>1, <4>2, <4>3 DEF ResumeFits
    <3>5. CASE UNCHANGED <<received, resume>>
      BY <1>2, <2>1, <3>5 DEF ResumeFits
    <3> QED
      BY <1>4, <3>2, <3>3, <3>4, <3>5
      DEF ServerStep, ClientStep, ReplayFails, FallbackRead, FallbackMark,
          FallbackFails, Heartbeat, EndOrWait, Connect, Disconnect, DisconnectEarly,
          Streams
  <2> QED
    BY <1>1, <2>2, <2>3, <2>4 DEF StreamInv
<1>5. CASE Crash
  <2>1. /\ cpc' = [c \in Clients |-> IF cpc[c] = "closed" THEN "closed" ELSE "away"]
        /\ queue' = [c \in Clients |-> <<>>]
        /\ counts' \in [EventKinds -> Nat]
        /\ UNCHANGED <<log, received, resume>>
    BY <1>2, <1>5 DEF Crash, Happens, EventKinds
  <2>2. StreamTypes'
    BY <1>2, <2>1
  <2>3. ResumeFits'
    BY <1>2, <2>1 DEF ResumeFits
  <2> QED
    BY <1>1, <2>2, <2>3 DEF StreamInv
<1>6. CASE UNCHANGED vars
  BY <1>1, <1>2, <1>6 DEF vars, emitting, streams, StreamInv, ResumeFits
<1> QED
  BY <1>3, <1>4, <1>5, <1>6 DEF Next

-----------------------------------------------------------------------------
(* Nothing is missed                                                       *)

\* What client c has, or will have, of the log
Reaching(c) == Range(received[c]) \union Range(queue[c]) \union InPublication

LEMMA MissedStep ==
  ASSUME StreamInv, StreamInv', NothingMissed, [Next]_vars,
         counts'["faults"] = 0,
         NEW x \in Clients, cpc'[x] \in Open
  PROVE  Range(log)' \subseteq Reaching(x)'
<1>1. /\ EmitTypes /\ StreamTypes /\ EmitTypes' /\ StreamTypes'
      /\ EmitInv /\ EmitInv'
  BY DEF StreamInv, EmitInv
<1>2. counts["faults"] \in Nat
  BY <1>1 DEF StreamTypes, EventKinds
<1>3. ASSUME counts["faults"] = 0, cpc[x] \in Open
      PROVE  Range(log) \subseteq Reaching(x)
  BY <1>3 DEF NothingMissed, Open, Reaching
<1>4. ASSUME counts["faults"] = 0, cpc[x] \in Open,
             UNCHANGED <<log, received[x], queue[x]>>,
             InPublication \subseteq InPublication'
      PROVE  Range(log)' \subseteq Reaching(x)'
  BY <1>3, <1>4 DEF Reaching
<1>5. ASSUME NEW e \in Executions, Begin(e) \/ ExecutionStep(e)
      PROVE  Range(log)' \subseteq Reaching(x)'
  <2>1. CASE Begin(e) \/ Lock(e) \/ Insert(e) \/ Finish(e) \/ MarkCompleted(e)
    <3>1. UNCHANGED <<log, received, queue, cpc>> /\ counts["faults"] = counts'["faults"]
      BY <1>1, <2>1
      DEF Begin, Lock, Insert, Finish, MarkCompleted, emitting, streams, Happens,
          StreamTypes, EventKinds
    <3>2. InPublication \subseteq InPublication'
      <4>1. /\ epc[e] # "committed"
            /\ \A y \in Executions \ {e} : epc'[y] = epc[y] /\ pending'[y] = pending[y]
        BY <1>1, <2>1
        DEF Begin, Lock, Insert, Finish, MarkCompleted, emitting, Goes, EmitTypes
      <4> QED
        BY <4>1 DEF InPublication
    <3> QED
      BY <1>4, <3>1, <3>2
  <2>2. CASE Commit(e)
    <3>1. /\ UNCHANGED <<pending, received, queue, cpc, counts>>
          /\ epc[e] = "inserted" /\ epc' = [epc EXCEPT ![e] = "committed"]
          /\ log' = Append(log, pending[e])
      BY <2>2 DEF Commit, Goes, streams
    <3>2. Range(log') = Range(log) \union {pending[e]}
      BY <1>1, <3>1, RangeOfAppend DEF EmitTypes
    <3>3. pending[e] \in InPublication' /\ InPublication \subseteq InPublication'
      BY <1>1, <3>1 DEF InPublication, EmitTypes
    <3> QED
      BY <1>3, <3>1, <3>2, <3>3 DEF Reaching
  <2>3. CASE Publish(e)
    <3>1. /\ UNCHANGED <<log, received, cpc, counts>>
          /\ epc' = [epc EXCEPT ![e] = "working"]
          /\ pending' = [pending EXCEPT ![e] = 0]
          /\ queue'[x] = IF Subscribed(x) THEN Append(queue[x], pending[e]) ELSE queue[x]
      BY <2>3 DEF Publish, Goes
    <3>2. Subscribed(x)
      BY <3>1 DEF Subscribed, Open
    <3>3. Range(queue'[x]) = Range(queue[x]) \union {pending[e]}
      BY <1>1, <3>1, <3>2, RangeOfAppend DEF EmitTypes, StreamTypes
    <3>4. InPublication \subseteq InPublication' \union {pending[e]}
      BY <1>1, <3>1 DEF InPublication, EmitTypes
    <3> QED
      BY <1>3, <3>1, <3>3, <3>4 DEF Reaching
  <2>4. CASE EmitFails(e)
    <3>1. counts'["faults"] = counts["faults"] + 1
      BY <1>1, <2>4 DEF EmitFails, Happens, StreamTypes, EventKinds
    <3> QED
      BY <1>2, <3>1
  <2> QED
    BY <1>5, <2>1, <2>2, <2>3, <2>4 DEF ExecutionStep
<1>6. ASSUME NEW c \in Clients, ServerStep(c) \/ ClientStep(c)
      PROVE  Range(log)' \subseteq Reaching(x)'
  <2>1. UNCHANGED <<log, epc, pending>>
    BY <1>6
    DEF ServerStep, ClientStep, Replay, ReplayFails, FallbackRead, FallbackMark,
        FallbackFails, Get, Heartbeat, EndOrWait, Connect, Disconnect,
        DisconnectEarly, emitting
  <2>2. InPublication' = InPublication
    BY <2>1 DEF InPublication
  <2>3. CASE ReplayFails(c) \/ FallbackFails(c)
    <3>1. counts'["faults"] = counts["faults"] + 1
      BY <1>1, <2>3 DEF ReplayFails, FallbackFails, Happens, StreamTypes, EventKinds
    <3> QED
      BY <1>2, <3>1
  <2>4. CASE ~(ReplayFails(c) \/ FallbackFails(c))
    <3>1. counts["faults"] = counts'["faults"]
      <4>1. CASE Connect(c)
        BY <1>1, <4>1 DEF Connect, Happens, StreamTypes, EventKinds
      <4>2. CASE ~Connect(c)
        BY <1>6, <2>4, <4>2
        DEF ServerStep, ClientStep, Replay, FallbackRead, FallbackMark, Get,
            Heartbeat, EndOrWait, Disconnect, DisconnectEarly
      <4> QED
        BY <4>1, <4>2
    <3>2. CASE x # c
      <4>1. UNCHANGED <<received[x], queue[x], cpc[x]>>
        BY <1>1, <1>6, <3>2
        DEF ServerStep, ClientStep, Replay, ReplayFails, FallbackRead, FallbackMark,
            FallbackFails, Get, Heartbeat, EndOrWait, Connect, Disconnect,
            DisconnectEarly, Streams, StreamTypes
      <4> QED
        BY <1>4, <2>1, <2>2, <3>1, <4>1
    <3>3. CASE x = c /\ Replay(c)
      <4> DEFINE n == Len(Newer(c))
                 more == received[c] \o SubSeq(Newer(c), 1, n)
      <4>1. n \in 0 .. n
        BY <1>1, NewerIsRest DEF StreamInv, ResumeFits, EmitInv, EmitTypes, StreamTypes
      <4>2. received' = [received EXCEPT ![c] = more] /\ resume[c] + n = Len(log)
        BY <3>3, ReplayIsAll
      <4>3. \A m \in Nat : m < resume[c] + n => m \in Range(more)
        BY <4>1, ReplayAdds
      <4> HIDE DEF n, more
      <4>4. \A m \in 0 .. Len(log) - 1 : m \in Range(more)
        BY <1>1, <4>2, <4>3 DEF EmitTypes
      <4>5. Range(log) \subseteq Range(more)
        BY <1>1, <4>4, RangeOfLog DEF EmitInv, EmitTypes
      <4> QED
        BY <1>1, <2>1, <3>3, <4>2, <4>5 DEF Reaching, StreamTypes
    <3>4. CASE x = c /\ Get(c)
      <4>1. /\ cpc[c] = "live" /\ queue[c] # <<>>
            /\ received' = [received EXCEPT ![c] = Append(received[c], Head(queue[c]))]
            /\ queue' = [queue EXCEPT ![c] = Tail(queue[c])]
        BY <3>4 DEF Get, Streams
      <4>2. Range(queue[c]) = {Head(queue[c])} \union Range(Tail(queue[c]))
        BY <1>1, <4>1, RangeOfQueue DEF StreamTypes
      <4>3. Range(Append(received[c], Head(queue[c]))) = Range(received[c]) \union {Head(queue[c])}
        BY <1>1, <4>1, RangeOfQueue, RangeOfAppend DEF StreamTypes
      <4>4. Range(received'[x]) \union Range(queue'[x]) = Range(received[x]) \union Range(queue[x])
        BY <1>1, <3>4, <4>1, <4>2, <4>3 DEF StreamTypes
      <4> QED
        BY <1>3, <2>1, <2>2, <3>1, <3>4, <4>1, <4>4 DEF Reaching, Open
    <3>5. CASE x = c /\ (FallbackRead(c) \/ FallbackMark(c) \/ Heartbeat(c) \/ EndOrWait(c))
      <4>1. cpc[c] \in Open /\ UNCHANGED <<received, queue>>
        BY <3>5 DEF FallbackRead, FallbackMark, Heartbeat, EndOrWait, Streams, Open
      <4> QED
        BY <1>4, <2>1, <2>2, <3>1, <3>5, <4>1
    <3>6. CASE x = c /\ ClientStep(c)
      <4>1. cpc'[c] \in {"connected", "away"}
        BY <1>1, <3>6 DEF ClientStep, Connect, Disconnect, DisconnectEarly, Streams, StreamTypes
      <4> QED
        BY <3>6, <4>1 DEF Open
    <3> QED
      BY <1>6, <2>4, <3>2, <3>3, <3>4, <3>5, <3>6 DEF ServerStep
  <2> QED
    BY <2>3, <2>4
<1>7. CASE Crash
  BY <1>7 DEF Crash, Open
<1>8. CASE UNCHANGED vars
  <2>1. UNCHANGED <<log, epc, pending, received, queue, cpc, counts>>
    BY <1>8 DEF vars, emitting, streams
  <2> QED
    BY <1>4, <2>1 DEF InPublication
<1> QED
  BY <1>5, <1>6, <1>7, <1>8 DEF Next

\* Whatever executions overlap, browsers leave and return, or the process
\* crashes: until a database call fails, no open stream misses an event.  The
\* queue is registered before the history is read, so an event is in the replay
\* or still on its way.
THEOREM EventsAreNotMissed == Spec => []NothingMissed
<1> DEFINE Inv == StreamInv /\ NothingMissed
<1>1. Init => Inv
  <2>1. Init => NothingMissed
    BY DEF Init, NothingMissed
  <2> QED
    BY <2>1, StreamInit
<1>2. Inv /\ [Next]_vars => Inv'
  <2> SUFFICES ASSUME Inv, [Next]_vars PROVE Inv'
    OBVIOUS
  <2>1. StreamInv'
    BY StreamStep
  <2>2. \A c \in Clients : counts'["faults"] = 0 /\ cpc'[c] \in Open
                              => Range(log)' \subseteq Reaching(c)'
    BY <2>1, MissedStep
  <2>3. NothingMissed'
    BY <2>2 DEF NothingMissed, Reaching, Open
  <2> QED
    BY <2>1, <2>3
<1>3. Inv => NothingMissed
  OBVIOUS
<1> QED
  BY <1>1, <1>2, <1>3, PTL DEF Spec

-----------------------------------------------------------------------------
(* Types                                                                   *)

\* The types of the other variables.
EndTypes ==
    /\ status \in Ended \union {"active"}
    /\ verdict \in [Executions -> Ended]
    /\ mark \in Ended \union {"none"}
    /\ found \in [Clients -> Ended]
    /\ heard \in [Clients -> Ended \union {"none"}]
    /\ since \in [Clients -> SUBSET Ended]

LEMMA TypesStep ==
  ASSUME TypeOK, StreamInv, StreamInv', [Next]_vars
  PROVE  TypeOK'
<1>1. /\ log' \in Seq(Nat) /\ lock' \in Executions \union {Nobody}
      /\ epc' \in [Executions -> {"idle", "working", "locked", "inserted",
                                  "committed", "raised", "ended"}]
      /\ pending' \in [Executions -> Nat]
      /\ cpc' \in [Clients -> {"away", "connected", "replayed", "found", "live",
                               "sent", "closed"}]
      /\ queue' \in [Clients -> Seq(Nat)] /\ received' \in [Clients -> Seq(Nat)]
      /\ resume' \in [Clients -> Nat] /\ counts' \in [EventKinds -> Nat]
  BY DEF StreamInv, EmitInv, EmitTypes, StreamTypes, Open
<1> USE DEF EndTypes
<1>2. EndTypes
  BY DEF TypeOK
<1>3. ASSUME NEW e \in Executions, Begin(e) PROVE EndTypes'
  BY <1>2, <1>3 DEF Begin, streams
<1>4. ASSUME NEW e \in Executions, ExecutionStep(e) PROVE EndTypes'
  <2>1. CASE Finish(e)
    BY <1>2, <2>1 DEF Finish
  <2>2. CASE MarkCompleted(e)
    BY <1>2, <2>2 DEF MarkCompleted, streams, Ended
  <2>3. CASE ~Finish(e) /\ ~MarkCompleted(e)
    BY <1>2, <1>4, <2>3
    DEF ExecutionStep, Lock, Insert, Commit, Publish, EmitFails, ending, streams
  <2> QED
    BY <2>1, <2>2, <2>3
<1>5. ASSUME NEW c \in Clients, ServerStep(c) \/ ClientStep(c) PROVE EndTypes'
  <2>1. CASE FallbackRead(c)
    <3>1. CASE cpc'[c] = "found"
      <4>1. status \in Ended
        BY <2>1, <3>1 DEF FallbackRead, Streams, StreamInv, StreamTypes
      <4> QED
        BY <1>2, <2>1, <3>1, <4>1 DEF FallbackRead, ending
    <3>2. CASE cpc'[c] # "found"
      BY <1>2, <2>1, <3>2 DEF FallbackRead, ending
    <3> QED
      BY <3>1, <3>2
  <2>2. CASE FallbackMark(c)
    BY <1>2, <2>2 DEF FallbackMark, Ended
  <2>3. CASE EndOrWait(c)
    BY <1>2, <2>3 DEF EndOrWait, ending
  <2>4. CASE ClientStep(c)
    BY <1>2, <2>4 DEF ClientStep, Connect, Disconnect, DisconnectEarly, ending, Ended
  <2>5. CASE Replay(c) \/ ReplayFails(c) \/ FallbackFails(c) \/ Get(c) \/ Heartbeat(c)
    BY <1>2, <2>5
    DEF Replay, ReplayFails, FallbackFails, Get, Heartbeat, ending
  <2> QED
    BY <1>5, <2>1, <2>2, <2>3, <2>4, <2>5 DEF ServerStep
<1>6. ASSUME Crash PROVE EndTypes'
  BY <1>2, <1>6 DEF Crash, Ended
<1>7. ASSUME UNCHANGED vars PROVE EndTypes'
  BY <1>2, <1>7 DEF vars, ending, streams
<1> HIDE DEF EndTypes
<1>8. EndTypes'
  BY <1>3, <1>4, <1>5, <1>6, <1>7 DEF Next
<1> QED
  BY <1>1, <1>8 DEF TypeOK, EndTypes

\* The log, the executions, the queues and the streams keep their types.
THEOREM TypeCorrect == Spec => []TypeOK
<1> DEFINE Inv == StreamInv /\ TypeOK
<1>1. Init => Inv
  <2>1. Init => TypeOK
    BY DEF Init, TypeOK, Ended, EventKinds
  <2> QED
    BY <2>1, StreamInit
<1>2. Inv /\ [Next]_vars => Inv'
  BY StreamStep, TypesStep
<1>3. Inv => TypeOK
  OBVIOUS
<1> QED
  BY <1>1, <1>2, <1>3, PTL DEF Spec

-----------------------------------------------------------------------------
(* Sequences without gaps                                                  *)

\* Nothing comes before all that is earlier.
PrefixClosed(s) == \A i \in DOMAIN s : 0 .. s[i] \subseteq {s[j] : j \in 1 .. i}

LEMMA ConcatIsClosed ==
  ASSUME NEW s \in Seq(Nat), NEW t \in Seq(Nat), PrefixClosed(s),
         \A i \in 1 .. Len(t) : \A m \in 0 .. t[i] :
             m \in Range(s) \/ \E j \in 1 .. i : m = t[j]
  PROVE  PrefixClosed(s \o t)
<1> DEFINE a == s \o t
<1>1. /\ Len(s) \in Nat /\ Len(t) \in Nat
      /\ DOMAIN s = 1 .. Len(s) /\ DOMAIN a = 1 .. Len(s) + Len(t)
      /\ \A i \in 1 .. Len(s) : a[i] = s[i]
      /\ \A i \in 1 .. Len(t) : a[Len(s) + i] = t[i]
  OBVIOUS
<1> HIDE DEF a
<1>2. ASSUME NEW i \in DOMAIN a, NEW m \in 0 .. a[i]
      PROVE  \E j \in 1 .. i : m = a[j]
  <2>1. CASE i <= Len(s)
    <3>1. i \in 1 .. Len(s) /\ a[i] = s[i]
      BY <1>1, <2>1
    <3>2. i \in DOMAIN s
      BY <1>1, <3>1
    <3>3. m \in {s[j] : j \in 1 .. i}
      BY <1>2, <3>1, <3>2 DEF PrefixClosed
    <3>4. PICK j \in 1 .. i : m = s[j]
      BY <3>3
    <3>5. j \in 1 .. Len(s)
      BY <1>1, <3>1
    <3> QED
      BY <1>1, <3>4, <3>5
  <2>2. CASE i > Len(s)
    <3> DEFINE k == i - Len(s)
    <3>1. k \in 1 .. Len(t) /\ i = Len(s) + k /\ a[i] = t[k]
      BY <1>1, <2>2
    <3> HIDE DEF k
    <3>2. m \in Range(s) \/ \E j \in 1 .. k : m = t[j]
      BY <1>2, <3>1
    <3>3. CASE m \in Range(s)
      <4>1. PICK j \in 1 .. Len(s) : m = s[j]
        BY <3>3, RangeOfSequence
      <4> QED
        BY <1>1, <3>1, <4>1
    <3>4. ASSUME NEW j \in 1 .. k, m = t[j] PROVE \E n \in 1 .. i : m = a[n]
      <4>1. j \in 1 .. Len(t) /\ Len(s) + j \in 1 .. i
        BY <1>1, <3>1
      <4> QED
        BY <1>1, <3>4, <4>1
    <3> QED
      BY <3>2, <3>3, <3>4
  <2> QED
    BY <1>1, <2>1, <2>2
<1> QED
  BY <1>2 DEF PrefixClosed, a

LEMMA PrefixIsClosed ==
  ASSUME NEW s \in Seq(Nat), NEW t \in Seq(Nat), PrefixClosed(s \o t)
  PROVE  PrefixClosed(s)
<1> DEFINE a == s \o t
<1>1. /\ Len(s) \in Nat /\ Len(t) \in Nat
      /\ DOMAIN s = 1 .. Len(s) /\ DOMAIN a = 1 .. Len(s) + Len(t)
      /\ \A i \in 1 .. Len(s) : a[i] = s[i]
  OBVIOUS
<1> HIDE DEF a
<1>2. ASSUME NEW i \in 1 .. Len(s), NEW m \in 0 .. s[i]
      PROVE  \E j \in 1 .. i : m = s[j]
  <2>1. i \in DOMAIN a /\ a[i] = s[i]
    BY <1>1
  <2>2. \A n \in 0 .. a[i] : \E j \in 1 .. i : n = a[j]
    BY <2>1 DEF PrefixClosed, a
  <2>3. PICK j \in 1 .. i : m = a[j]
    BY <1>2, <2>1, <2>2
  <2>4. j \in 1 .. Len(s)
    BY <1>1
  <2> QED
    BY <1>1, <2>3, <2>4
<1> QED
  BY <1>1, <1>2 DEF PrefixClosed

LEMMA AppendIsClosed ==
  ASSUME NEW s \in Seq(Nat), NEW n \in Nat, PrefixClosed(s),
         \A m \in 0 .. n : m \in Range(s) \/ m = n
  PROVE  PrefixClosed(Append(s, n))
<1>1. /\ <<n>> \in Seq(Nat) /\ Len(<<n>>) = 1 /\ <<n>>[1] = n
      /\ Append(s, n) = s \o <<n>>
  OBVIOUS
<1> DEFINE t == <<n>>
<1> HIDE DEF t
<1>2. /\ t \in Seq(Nat) /\ Len(t) = 1 /\ t[1] = n
      /\ Append(s, n) = s \o t
  BY <1>1 DEF t
<1>3. ASSUME NEW i \in 1 .. Len(t), NEW m \in 0 .. t[i]
      PROVE  m \in Range(s) \/ \E j \in 1 .. i : m = t[j]
  <2>1. i = 1
    BY <1>2
  <2>2. m \in Range(s) \/ m = n
    BY <1>2, <1>3, <2>1
  <2> QED
    BY <1>2, <2>1, <2>2
<1>4. PrefixClosed(s \o t)
  BY <1>2, <1>3, ConcatIsClosed
<1> QED
  BY <1>2, <1>4

LEMMA ThreeParts ==
  ASSUME NEW s \in Seq(Nat), NEW t \in Seq(Nat), NEW u \in Seq(Nat)
  PROVE  (s \o t) \o u = s \o (t \o u)
BY ConcatAssociative, SMTT(30)

\* queue.get() hands an event from the queue to the client: together they stay.
LEMMA GetMoves ==
  ASSUME NEW s \in Seq(Nat), NEW q \in Seq(Nat), q # <<>>
  PROVE  Append(s, Head(q)) \o Tail(q) = s \o q
<1>1. Head(q) \in Nat /\ <<Head(q)>> \in Seq(Nat) /\ Tail(q) \in Seq(Nat)
  BY HeadTailProperties
<1>2. q = <<Head(q)>> \o Tail(q)
  <2>1. Len(q) \in Nat \ {0} /\ Head(q) = q[1]
    BY EmptySeq
  <2>2. SubSeq(q, 1, Len(q)) = <<q[1]>> \o SubSeq(q, 1 + 1, Len(q))
    <3>1. 1 \in 1 .. Len(q) /\ Len(q) \in 1 .. Len(q)
      BY <2>1
    <3> QED
      BY <3>1, SubSeqRecursiveFirst
  <2>3. Tail(q) = SubSeq(q, 1 + 1, Len(q))
    BY TailIsSubSeq
  <2>4. SubSeq(q, 1, Len(q)) = q
    BY SubSeqFull
  <2> QED
    BY <2>1, <2>2, <2>3, <2>4
<1>3. Append(s, Head(q)) = s \o <<Head(q)>>
  BY <1>1, AppendIsConcat
<1>4. (s \o <<Head(q)>>) \o Tail(q) = s \o (<<Head(q)>> \o Tail(q))
  <2> DEFINE first == <<Head(q)>>
             rest == Tail(q)
  <2>1. first \in Seq(Nat) /\ rest \in Seq(Nat)
    BY <1>1
  <2> HIDE DEF first, rest
  <2>2. (s \o first) \o rest = s \o (first \o rest)
    BY <2>1, ThreeParts
  <2> QED
    BY <2>2, SMT DEF first, rest
<1> QED
  BY <1>2, <1>3, <1>4

\* publish appends to what is still on its way.
LEMMA PublishAppends ==
  ASSUME NEW s \in Seq(Nat), NEW q \in Seq(Nat), NEW n \in Nat
  PROVE  s \o Append(q, n) = Append(s \o q, n)
<1>1. <<n>> \in Seq(Nat) /\ s \o q \in Seq(Nat)
  OBVIOUS
<1>2. Append(q, n) = q \o <<n>> /\ Append(s \o q, n) = (s \o q) \o <<n>>
  BY <1>1, AppendIsConcat
<1>3. (s \o q) \o <<n>> = s \o (q \o <<n>>)
  BY <1>1, ThreeParts
<1> QED
  BY <1>2, <1>3

-----------------------------------------------------------------------------
(* A run executed once                                                     *)

Calm == counts["executions"] <= 1 /\ counts["faults"] = 0

\* There is at most one execution, and none has been before the first.
AloneInv ==
    /\ counts["executions"] = 0 =>
           status = "active" /\ \A e \in Executions : epc[e] = "idle"
    /\ \A e, f \in Executions : epc[e] # "idle" /\ epc[f] # "idle" => e = f

\* The run is active while it emits, and has one verdict afterwards.
VerdictInv ==
    /\ \A e \in Executions : epc[e] \notin {"idle", "ended"} => status = "active"
    /\ \A e \in Executions : epc[e] = "ended" => verdict[e] = status
    /\ mark # "none" => mark = status
    /\ \A c \in Clients : cpc[c] = "found" => found[c] = status

\* What is on its way is in the log and in order.
OrderInv ==
    /\ \A e \in Executions : epc[e] = "committed" => pending[e] \in Range(log)
    /\ \A c \in Clients :
          /\ Range(received[c]) \union Range(queue[c]) \subseteq Range(log)
          /\ PrefixClosed(received[c])
          /\ cpc[c] \in Open => PrefixClosed(received[c] \o queue[c])

ClosedInv ==
    \A c \in Clients : cpc[c] = "closed" =>
        /\ Range(log) \subseteq Range(received[c])
        /\ heard[c] = status /\ status \in Ended

CalmInv == AloneInv /\ VerdictInv /\ OrderInv /\ ClosedInv

\* The bounded events are only counted up.
LEMMA CalmStep ==
  ASSUME TypeOK, [Next]_vars, Calm'
  PROVE  /\ Calm /\ counts["executions"] <= counts'["executions"]
         /\ \A e \in Executions : Begin(e) => counts["executions"] = 0
                                              /\ counts'["executions"] = 1
         /\ \A e \in Executions : ~EmitFails(e)
         /\ \A c \in Clients : ~ReplayFails(c) /\ ~FallbackFails(c)
<1> USE DEF Calm, EventKinds
<1>1. counts \in [EventKinds -> Nat]
  BY DEF TypeOK
<1>2. \/ UNCHANGED counts
      \/ \E k \in EventKinds : counts' = [counts EXCEPT ![k] = counts[k] + 1]
  <2>1. ASSUME NEW e \in Executions, Begin(e) \/ EmitFails(e)
        PROVE  \E k \in EventKinds : counts' = [counts EXCEPT ![k] = counts[k] + 1]
    BY <2>1 DEF Begin, EmitFails, Happens
  <2>2. ASSUME NEW e \in Executions, ExecutionStep(e), ~EmitFails(e)
        PROVE  UNCHANGED counts
    BY <2>2 DEF ExecutionStep, Lock, Insert, Commit, Publish, Finish, MarkCompleted
  <2>3. ASSUME NEW c \in Clients, Connect(c) \/ ReplayFails(c) \/ FallbackFails(c)
        PROVE  \E k \in EventKinds : counts' = [counts EXCEPT ![k] = counts[k] + 1]
    BY <2>3 DEF Connect, ReplayFails, FallbackFails, Happens
  <2>4. ASSUME NEW c \in Clients, ServerStep(c) \/ ClientStep(c),
               ~(Connect(c) \/ ReplayFails(c) \/ FallbackFails(c))
        PROVE  UNCHANGED counts
    BY <2>4
    DEF ServerStep, ClientStep, Replay, FallbackRead, FallbackMark, Get, Heartbeat,
        EndOrWait, Disconnect, DisconnectEarly
  <2>5. Crash => \E k \in EventKinds : counts' = [counts EXCEPT ![k] = counts[k] + 1]
    BY DEF Crash, Happens
  <2>6. UNCHANGED vars => UNCHANGED counts
    BY DEF vars
  <2> QED
    BY <2>1, <2>2, <2>3, <2>4, <2>5, <2>6, Zenon DEF Next
<1> HIDE DEF EventKinds
<1>3. ASSUME NEW k \in EventKinds
      PROVE  counts[k] \in Nat /\ counts'[k] \in Nat /\ counts[k] <= counts'[k]
  <2>1. counts[k] \in Nat
    BY <1>1
  <2>2. CASE UNCHANGED counts
    BY <2>1, <2>2
  <2>3. ASSUME NEW j \in EventKinds, counts' = [counts EXCEPT ![j] = counts[j] + 1]
        PROVE  counts'[k] \in Nat /\ counts[k] <= counts'[k]
    BY <1>1, <2>3
  <2> QED
    BY <1>2, <2>1, <2>2, <2>3
<1> USE DEF EventKinds
<1>4. Calm /\ counts["executions"] <= counts'["executions"]
  <2>1. /\ counts["faults"] \in Nat /\ counts'["faults"] = 0
        /\ counts["faults"] <= counts'["faults"]
    BY <1>3
  <2>2. /\ counts["executions"] \in Nat /\ counts'["executions"] \in Nat
        /\ counts'["executions"] <= 1 /\ counts["executions"] <= counts'["executions"]
    BY <1>3
  <2> QED
    BY <2>1, <2>2
<1>5. \A e \in Executions : Begin(e) => counts'["executions"] = counts["executions"] + 1
  BY <1>1 DEF Begin, Happens
<1>6. \A e \in Executions : EmitFails(e) => counts'["faults"] = counts["faults"] + 1
  BY <1>1 DEF EmitFails, Happens
<1>7. \A c \in Clients : ReplayFails(c) \/ FallbackFails(c)
                            => counts'["faults"] = counts["faults"] + 1
  BY <1>1 DEF ReplayFails, FallbackFails, Happens
<1>8. counts["executions"] \in Nat
  BY <1>1
<1> QED
  BY <1>4, <1>5, <1>6, <1>7, <1>8

LEMMA AloneStep ==
  ASSUME TypeOK, Calm', AloneInv, [Next]_vars
  PROVE  AloneInv'
<1> USE DEF AloneInv
<1>1. /\ epc \in [Executions -> {"idle", "working", "locked", "inserted",
                                 "committed", "raised", "ended"}]
      /\ counts["executions"] \in Nat /\ counts'["executions"] >= counts["executions"]
  BY CalmStep DEF TypeOK, EventKinds
<1>2. ASSUME NEW e \in Executions, Begin(e) PROVE AloneInv'
  <2>1. /\ \A f \in Executions : epc[f] = "idle"
        /\ counts'["executions"] = 1
        /\ epc' = [epc EXCEPT ![e] = "working"]
    BY <1>2, CalmStep DEF Begin, Goes
  <2> QED
    BY <1>1, <2>1
<1>3. ASSUME NEW e \in Executions, ExecutionStep(e) PROVE AloneInv'
  <2>1. /\ epc[e] # "idle" /\ \E to : epc' = [epc EXCEPT ![e] = to]
    BY <1>3
    DEF ExecutionStep, Lock, Insert, Commit, Publish, EmitFails, Finish,
        MarkCompleted, Goes
  <2>2. counts["executions"] # 0 /\ counts'["executions"] # 0
    BY <1>1, <2>1
  <2> QED
    BY <1>1, <2>1, <2>2
<1>4. ASSUME NEW c \in Clients, ServerStep(c) \/ ClientStep(c)
      PROVE  AloneInv'
  <2>1. UNCHANGED <<epc, status>>
    BY <1>4
    DEF ServerStep, ClientStep, Replay, ReplayFails, FallbackRead, FallbackMark,
        FallbackFails, Get, Heartbeat, EndOrWait, Connect, Disconnect,
        DisconnectEarly, ending
  <2> QED
    BY <1>1, <2>1
<1>5. ASSUME Crash PROVE AloneInv'
  <2>1. epc' = [e \in Executions |-> "idle"] /\ UNCHANGED status
    BY <1>5 DEF Crash
  <2> QED
    BY <1>1, <2>1
<1>6. ASSUME UNCHANGED vars PROVE AloneInv'
  BY <1>6 DEF vars, ending
<1> HIDE DEF AloneInv
<1> QED
  BY <1>2, <1>3, <1>4, <1>5, <1>6 DEF Next

LEMMA VerdictStep ==
  ASSUME TypeOK, Calm', AloneInv, VerdictInv, [Next]_vars
  PROVE  VerdictInv'
<1>1. /\ epc \in [Executions -> {"idle", "working", "locked", "inserted",
                                 "committed", "raised", "ended"}]
      /\ verdict \in [Executions -> Ended]
      /\ cpc \in [Clients -> {"away", "connected", "replayed", "found", "live",
                              "sent", "closed"}]
      /\ found \in [Clients -> Ended]
      /\ mark \in Ended \union {"none"}
      /\ "active" \notin Ended \union {"none"}
  BY DEF TypeOK, Ended
<1> USE DEF VerdictInv
<1>2. ASSUME NEW e \in Executions, Begin(e) PROVE VerdictInv'
  <2>1. \A f \in Executions : epc[f] = "idle"
    BY <1>2, CalmStep DEF AloneInv
  <2>2. /\ epc' = [epc EXCEPT ![e] = "working"] /\ status' = "active"
        /\ UNCHANGED <<verdict, mark, cpc, found>> /\ status = "active"
    BY <1>2, CalmStep DEF AloneInv, Begin, Goes, streams
  <2> QED
    BY <1>1, <2>1, <2>2
<1>3. ASSUME NEW e \in Executions, Lock(e) \/ Insert(e) \/ Commit(e) \/ Publish(e)
      PROVE  VerdictInv'
  <2>1. /\ epc[e] \in {"working", "locked", "inserted", "committed"}
        /\ \E to : epc' = [epc EXCEPT ![e] = to] /\ to # "ended"
        /\ UNCHANGED <<status, verdict, mark, cpc, found>>
    BY <1>3 DEF Lock, Insert, Commit, Publish, Goes, ending, streams
  <2> QED
    BY <1>1, <2>1
<1>4. ASSUME NEW e \in Executions, Finish(e) PROVE VerdictInv'
  <2>1. /\ epc[e] \in {"working", "raised"} /\ epc' = [epc EXCEPT ![e] = "ended"]
        /\ verdict' = [verdict EXCEPT ![e] = status']
        /\ UNCHANGED <<mark, cpc, found>>
    BY <1>4 DEF Finish, Goes
  <2>2. status = "active" /\ \A f \in Executions \ {e} : epc[f] = "idle"
    BY <1>1, <2>1 DEF AloneInv
  <2>3. mark = "none" /\ \A c \in Clients : cpc[c] # "found"
    BY <1>1, <2>2
  <2> QED
    BY <1>1, <2>1, <2>2, <2>3
<1>5. ASSUME NEW e \in Executions, MarkCompleted(e) PROVE VerdictInv'
  <2>1. /\ epc[e] = "ended" /\ epc' = [epc EXCEPT ![e] = "idle"]
        /\ mark' = verdict[e] /\ verdict' = [verdict EXCEPT ![e] = "failed"]
        /\ UNCHANGED <<status, cpc, found>>
    BY <1>5 DEF MarkCompleted, Goes, streams
  <2> QED
    BY <1>1, <2>1
<1>6. ASSUME NEW c \in Clients, FallbackRead(c) PROVE VerdictInv'
  <2>1. /\ UNCHANGED <<status, verdict, mark, epc>>
        /\ found' = [found EXCEPT ![c] = IF cpc'[c] = "found" THEN status ELSE found[c]]
        /\ \E to : cpc' = [cpc EXCEPT ![c] = to]
    BY <1>6 DEF FallbackRead, Streams, ending
  <2> QED
    BY <1>1, <2>1
<1>7. ASSUME NEW c \in Clients, FallbackMark(c) PROVE VerdictInv'
  <2>1. /\ UNCHANGED <<status, verdict, epc>> /\ cpc[c] = "found"
        /\ mark' = found[c] /\ cpc' = [cpc EXCEPT ![c] = "live"]
        /\ found' = [found EXCEPT ![c] = "failed"]
    BY <1>7 DEF FallbackMark, Streams
  <2> QED
    BY <1>1, <2>1
<1>8. ASSUME NEW c \in Clients, ServerStep(c) \/ ClientStep(c),
             ~FallbackRead(c), ~FallbackMark(c)
      PROVE  VerdictInv'
  <2>1. /\ UNCHANGED <<status, verdict, mark, epc>>
        /\ \A x \in Clients : x # c => found'[x] = found[x]
    BY <1>1, <1>8
    DEF ServerStep, ClientStep, Replay, ReplayFails, FallbackFails, Get, Heartbeat,
        EndOrWait, Connect, Disconnect, DisconnectEarly, ending
  <2>2. \E to : cpc' = [cpc EXCEPT ![c] = to] /\ to # "found"
    BY <1>8
    DEF ServerStep, ClientStep, Replay, ReplayFails, FallbackFails, Get, Heartbeat,
        EndOrWait, Connect, Disconnect, DisconnectEarly, Streams
  <2> QED
    BY <1>1, <2>1, <2>2
<1>9. ASSUME Crash PROVE VerdictInv'
  <2>1. /\ epc' = [e \in Executions |-> "idle"] /\ mark' = "none" /\ UNCHANGED status
        /\ cpc' = [c \in Clients |-> IF cpc[c] = "closed" THEN "closed" ELSE "away"]
    BY <1>9 DEF Crash
  <2> QED
    BY <2>1
<1>10. ASSUME UNCHANGED vars PROVE VerdictInv'
  BY <1>10 DEF vars, ending, streams
<1> HIDE DEF VerdictInv
<1>11. \A e \in Executions : ~EmitFails(e)
  BY CalmStep
<1> QED
  BY <1>2, <1>3, <1>4, <1>5, <1>6, <1>7, <1>8, <1>9, <1>10, <1>11
  DEF Next, ExecutionStep

LEMMA ClosedStep ==
  ASSUME StreamInv, TypeOK, Calm', NothingMissed, AloneInv, VerdictInv, ClosedInv,
         [Next]_vars
  PROVE  ClosedInv'
<1>1. /\ cpc \in [Clients -> {"away", "connected", "replayed", "found", "live",
                              "sent", "closed"}]
      /\ received \in [Clients -> Seq(Nat)] /\ queue \in [Clients -> Seq(Nat)]
      /\ heard \in [Clients -> Ended \union {"none"}]
      /\ epc \in [Executions -> {"idle", "working", "locked", "inserted",
                                 "committed", "raised", "ended"}]
      /\ mark \in Ended \union {"none"}
      /\ "active" \notin Ended \union {"none"}
  BY DEF TypeOK, Ended
<1> USE DEF ClosedInv
<1>2. ASSUME NEW e \in Executions,
             Begin(e) \/ Insert(e) \/ Commit(e) \/ Lock(e) \/ Publish(e) \/ Finish(e)
      PROVE  ClosedInv'
  <2>1. status = "active"
    <3>1. CASE Begin(e)
      BY <3>1, CalmStep DEF AloneInv
    <3>2. CASE ~Begin(e)
      BY <1>1, <1>2, <3>2
      DEF Insert, Commit, Lock, Publish, Finish, Goes, VerdictInv
    <3> QED
      BY <3>1, <3>2
  <2>2. UNCHANGED cpc
    BY <1>2 DEF Begin, Insert, Commit, Lock, Publish, Finish, streams
  <2> QED
    BY <1>1, <2>1, <2>2
<1>3. ASSUME NEW e \in Executions, MarkCompleted(e) PROVE ClosedInv'
  BY <1>3 DEF MarkCompleted, emitting, streams
<1>4. ASSUME NEW c \in Clients, ServerStep(c) \/ ClientStep(c)
      PROVE  ClosedInv'
  <2>1. /\ UNCHANGED <<log, status>>
        /\ \A x \in Clients : x # c => received'[x] = received[x] /\ heard'[x] = heard[x]
    BY <1>1, <1>4
    DEF ServerStep, ClientStep, Replay, ReplayFails, FallbackRead, FallbackMark,
        FallbackFails, Get, Heartbeat, EndOrWait, Connect, Disconnect,
        DisconnectEarly, emitting, ending
  <2>2. \A x \in Clients : x # c => cpc'[x] = cpc[x]
    BY <1>1, <1>4
    DEF ServerStep, ClientStep, Replay, ReplayFails, FallbackRead, FallbackMark,
        FallbackFails, Get, Heartbeat, EndOrWait, Connect, Disconnect,
        DisconnectEarly, Streams
  <2>3. ASSUME cpc'[c] = "closed"
        PROVE  /\ Range(log') \subseteq Range(received'[c])
               /\ heard'[c] = status' /\ status' \in Ended
    <3>1. EndOrWait(c)
      BY <1>1, <1>4, <2>3
      DEF ServerStep, ClientStep, Replay, ReplayFails, FallbackRead, FallbackMark,
          FallbackFails, Get, Heartbeat, Connect, Disconnect,
          DisconnectEarly, Streams
    <3>2. /\ cpc[c] = "sent" /\ mark # "none" /\ queue[c] = <<>>
          /\ heard' = [heard EXCEPT ![c] = mark] /\ UNCHANGED received
      BY <1>1, <2>3, <3>1 DEF EndOrWait, Streams
    <3>3. mark = status /\ status \in Ended
      BY <1>1, <3>2 DEF VerdictInv
    <3>4. InPublication = {}
      <4>1. \A e \in Executions : epc[e] # "committed"
        BY <1>1, <3>3 DEF VerdictInv
      <4> QED
        BY <4>1 DEF InPublication
    <3>5. Range(queue[c]) = {}
      BY <3>2 DEF Range
    <3>6. counts["faults"] = 0
      BY CalmStep DEF Calm
    <3>7. Range(log) \subseteq Range(received[c])
      BY <3>2, <3>4, <3>5, <3>6 DEF NothingMissed
    <3> QED
      BY <1>1, <2>1, <3>2, <3>3, <3>7
  <2> QED
    BY <2>1, <2>2, <2>3
<1>5. ASSUME Crash PROVE ClosedInv'
  <2>1. /\ UNCHANGED <<log, status, received, heard>>
        /\ cpc' = [c \in Clients |-> IF cpc[c] = "closed" THEN "closed" ELSE "away"]
    BY <1>5 DEF Crash
  <2> QED
    BY <2>1
<1>6. ASSUME UNCHANGED vars PROVE ClosedInv'
  BY <1>6 DEF vars, emitting, ending, streams
<1> HIDE DEF ClosedInv
<1>7. \A e \in Executions : ~EmitFails(e)
  BY CalmStep
<1> QED
  BY <1>2, <1>3, <1>4, <1>5, <1>6, <1>7 DEF Next, ExecutionStep

\* A replay, or a part of it, continues what the client has without a gap.
LEMMA ReplayInOrder ==
  ASSUME StreamInv, OrderInv, NEW c \in Clients, NEW n \in 0 .. Len(Newer(c)),
         NEW more, more = received[c] \o SubSeq(Newer(c), 1, n)
  PROVE  /\ more \in Seq(Nat) /\ Range(more) \subseteq Range(log)
         /\ PrefixClosed(more)
<1> DEFINE sent == SubSeq(Newer(c), 1, n)
<1>1. /\ received[c] \in Seq(Nat) /\ resume[c] \in Nat /\ Len(log) \in Nat
      /\ Range(log) = 0 .. Len(log) - 1
      /\ \A m \in Nat : m < resume[c] => m \in Range(received[c])
      /\ Range(received[c]) \subseteq Range(log) /\ PrefixClosed(received[c])
  BY RangeOfLog
  DEF StreamInv, StreamTypes, ResumeFits, EmitInv, EmitTypes, OrderInv
<1>2. Len(Newer(c)) \in Nat
  BY NewerIsRest DEF StreamInv, StreamTypes, ResumeFits, EmitInv, EmitTypes
<1>3. /\ sent \in Seq(Nat) /\ Len(sent) = n
      /\ \A i \in 1 .. n : sent[i] = resume[c] + i - 1
      /\ resume[c] + n <= Len(log)
  BY ReplayAdds
<1>4. more = received[c] \o sent
  OBVIOUS
<1> HIDE DEF sent
<1>5. n \in Nat
  BY <1>2
<1>6. Range(sent) \subseteq Range(log)
  <2>1. ASSUME NEW m \in Range(sent) PROVE m \in Range(log)
    <3>1. PICK i \in 1 .. n : m = resume[c] + i - 1
      BY <1>3, RangeOfSequence
    <3>2. i \in Nat /\ i >= 1 /\ i <= n
      BY <1>5, <3>1
    <3>3. resume[c] \in Nat /\ Len(log) \in Nat /\ n \in Nat /\ resume[c] + n <= Len(log)
      BY <1>1, <1>3, <1>5
    <3>4. m \in 0 .. Len(log) - 1
      BY <3>1, <3>2, <3>3
    <3> QED
      BY <1>1, <3>4
  <2> QED
    BY <2>1
<1>7. more \in Seq(Nat) /\ Range(more) = Range(received[c]) \union Range(sent)
  BY <1>1, <1>3, <1>4, RangeOfConcat
<1>8. ASSUME NEW i \in 1 .. Len(sent), NEW m \in 0 .. sent[i]
      PROVE  m \in Range(received[c]) \/ \E j \in 1 .. i : m = sent[j]
  <2>1. i \in 1 .. n /\ sent[i] = resume[c] + i - 1
    BY <1>3
  <2>2. CASE m < resume[c]
    BY <1>1, <2>1, <2>2
  <2>3. CASE m >= resume[c]
    <3> DEFINE j == m - resume[c] + 1
    <3>1. j \in 1 .. i /\ m = resume[c] + j - 1
      <4>1. /\ m \in Nat /\ m <= resume[c] + i - 1 /\ m >= resume[c]
            /\ resume[c] \in Nat /\ i \in Nat
        BY <1>1, <1>5, <1>8, <2>1, <2>3
      <4> QED
        BY <4>1
    <3> HIDE DEF j
    <3>2. j \in 1 .. n
      BY <1>5, <2>1, <3>1
    <3>3. sent[j] = m
      BY <1>3, <3>1, <3>2
    <3> QED
      BY <3>1, <3>3
  <2> QED
    BY <1>1, <1>8, <2>1, <2>2, <2>3
<1>9. PrefixClosed(more)
  BY <1>1, <1>3, <1>4, <1>8, ConcatIsClosed
<1> QED
  BY <1>1, <1>6, <1>7, <1>9

LEMMA OrderStep ==
  ASSUME StreamInv, StreamInv', TypeOK, Calm', NothingMissed, AloneInv, OrderInv, [Next]_vars
  PROVE  OrderInv'
<1>1. /\ StreamTypes /\ EmitTypes /\ StreamTypes' /\ EmitTypes' /\ EmitInv
  BY DEF StreamInv, EmitInv
<1>2. Range(log) = 0 .. Len(log) - 1 /\ Len(log) \in Nat
  BY <1>1, RangeOfLog DEF EmitInv, EmitTypes
<1>3. ASSUME NEW e \in Executions,
             Begin(e) \/ Lock(e) \/ Insert(e) \/ Finish(e) \/ MarkCompleted(e)
      PROVE  OrderInv'
  <2>1. /\ UNCHANGED <<log, received, queue, cpc>>
        /\ epc'[e] # "committed"
        /\ \A f \in Executions \ {e} : epc'[f] = epc[f] /\ pending'[f] = pending[f]
    BY <1>1, <1>3
    DEF Begin, Lock, Insert, Finish, MarkCompleted, Goes, emitting, streams, EmitTypes
  <2> QED
    BY <2>1 DEF OrderInv
<1>4. ASSUME NEW e \in Executions, Commit(e) PROVE OrderInv'
  <2>1. /\ log' = Append(log, pending[e])
        /\ epc' = [epc EXCEPT ![e] = "committed"]
        /\ UNCHANGED <<pending, received, queue, cpc>>
    BY <1>4 DEF Commit, Goes, streams
  <2>2. Range(log') = Range(log) \union {pending[e]}
    BY <1>1, <2>1, RangeOfAppend DEF EmitTypes
  <2> QED
    BY <1>1, <2>1, <2>2 DEF OrderInv, EmitTypes
<1>5. ASSUME NEW e \in Executions, Publish(e) PROVE OrderInv'
  <2>1. /\ epc[e] = "committed" /\ epc' = [epc EXCEPT ![e] = "working"]
        /\ pending' = [pending EXCEPT ![e] = 0]
        /\ queue' = [c \in Clients |-> IF Subscribed(c) THEN Append(queue[c], pending[e])
                                                        ELSE queue[c]]
        /\ UNCHANGED <<log, received, cpc>>
    BY <1>5 DEF Publish, Goes
  <2>2. pending[e] \in Range(log) /\ pending[e] \in Nat
    BY <1>1, <2>1 DEF OrderInv, EmitTypes
  <2>3. \A f \in Executions : epc'[f] = "committed" => epc[f] = "committed" /\ pending'[f] = pending[f]
    BY <1>1, <2>1 DEF EmitTypes
  <2>4. ASSUME NEW c \in Clients
        PROVE  /\ Range(received[c]) \union Range(queue'[c]) \subseteq Range(log)
               /\ cpc[c] \in Open => PrefixClosed(received[c] \o queue'[c])
    <3>1. CASE ~Subscribed(c)
      BY <2>1, <3>1 DEF OrderInv, Subscribed, Open
    <3>2. CASE Subscribed(c)
      <4>1. queue'[c] = Append(queue[c], pending[e])
        BY <2>1, <3>2
      <4>2. /\ queue[c] \in Seq(Nat) /\ received[c] \in Seq(Nat)
        BY <1>1 DEF StreamTypes
      <4>3. Range(queue'[c]) = Range(queue[c]) \union {pending[e]}
        BY <2>2, <4>1, <4>2, RangeOfAppend
      <4>4. Range(received[c]) \union Range(queue'[c]) \subseteq Range(log)
        BY <2>2, <4>3 DEF OrderInv
      <4>5. ASSUME cpc[c] \in Open PROVE PrefixClosed(received[c] \o queue'[c])
        <5> DEFINE a == received[c] \o queue[c]
        <5>1. a \in Seq(Nat) /\ Range(a) = Range(received[c]) \union Range(queue[c])
          BY <4>2, RangeOfConcat
        <5>2. PrefixClosed(a)
          BY <4>5 DEF OrderInv
        <5>3. received[c] \o queue'[c] = Append(a, pending[e])
          BY <2>2, <4>1, <4>2, PublishAppends
        <5> HIDE DEF a
        <5>4. InPublication \subseteq {pending[e]}
          BY <2>1 DEF InPublication, AloneInv
        <5>5. counts["faults"] = 0
          BY CalmStep DEF Calm
        <5>6. Range(log) \subseteq Range(received[c]) \union Range(queue[c]) \union InPublication
          BY <4>5, <5>5 DEF NothingMissed, Open
        <5>7. \A m \in 0 .. pending[e] : m \in Range(log)
          BY <1>2, <2>2
        <5>8. \A m \in 0 .. pending[e] : m \in Range(a) \/ m = pending[e]
          BY <5>1, <5>4, <5>6, <5>7
        <5> QED
          BY <2>2, <5>1, <5>2, <5>3, <5>8, AppendIsClosed
      <4> QED
        BY <4>4, <4>5
    <3> QED
      BY <3>1, <3>2
  <2> QED
    BY <2>1, <2>3, <2>4 DEF OrderInv
<1>6. ASSUME NEW c \in Clients, ServerStep(c) \/ ClientStep(c)
      PROVE  OrderInv'
  <2>1. UNCHANGED <<log, epc, pending>>
    BY <1>6
    DEF ServerStep, ClientStep, Replay, ReplayFails, FallbackRead, FallbackMark,
        FallbackFails, Get, Heartbeat, EndOrWait, Connect, Disconnect,
        DisconnectEarly, emitting
  <2>2. \A x \in Clients : x # c => /\ received'[x] = received[x]
                                    /\ queue'[x] = queue[x] /\ cpc'[x] = cpc[x]
    BY <1>1, <1>6
    DEF ServerStep, ClientStep, Replay, ReplayFails, FallbackRead, FallbackMark,
        FallbackFails, Get, Heartbeat, EndOrWait, Connect, Disconnect,
        DisconnectEarly, Streams, StreamTypes
  <2>3. /\ Range(received[c]) \union Range(queue[c]) \subseteq Range(log)
        /\ PrefixClosed(received[c])
        /\ cpc[c] \in Open => PrefixClosed(received[c] \o queue[c])
        /\ received[c] \in Seq(Nat) /\ queue[c] \in Seq(Nat)
    BY <1>1 DEF OrderInv, StreamTypes
  <2> DEFINE Here == /\ Range(received'[c]) \union Range(queue'[c]) \subseteq Range(log)
                     /\ PrefixClosed(received'[c])
                     /\ cpc'[c] \in Open => PrefixClosed(received'[c] \o queue'[c])
  <2>4. ASSUME Replay(c) PROVE Here
    <3> DEFINE n == Len(Newer(c))
               more == received[c] \o SubSeq(Newer(c), 1, n)
    <3>1. n \in 0 .. n
      BY <1>1, NewerIsRest DEF StreamInv, ResumeFits, EmitInv, EmitTypes, StreamTypes
    <3>2. received' = [received EXCEPT ![c] = more] /\ resume[c] + n = Len(log)
      BY <2>4, ReplayIsAll
    <3>3. \A m \in Nat : m < resume[c] + n => m \in Range(more)
      BY <3>1, ReplayAdds
    <3>4. more \in Seq(Nat) /\ Range(more) \subseteq Range(log) /\ PrefixClosed(more)
      BY <3>1, ReplayInOrder
    <3> HIDE DEF n, more
    <3>5. received'[c] = more /\ queue'[c] = queue[c]
      BY <1>1, <2>4, <3>2 DEF Replay, StreamTypes
    <3>6. \A i \in 1 .. Len(queue[c]) : \A m \in 0 .. queue[c][i] : m \in Range(more)
      <4>1. \A i \in 1 .. Len(queue[c]) : queue[c][i] \in 0 .. Len(log) - 1
        BY <1>2, <2>3, RangeOfSequence
      <4> QED
        BY <1>2, <3>2, <3>3, <4>1
    <3>7. PrefixClosed(more \o queue[c])
      BY <2>3, <3>4, <3>6, ConcatIsClosed
    <3> QED
      BY <2>3, <3>4, <3>5, <3>7
  <2>5. ASSUME Get(c) PROVE Here
    <3> DEFINE more == Append(received[c], Head(queue[c]))
               rest == Tail(queue[c])
    <3>1. /\ cpc[c] = "live" /\ queue[c] # <<>>
          /\ received'[c] = more /\ queue'[c] = rest
      BY <1>1, <2>5 DEF Get, Streams, StreamTypes
    <3>2. /\ Head(queue[c]) \in Nat /\ rest \in Seq(Nat)
          /\ Range(queue[c]) = {Head(queue[c])} \union Range(rest)
      BY <2>3, <3>1, RangeOfQueue
    <3>3. more \in Seq(Nat) /\ Range(more) = Range(received[c]) \union {Head(queue[c])}
      BY <2>3, <3>2, RangeOfAppend
    <3> HIDE DEF more, rest
    <3>4. more \o rest = received[c] \o queue[c]
      <4>1. Append(received[c], Head(queue[c])) \o Tail(queue[c]) = received[c] \o queue[c]
        BY <2>3, <3>1, GetMoves
      <4> QED
        BY <4>1, Zenon DEF more, rest
    <3>5. PrefixClosed(more \o rest)
      BY <2>3, <3>1, <3>4 DEF Open
    <3>6. PrefixClosed(more)
      BY <3>2, <3>3, <3>5, PrefixIsClosed
    <3> QED
      BY <2>3, <3>1, <3>2, <3>3, <3>5, <3>6
  <2>6. ASSUME DisconnectEarly(c), cpc[c] = "connected" PROVE Here
    <3>1. PICK n \in 0 .. Len(Newer(c)) :
             received' = [received EXCEPT ![c] = received[c] \o SubSeq(Newer(c), 1, n)]
      BY <2>6 DEF DisconnectEarly, Streams
    <3> DEFINE more == received[c] \o SubSeq(Newer(c), 1, n)
    <3>2. more \in Seq(Nat) /\ Range(more) \subseteq Range(log) /\ PrefixClosed(more)
      BY ReplayInOrder
    <3>3. received' = [received EXCEPT ![c] = more]
      BY <3>1
    <3> HIDE DEF more
    <3>4. received'[c] = more /\ queue'[c] = <<>> /\ cpc'[c] = "away"
      BY <1>1, <2>6, <3>3 DEF DisconnectEarly, Streams, StreamTypes
    <3>5. Range(queue'[c]) = {} /\ cpc'[c] \notin Open
      BY <3>4 DEF Range, Open
    <3> QED
      BY <3>2, <3>4, <3>5
  <2>7. ASSUME ~Replay(c), ~Get(c), ~(DisconnectEarly(c) /\ cpc[c] = "connected")
        PROVE  Here
    <3>1. ~ReplayFails(c)
      BY CalmStep DEF Calm
    <3>2. UNCHANGED received
      BY <1>6, <2>7, <3>1
      DEF ServerStep, ClientStep, FallbackRead, FallbackMark, FallbackFails,
          Heartbeat, EndOrWait, Connect, Disconnect, DisconnectEarly, Streams
    <3>3. queue'[c] = queue[c] \/ (queue'[c] = <<>> /\ cpc'[c] = "away")
      BY <1>1, <1>6, <2>7, <3>1
      DEF ServerStep, ClientStep, FallbackRead, FallbackMark, FallbackFails,
          Heartbeat, EndOrWait, Connect, Disconnect, DisconnectEarly, Streams,
          StreamTypes
    <3>4. cpc'[c] \in Open => cpc[c] \in Open
      BY <1>1, <1>6, <2>7, <3>1
      DEF ServerStep, ClientStep, FallbackRead, FallbackMark, FallbackFails,
          Heartbeat, EndOrWait, Connect, Disconnect, DisconnectEarly, Streams,
          StreamTypes, Open
    <3>5. Range(<<>>) = {} /\ "away" \notin Open
      BY DEF Range, Open
    <3> QED
      BY <2>3, <3>2, <3>3, <3>4, <3>5
  <2>8. Here
    BY <2>4, <2>5, <2>6, <2>7
  <2> HIDE DEF Here
  <2>9. ASSUME NEW x \in Clients
        PROVE  /\ Range(received'[x]) \union Range(queue'[x]) \subseteq Range(log')
               /\ PrefixClosed(received'[x])
               /\ cpc'[x] \in Open => PrefixClosed(received'[x] \o queue'[x])
    <3>1. CASE x = c
      BY <2>1, <2>8, <3>1 DEF Here
    <3>2. CASE x # c
      BY <2>1, <2>2, <3>2 DEF OrderInv
    <3> QED
      BY <3>1, <3>2
  <2> QED
    BY <2>1, <2>9 DEF OrderInv
<1>7. ASSUME Crash PROVE OrderInv'
  <2>1. /\ epc' = [e \in Executions |-> "idle"]
        /\ cpc' = [c \in Clients |-> IF cpc[c] = "closed" THEN "closed" ELSE "away"]
        /\ queue' = [c \in Clients |-> <<>>]
        /\ UNCHANGED <<log, received>>
    BY <1>7 DEF Crash
  <2>2. Range(<<>>) = {}
    BY DEF Range
  <2> QED
    BY <2>1, <2>2 DEF OrderInv, Open
<1>8. ASSUME UNCHANGED vars PROVE OrderInv'
  BY <1>8 DEF vars, emitting, streams, OrderInv
<1>9. \A e \in Executions : ~EmitFails(e)
  BY CalmStep DEF Calm
<1> QED
  BY <1>3, <1>4, <1>5, <1>6, <1>7, <1>8, <1>9 DEF Next, ExecutionStep

\* A run that is executed once, and whose database calls succeed, is seen whole
\* by every client: no event before all earlier ones, and when the stream is
\* closed, all of them and the status the run has.  Clients may leave and come
\* back at any time, and the process may crash.
THEOREM RunsAreSeenWhole == Spec => []SeenWhole
<1> DEFINE Inv == StreamInv /\ TypeOK /\ NothingMissed /\ (Calm => CalmInv)
<1>1. Init => Inv
  <2> SUFFICES ASSUME Init PROVE Inv
    OBVIOUS
  <2>1. StreamInv /\ TypeOK /\ NothingMissed
    BY StreamInit DEF Init, TypeOK, Ended, EventKinds, NothingMissed
  <2>2. AloneInv /\ VerdictInv /\ ClosedInv
    BY DEF Init, AloneInv, VerdictInv, ClosedInv
  <2>3. OrderInv
    BY DEF Init, OrderInv, Range, PrefixClosed, Open
  <2> QED
    BY <2>1, <2>2, <2>3 DEF CalmInv
<1>2. Inv /\ [Next]_vars => Inv'
  <2> SUFFICES ASSUME Inv, [Next]_vars PROVE Inv'
    OBVIOUS
  <2>1. StreamInv' /\ TypeOK'
    BY StreamStep, TypesStep
  <2>2. NothingMissed'
    BY <2>1, MissedStep DEF NothingMissed, Reaching, Open
  <2>3. ASSUME Calm' PROVE CalmInv'
    <3>1. Calm
      BY <2>3, CalmStep
    <3>2. AloneInv /\ VerdictInv /\ OrderInv /\ ClosedInv
      BY <3>1 DEF CalmInv
    <3>3. AloneInv' /\ VerdictInv' /\ OrderInv' /\ ClosedInv'
      BY <2>1, <2>3, <3>2, AloneStep, VerdictStep, OrderStep, ClosedStep
    <3> QED
      BY <3>3 DEF CalmInv
  <2> QED
    BY <2>1, <2>2, <2>3
<1>3. Inv => SeenWhole
  <2> SUFFICES ASSUME StreamInv, Calm, CalmInv, NEW c \in Clients
               PROVE  /\ \A i \in DOMAIN received[c] :
                            0 .. received[c][i] \subseteq {received[c][j] : j \in 1 .. i}
                      /\ cpc[c] = "closed" => /\ Range(received[c]) = Range(log)
                                             /\ heard[c] = status
    BY DEF SeenWhole, Calm
  <2>1. PrefixClosed(received[c]) /\ Range(received[c]) \subseteq Range(log)
    BY DEF CalmInv, OrderInv
  <2>2. cpc[c] = "closed" => Range(log) \subseteq Range(received[c]) /\ heard[c] = status
    BY DEF CalmInv, ClosedInv
  <2> QED
    BY <2>1, <2>2 DEF PrefixClosed
<1> QED
  BY <1>1, <1>2, <1>3, PTL DEF Spec

=============================================================================
