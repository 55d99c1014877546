---------------------------- MODULE JournalProofs ----------------------------
(***************************************************************************)
(* Recovery makes of the journal what module Master says it does, for a    *)
(* journal of every length.                                                *)
(*                                                                         *)
(* The replay is a recursive function, so the argument is by induction on  *)
(* the number of events.  The theorems of the library that take a          *)
(* predicate cannot be used here; Least and UpTo say the same about sets.  *)
(* Replaying a longer journal is replaying the old one and then the new    *)
(* events (ReplaysOn).  BatchReplays compares, event by event, what the    *)
(* replay makes of the events a command wrote with what its handler makes  *)
(* of the database, and stops where recovery stops asking for events.      *)
(***************************************************************************)
EXTENDS MasterJournal, MasterProofs, WellFoundedInduction

-----------------------------------------------------------------------------

(***************************************************************************)
(* Induction, over sets: every set of numbers has a least one.             *)
(***************************************************************************)
\* A set of numbers that is not empty has a least one.
LEMMA Least ==
  ASSUME NEW S, S \subseteq Nat, S # {}
  PROVE  \E m \in S : \A k \in S : ~ (k < m)
<1>1. PICK m \in S : \A k \in S : ~ (<<k, m>> \in OpToRel(<, Nat))
  BY NatLessThanWellFounded, WFMin
<1>2. QED BY <1>1 DEF OpToRel

\* A set that holds 0 and, up to K, the successors of what it holds.
LEMMA UpTo ==
  ASSUME NEW K \in Nat, NEW S, 0 \in S, \A k \in 0..K : k < K /\ k \in S => k + 1 \in S
  PROVE  0..K \subseteq S
<1> DEFINE Out == {k \in 0..K : k \notin S}
<1>1. ASSUME Out # {} PROVE FALSE
  <2>1. PICK m \in Out : \A k \in Out : ~ (k < m)
    <3>1. Out \subseteq Nat
      OBVIOUS
    <3> HIDE DEF Out
    <3>2. QED BY <1>1, <3>1, Least
  <2>2. m \in Nat /\ m # 0 /\ m <= K
    BY <2>1
  <2>3. m - 1 \in 0..K /\ m - 1 < m /\ m - 1 < K /\ (m - 1) + 1 = m
    BY <2>2
  <2>4. m - 1 \notin Out
    BY <2>1, <2>3
  <2>5. QED BY <2>1, <2>3, <2>4
<1>2. QED BY <1>1

(***************************************************************************)
(* What replay computes.                                                   *)
(***************************************************************************)
\* f says what the first events of s make of a fresh actor, up to n of them.
Traces(f, s, n) ==
  f = [i \in 0..n |-> IF i = 0 THEN Fresh ELSE Replayed(f[i - 1], s[i])]

\* One more event: replayed only if its constructor returns.
LEMMA ReplayedEvent ==
  ASSUME NEW r, NEW e
  PROVE  /\ Replayed(r, e).ok <=> r.ok /\ Applies(r.db, e)
         /\ Replayed(r, e).ok => Replayed(r, e).db = updated(r.db, e)
<1>1. CASE r.ok /\ Applies(r.db, e)
  <2>1. Replayed(r, e) = [db |-> updated(r.db, e), ok |-> TRUE]
    BY <1>1 DEF Replayed
  <2>2. QED BY <1>1, <2>1
<1>2. CASE ~ (r.ok /\ Applies(r.db, e))
  <2>1. Replayed(r, e) = [db |-> r.db, ok |-> FALSE]
    BY <1>2 DEF Replayed
  <2>2. ~ Replayed(r, e).ok
    BY <2>1
  <2>3. QED BY <1>2, <2>2
<1>3. QED BY <1>1, <1>2

\* A trace applies the events one after the other.
LEMMA TracesNext ==
  ASSUME NEW f, NEW s, NEW n \in Nat, Traces(f, s, n), NEW i \in 1..n
  PROVE  f[i] = Replayed(f[i - 1], s[i])
BY DEF Traces

\* Two traces of the same events are the same, as far as both go.
LEMMA TracesSame ==
  ASSUME NEW f, NEW g, NEW s, NEW t, NEW n \in Nat, NEW m \in Nat, n <= m,
         Traces(f, s, n), Traces(g, t, m), \A i \in 1..n : s[i] = t[i]
  PROVE  \A i \in 0..n : f[i] = g[i]
<1> DEFINE S == {i \in Nat : f[i] = g[i]}
<1>1. 0 \in S
  <2>1. f[0] = Fresh /\ g[0] = Fresh
    BY DEF Traces
  <2>2. QED BY <2>1
<1>2. ASSUME NEW k \in 0..n, k < n, k \in S
      PROVE  k + 1 \in S
  <2>1. k + 1 \in 1..n /\ k + 1 \in 0..n /\ k + 1 \in 0..m /\ (k + 1) - 1 = k /\ k + 1 # 0
    BY <1>2
  <2>2. f[k + 1] = Replayed(f[k], s[k + 1]) /\ g[k + 1] = Replayed(g[k], t[k + 1])
    BY <2>1 DEF Traces
  <2>3. QED BY <1>2, <2>1, <2>2
<1>3. 0..n \subseteq S
  BY <1>1, <1>2, UpTo
<1>4. QED BY <1>3

\* Any number of events can be traced.
LEMMA TracesExist ==
  ASSUME NEW s, NEW n \in Nat
  PROVE  \E f : Traces(f, s, n)
<1> DEFINE S == {k \in Nat : \E f : Traces(f, s, k)}
<1>1. 0 \in S
  <2>1. Traces([i \in 0..0 |-> Fresh], s, 0)
    BY DEF Traces
  <2>2. QED BY <2>1
<1>2. ASSUME NEW k \in 0..n, k < n, k \in S
      PROVE  k + 1 \in S
  <2>1. PICK f : Traces(f, s, k)
    BY <1>2
  <2> DEFINE g == [i \in 0..(k + 1) |-> IF i = k + 1 THEN Replayed(f[k], s[k + 1]) ELSE f[i]]
  <2>2. ASSUME NEW i \in 0..(k + 1)
        PROVE  g[i] = IF i = 0 THEN Fresh ELSE Replayed(g[i - 1], s[i])
    <3>1. CASE i = k + 1
      <4>1. i # 0 /\ i - 1 = k /\ k \in 0..(k + 1) /\ k # k + 1
        BY <3>1
      <4>2. g[k] = f[k]
        BY <4>1
      <4>3. g[i] = Replayed(f[k], s[i])
        BY <3>1
      <4>4. QED BY <4>1, <4>2, <4>3
    <3>2. CASE i # k + 1
      <4>1. i \in 0..k /\ g[i] = f[i]
        BY <3>2
      <4>2. f[i] = IF i = 0 THEN Fresh ELSE Replayed(f[i - 1], s[i])
        BY <2>1, <4>1 DEF Traces
      <4>3. i # 0 => i - 1 \in 0..(k + 1) /\ i - 1 # k + 1
        BY <4>1
      <4>4. i # 0 => g[i - 1] = f[i - 1]
        BY <4>3
      <4>5. QED BY <4>1, <4>2, <4>4
    <3>3. QED BY <3>1, <3>2
  <2>3. Traces(g, s, k + 1)
    BY <2>2 DEF Traces
  <2>4. QED BY <2>3
<1>3. 0..n \subseteq S
  BY <1>1, <1>2, UpTo
<1>4. QED BY <1>3

\* Replays is the trace of all events of the journal.
LEMMA ReplaysTraces ==
  ASSUME NEW s, Len(s) \in Nat
  PROVE  Traces(Replays(s), s, Len(s))
<1>1. \E f : Traces(f, s, Len(s))
  BY TracesExist
<1>2. Replays(s) = CHOOSE f : Traces(f, s, Len(s))
  BY DEF Replays, Traces
<1>3. QED BY <1>1, <1>2

(***************************************************************************)
(* Recovery after more was written.                                        *)
(***************************************************************************)
\* A longer journal starts as the old one does and goes on with what was
\* written.
LEMMA ReplaysOn ==
  ASSUME NEW E, NEW s \in Seq(E), NEW t \in Seq(E)
  PROVE  /\ Len(s \o t) = Len(s) + Len(t)
         /\ \A i \in 0..Len(s) : Replays(s \o t)[i] = Replays(s)[i]
         /\ \A i \in 1..Len(t) :
              Replays(s \o t)[Len(s) + i] = Replayed(Replays(s \o t)[Len(s) + i - 1], t[i])
<1> DEFINE u == s \o t
<1>1. /\ Len(s) \in Nat /\ Len(t) \in Nat /\ Len(u) = Len(s) + Len(t)
      /\ \A i \in 1..Len(s) : s[i] = u[i]
      /\ \A i \in 1..Len(t) : u[Len(s) + i] = t[i]
  <2>1. Len(s) \in Nat /\ Len(t) \in Nat /\ Len(u) = Len(s) + Len(t)
    BY ConcatProperties, LenProperties
  <2>2. \A i \in 1..Len(s) + Len(t) : u[i] = IF i <= Len(s) THEN s[i] ELSE t[i - Len(s)]
    BY ConcatProperties
  <2> HIDE DEF u
  <2>3. ASSUME NEW i \in 1..Len(t)
        PROVE  u[Len(s) + i] = t[i]
    <3>1. Len(s) + i \in 1..Len(s) + Len(t) /\ ~ (Len(s) + i <= Len(s)) /\ Len(s) + i - Len(s) = i
      BY <2>1
    <3>2. QED BY <2>2, <3>1
  <2>4. \A i \in 1..Len(s) : i \in 1..Len(s) + Len(t) /\ i <= Len(s)
    BY <2>1
  <2>5. QED BY <2>1, <2>2, <2>3, <2>4
<1> HIDE DEF u
<1>2. Len(u) \in Nat /\ Len(s) <= Len(u)
  BY <1>1
<1>3. Traces(Replays(s), s, Len(s)) /\ Traces(Replays(u), u, Len(u))
  BY <1>1, <1>2, ReplaysTraces
<1>4. \A i \in 0..Len(s) : Replays(s)[i] = Replays(u)[i]
  <2>1. ASSUME NEW n \in Nat, NEW m \in Nat, n <= m, NEW f, NEW g, Traces(f, s, n),
               Traces(g, u, m), \A i \in 1..n : s[i] = u[i]
        PROVE  \A i \in 0..n : f[i] = g[i]
    BY <2>1, TracesSame
  <2>2. QED BY <1>1, <1>2, <1>3, <2>1
<1>5. ASSUME NEW i \in 1..Len(t)
      PROVE  Replays(u)[Len(s) + i] = Replayed(Replays(u)[Len(s) + i - 1], t[i])
  <2>1. Len(s) + i \in 1..Len(u)
    BY <1>1
  <2>2. Replays(u)[Len(s) + i] = Replayed(Replays(u)[Len(s) + i - 1], u[Len(s) + i])
    BY <1>2, <1>3, <2>1, TracesNext
  <2>3. QED BY <1>1, <2>2
<1>6. QED BY <1>1, <1>4, <1>5 DEF u

-----------------------------------------------------------------------------
(***************************************************************************)
(* What recovery makes of the journal is what Master says.                 *)
(***************************************************************************)
Events ==
  [type : {"JobAccepted", "JobStarted", "JobCompleted", "JobFailed", "JobTimedOut",
           "JobPostponed", "UploadFile"},
   job : Jobs \cup {NoJob}, result : Jobs \cup {NoJob}]

Agrees ==
  /\ log \in Seq(Events) /\ events = Len(log)
  /\ poisoned <=> ~ Recovered(log).ok
  /\ ~poisoned => durable = Recovered(log).db

\* Events are written by an actor that is alive, whose journal can be replayed.
JournalInv == Agrees /\ (Running => ~poisoned)

(***************************************************************************)
(* A batch of events.  What each of them makes of the database, as far as  *)
(* they are replayed: oks[n] and dbs[n] after n of them.                   *)
(***************************************************************************)
Replayable(s) == IF Len(s) <= Room THEN Len(s) ELSE Room

Follows(oks, dbs, s) ==
  /\ oks[0] /\ dbs[0] = durable
  /\ \A n \in 0..Replayable(s) : n < Replayable(s) =>
       /\ oks[n + 1] <=> oks[n] /\ Applies(dbs[n], s[n + 1])
       /\ oks[n + 1] => dbs[n + 1] = updated(dbs[n], s[n + 1])

\* Events whose handlers turn the database the way oks and dbs say are
\* replayed to the same database, or to the same exception.
LEMMA BatchReplays ==
  ASSUME Agrees, ~poisoned, NEW s \in Seq(Events), Writes(s),
         NEW ok \in BOOLEAN, NEW after, Journals(Len(s), ok, after),
         NEW oks, NEW dbs, Follows(oks, dbs, s),
         Room > 0 => (ok <=> oks[Replayable(s)]),
         Room > 0 /\ ok => after = dbs[Replayable(s)]
  PROVE  Agrees'
<1> DEFINE K == Replayable(s)
           R(n) == Replays(log \o s)[Len(log) + n]
<1>1. /\ Len(log) \in Nat /\ Len(s) \in Nat /\ ReplayTo \in Nat /\ Room \in Nat
      /\ K \in Nat /\ K <= Len(s) /\ K <= Room
      /\ Room = IF Len(log) < ReplayTo THEN ReplayTo - Len(log) ELSE 0
  BY MasterAssumption, LenProperties DEF Agrees, Room, Replayable
<1>2. /\ log' = log \o s /\ log' \in Seq(Events)
      /\ Len(log') = Len(log) + Len(s)
  BY ConcatProperties DEF Writes, Agrees
<1>3. Recovered(log) = Replays(log)[IF Len(log) <= ReplayTo THEN Len(log) ELSE ReplayTo]
  BY DEF Recovered
<1>4. Recovered(log') = Replays(log')[IF Len(log') <= ReplayTo THEN Len(log') ELSE ReplayTo]
  BY DEF Recovered
<1>5. CASE Room = 0
  <2>1. ~ (Len(log) < ReplayTo)
    BY <1>1, <1>5
  <2>2. Recovered(log) = Replays(log)[ReplayTo] /\ Recovered(log') = Replays(log')[ReplayTo]
    <3>1. (IF Len(log) <= ReplayTo THEN Len(log) ELSE ReplayTo) = ReplayTo
      BY <1>1, <2>1
    <3>2. (IF Len(log') <= ReplayTo THEN Len(log') ELSE ReplayTo) = ReplayTo
      BY <1>1, <1>2, <2>1
    <3>3. QED BY <1>3, <1>4, <3>1, <3>2
  <2>3. Recovered(log') = Recovered(log)
    <3>1. ReplayTo \in 0..Len(log)
      BY <1>1, <2>1
    <3>2. QED BY <1>2, <2>2, <3>1, ReplaysOn DEF Agrees
  <2>4. events' = Len(log') /\ durable' = durable /\ (poisoned' <=> poisoned)
    <3>1. ~ (Room > 0)
      BY <1>1, <1>5
    <3>2. QED BY <1>2, <3>1 DEF Journals, Agrees
  <2>5. QED BY <1>2, <2>3, <2>4 DEF Agrees
<1>6. CASE Room > 0
  <2>1. Recovered(log) = Replays(log)[Len(log)] /\ Recovered(log') = R(K)
    <3>1. (IF Len(log) <= ReplayTo THEN Len(log) ELSE ReplayTo) = Len(log)
      BY <1>1, <1>6
    <3>2. (IF Len(log') <= ReplayTo THEN Len(log') ELSE ReplayTo) = Len(log) + K
      BY <1>1, <1>2, <1>6 DEF Replayable
    <3>3. QED BY <1>2, <1>3, <1>4, <3>1, <3>2
  <2>2. R(0) = Recovered(log)
    <3>1. Len(log) + 0 = Len(log) /\ Len(log) \in 0..Len(log)
      BY <1>1
    <3>2. QED BY <2>1, <3>1, ReplaysOn DEF Agrees
  <2>3. ASSUME NEW n \in 0..K, n < K
        PROVE  R(n + 1) = Replayed(R(n), s[n + 1])
    <3>1. n + 1 \in 1..Len(s) /\ Len(log) + (n + 1) - 1 = Len(log) + n
      BY <1>1, <2>3
    <3>2. QED BY <3>1, ReplaysOn DEF Agrees
  <2> DEFINE S == {n \in Nat : (R(n).ok <=> oks[n]) /\ (oks[n] => R(n).db = dbs[n])}
  <2>4. 0 \in S
    BY <2>2 DEF Agrees, Follows
  <2>5. ASSUME NEW n \in 0..K, n < K, n \in S
        PROVE  n + 1 \in S
    <3>1. /\ oks[n + 1] <=> oks[n] /\ Applies(dbs[n], s[n + 1])
          /\ oks[n + 1] => dbs[n + 1] = updated(dbs[n], s[n + 1])
      BY <2>5 DEF Follows
    <3>2. /\ R(n + 1).ok <=> R(n).ok /\ Applies(R(n).db, s[n + 1])
          /\ R(n + 1).ok => R(n + 1).db = updated(R(n).db, s[n + 1])
      BY <2>3, <2>5, ReplayedEvent
    <3> HIDE DEF R
    <3>3. (R(n).ok <=> oks[n]) /\ (oks[n] => R(n).db = dbs[n]) /\ n + 1 \in Nat
      BY <2>5
    <3>4. QED BY <3>1, <3>2, <3>3
  <2>6. K \in S
    <3>1. 0..K \subseteq S
      <4> HIDE DEF S
      <4>1. QED BY <1>1, <2>4, <2>5, UpTo
    <3>2. QED BY <1>1, <3>1
  <2>7. /\ Recovered(log').ok <=> ok
        /\ ok => Recovered(log').db = after
    BY <1>6, <2>1, <2>6
  <2>8. /\ events' = Len(log')
        /\ durable' = IF ok THEN after ELSE durable
        /\ poisoned' = ~ok
    BY <1>2, <1>6 DEF Journals, Agrees
  <2>9. QED BY <1>2, <2>7, <2>8 DEF Agrees
<1>7. QED BY <1>1, <1>5, <1>6

-----------------------------------------------------------------------------
(***************************************************************************)
(* One event after the other, and a batch of them at once.                 *)
(***************************************************************************)
\* A prefix that is longer by one job.
LEMMA PrefixNext ==
  ASSUME NEW s \in Seq(Jobs), NEW n \in Nat, n < Len(s)
  PROVE  /\ SubSeq(s, 1, n) \in Seq(Jobs) /\ s[n + 1] \in Jobs
         /\ SubSeq(s, 1, n + 1) = SubSeq(s, 1, n) \o <<s[n + 1]>>
         /\ Range(SubSeq(s, 1, n + 1)) = Range(SubSeq(s, 1, n)) \cup {s[n + 1]}
         /\ IsInjective(SubSeq(s, 1, n + 1))
              <=> IsInjective(SubSeq(s, 1, n)) /\ s[n + 1] \notin Range(SubSeq(s, 1, n))
<1> DEFINE a == SubSeq(s, 1, n)
           b == SubSeq(s, 1, n + 1)
<1>1. Len(s) \in Nat /\ n \in 0..Len(s) /\ n + 1 \in 1..Len(s) /\ 1 \in 1..Len(s)
  BY LenProperties
<1>2. \A i \in 1..n + 1 : s[i] \in Jobs
  <2>1. \A i \in 1..n + 1 : i \in 1..Len(s)
    BY <1>1
  <2>2. QED BY <2>1, ElementOfSeq
<1>3. /\ a \in Seq(Jobs) /\ Len(a) = n /\ \A i \in 1..n : a[i] = s[i]
      /\ b \in Seq(Jobs) /\ Len(b) = n + 1 /\ \A i \in 1..n + 1 : b[i] = s[i]
  <2>1. \A i \in 1..n : s[i] \in Jobs
    BY <1>2
  <2>2. /\ a \in Seq(Jobs) /\ Len(a) = (IF 1 <= n THEN n - 1 + 1 ELSE 0)
        /\ \A i \in 1..n - 1 + 1 : a[i] = s[1 + i - 1]
    BY <2>1, SubSeqProperties
  <2>3. /\ b \in Seq(Jobs) /\ Len(b) = (IF 1 <= n + 1 THEN n + 1 - 1 + 1 ELSE 0)
        /\ \A i \in 1..n + 1 - 1 + 1 : b[i] = s[1 + i - 1]
    BY <1>2, SubSeqProperties
  <2> HIDE DEF a, b
  <2>4. QED BY <2>2, <2>3
<1>4. b = a \o <<s[n + 1]>>
  <2>1. n + 1 - 1 = n
    OBVIOUS
  <2>2. SubSeq(s, 1, n + 1) = SubSeq(s, 1, n + 1 - 1) \o <<s[n + 1]>>
    BY <1>1, SubSeqRecursiveSecond
  <2>3. QED BY <2>1, <2>2
<1> HIDE DEF a, b
<1>5. s[n + 1] \in Jobs /\ DOMAIN a = 1..n /\ DOMAIN b = 1..n + 1
  BY <1>2, <1>3, LenProperties
<1>6. Range(b) = Range(a) \cup {s[n + 1]}
  BY <1>3, <1>5 DEF Range
<1>7. ASSUME IsInjective(b)
      PROVE  IsInjective(a) /\ s[n + 1] \notin Range(a)
  <2>1. \A i, k \in 1..n + 1 : b[i] = b[k] => i = k
    BY <1>5, <1>7 DEF IsInjective
  <2>2. IsInjective(a)
    BY <1>3, <1>5, <2>1 DEF IsInjective
  <2>3. \A i \in 1..n : a[i] # s[n + 1]
    <3>1. \A i \in 1..n : i \in 1..n + 1 /\ n + 1 \in 1..n + 1 /\ i # n + 1
      OBVIOUS
    <3>2. QED BY <1>3, <2>1, <3>1
  <2>4. QED BY <1>5, <2>2, <2>3 DEF Range
<1>8. ASSUME IsInjective(a), s[n + 1] \notin Range(a)
      PROVE  IsInjective(b)
  <2>1. <<s[n + 1]>> \in Seq(Jobs) /\ IsInjective(<<s[n + 1]>>)
          /\ Range(<<s[n + 1]>>) = {s[n + 1]}
    BY <1>5, ElemsSingle
  <2>2. a \in Seq(Jobs) /\ Range(a) \cap Range(<<s[n + 1]>>) = {}
    BY <1>3, <1>8, <2>1
  <2>3. IsInjective(a \o <<s[n + 1]>>)
    BY <1>8, <2>1, <2>2, ElemsConcat
  <2>4. QED BY <1>4, <2>3
<1>9. QED BY <1>3, <1>4, <1>5, <1>6, <1>7, <1>8 DEF a, b

\* One job behind two queues.
LEMMA BehindBoth ==
  ASSUME NEW s \in Seq(Jobs), NEW t \in Seq(Jobs), NEW x \in Jobs
  PROVE  (s \o t) \o <<x>> = s \o (t \o <<x>>)
<1> DEFINE u == <<x>>
<1>1. u \in Seq(Jobs)
  OBVIOUS
<1> HIDE DEF u
<1>2. (s \o t) \o u = s \o (t \o u)
  BY <1>1, ConcatAssociative, SMTT(20)
<1>3. QED BY <1>2 DEF u

\* Accepting jobs and then another one is accepting them all.
LEMMA AcceptedTwice ==
  ASSUME NEW d \in JobStates, NEW a \in Seq(Jobs), NEW x \in Jobs, x \notin Range(a)
  PROVE  JobAccepted(JobAccepted(d, a), <<x>>) = JobAccepted(d, a \o <<x>>)
<1> DEFINE e == JobAccepted(d, a)
           f == JobAccepted(e, <<x>>)
           g == JobAccepted(d, a \o <<x>>)
<1>1. <<x>> \in Seq(Jobs) /\ Range(<<x>>) = {x} /\ Range(a \o <<x>>) = Range(a) \cup {x}
  BY ElemsSingle, ElemsConcat
<1>2. (d.pending \o a) \o <<x>> = d.pending \o (a \o <<x>>)
  <2>1. d.pending \in Seq(Jobs)
    BY DEF JobStates
  <2>2. QED BY <2>1, BehindBoth
<1>3. (d.accepted \cup Range(a)) \cup {x} = d.accepted \cup (Range(a) \cup {x})
  OBVIOUS
<1>4. e = [d EXCEPT !.pending = d.pending \o a, !.accepted = d.accepted \cup Range(a),
                    !.tasks = [j \in Jobs |-> IF j \in Range(a) THEN Append(d.tasks[j], "PENDING")
                                                               ELSE d.tasks[j]]]
  BY DEF JobAccepted
<1>5. e.tasks = [j \in Jobs |-> IF j \in Range(a) THEN Append(d.tasks[j], "PENDING")
                                                  ELSE d.tasks[j]]
  BY <1>4 DEF JobStates
<1>6. e.pending = d.pending \o a /\ e.accepted = d.accepted \cup Range(a)
  BY <1>4 DEF JobStates
<1>7. [j \in Jobs |-> IF j \in {x} THEN Append(e.tasks[j], "PENDING") ELSE e.tasks[j]]
        = [j \in Jobs |-> IF j \in Range(a) \cup {x} THEN Append(d.tasks[j], "PENDING")
                                                      ELSE d.tasks[j]]
  BY <1>5
<1> DEFINE p == d.pending \o (a \o <<x>>)
           q == d.accepted \cup (Range(a) \cup {x})
           t == [j \in Jobs |-> IF j \in Range(a) \cup {x} THEN Append(d.tasks[j], "PENDING")
                                                      ELSE d.tasks[j]]
<1>8. f = [e EXCEPT !.pending = p, !.accepted = q, !.tasks = t]
  BY <1>1, <1>2, <1>3, <1>6, <1>7 DEF JobAccepted
<1>9. g = [d EXCEPT !.pending = p, !.accepted = q, !.tasks = t]
  BY <1>1 DEF JobAccepted
<1> HIDE DEF e, f, g, p, q, t
<1>10. f = g
  BY <1>4, <1>8, <1>9 DEF JobStates
<1>11. QED BY <1>10 DEF f, g, e

\* Accepting no job changes nothing.
LEMMA AcceptedNone ==
  ASSUME NEW d \in JobStates
  PROVE  JobAccepted(d, <<>>) = d
<1>1. Range(<<>>) = {}
  BY DEF Range
<1>2. d.pending \o <<>> = d.pending
  BY ConcatEmptySeq DEF JobStates
<1>3. [j \in Jobs |-> IF j \in {} THEN Append(d.tasks[j], "PENDING") ELSE d.tasks[j]] = d.tasks
  BY DEF JobStates
<1>4. d.accepted \cup {} = d.accepted
  OBVIOUS
<1>5. QED BY <1>1, <1>2, <1>3, <1>4 DEF JobAccepted, JobStates

\* Timing out jobs and then another one is timing them all out.
LEMMA TimedOutTwice ==
  ASSUME NEW d \in JobStates, NEW a \in Seq(Jobs), NEW x \in Jobs
  PROVE  /\ JobTimedOut(JobTimedOut(d, a), <<x>>) = JobTimedOut(d, a \o <<x>>)
         /\ JobTimedOut(d, a).inProgress = d.inProgress \ Range(a)
<1> DEFINE e == JobTimedOut(d, a)
           f == JobTimedOut(e, <<x>>)
           g == JobTimedOut(d, a \o <<x>>)
           p == d.pending \o (a \o <<x>>)
           q == d.inProgress \ (Range(a) \cup {x})
           t == SetStatus(d.tasks, Range(a) \cup {x}, "TIMEDOUT")
<1>1. <<x>> \in Seq(Jobs) /\ Range(<<x>>) = {x} /\ Range(a \o <<x>>) = Range(a) \cup {x}
  BY ElemsSingle, ElemsConcat
<1>2. (d.pending \o a) \o <<x>> = p
  <2>1. d.pending \in Seq(Jobs)
    BY DEF JobStates
  <2>2. QED BY <2>1, BehindBoth
<1>3. (d.inProgress \ Range(a)) \ {x} = q
  OBVIOUS
<1>4. e = [d EXCEPT !.pending = d.pending \o a, !.inProgress = d.inProgress \ Range(a),
                    !.tasks = SetStatus(d.tasks, Range(a), "TIMEDOUT")]
  BY DEF JobTimedOut
<1>5. /\ e.tasks = SetStatus(d.tasks, Range(a), "TIMEDOUT")
      /\ e.pending = d.pending \o a /\ e.inProgress = d.inProgress \ Range(a)
  BY <1>4 DEF JobStates
<1>6. SetStatus(SetStatus(d.tasks, Range(a), "TIMEDOUT"), {x}, "TIMEDOUT") = t
  <2>1. d.tasks \in [Jobs -> Seq(Status)] /\ "TIMEDOUT" \in Status
    BY DEF JobStates, Status
  <2> DEFINE u == SetStatus(d.tasks, Range(a), "TIMEDOUT")
             v == SetStatus(u, {x}, "TIMEDOUT")
  <2>2. Range(a) \in SUBSET Jobs
    BY LenProperties DEF Range
  <2>3. ASSUME NEW j \in Jobs
        PROVE  v[j] = t[j]
    <3>1. d.tasks[j] \in Seq(Status)
      BY <2>1
    <3>2. u[j] = (IF j \in Range(a) /\ d.tasks[j] # <<>>
                  THEN [d.tasks[j] EXCEPT ![1] = "TIMEDOUT"] ELSE d.tasks[j])
      BY DEF SetStatus
    <3>3. v[j] = (IF j \in {x} /\ u[j] # <<>> THEN [u[j] EXCEPT ![1] = "TIMEDOUT"] ELSE u[j])
      BY DEF SetStatus
    <3>4. t[j] = (IF j \in Range(a) \cup {x} /\ d.tasks[j] # <<>>
                  THEN [d.tasks[j] EXCEPT ![1] = "TIMEDOUT"] ELSE d.tasks[j])
      BY DEF SetStatus
    <3>5. d.tasks[j] # <<>> => [d.tasks[j] EXCEPT ![1] = "TIMEDOUT"] # <<>>
      BY <2>1, <2>2, SetStatusTasks, <3>1, <3>2 DEF Retasked
    <3>6. [[d.tasks[j] EXCEPT ![1] = "TIMEDOUT"] EXCEPT ![1] = "TIMEDOUT"]
             = [d.tasks[j] EXCEPT ![1] = "TIMEDOUT"]
      OBVIOUS
    <3> HIDE DEF u, v, t
    <3>7. QED BY <3>2, <3>3, <3>4, <3>5, <3>6
  <2>4. v = [j \in Jobs |-> v[j]] /\ t = [j \in Jobs |-> t[j]]
    BY DEF SetStatus
  <2> HIDE DEF u, v, t
  <2>5. v = t
    BY <2>3, <2>4
  <2>6. QED BY <2>5 DEF u, v
<1>7. f = [e EXCEPT !.pending = p, !.inProgress = q, !.tasks = t]
  BY <1>1, <1>2, <1>3, <1>5, <1>6 DEF JobTimedOut
<1>8. g = [d EXCEPT !.pending = p, !.inProgress = q, !.tasks = t]
  BY <1>1 DEF JobTimedOut
<1> HIDE DEF e, f, g, p, q, t
<1>9. f = g
  BY <1>4, <1>7, <1>8 DEF JobStates
<1>10. QED BY <1>5, <1>9 DEF e, f, g

-----------------------------------------------------------------------------
(***************************************************************************)
(* A step that writes nothing, one event, or a batch.                      *)
(***************************************************************************)
\* A command that writes nothing, whether the actor restarts or not.
LEMMA NothingWritten ==
  ASSUME JournalInv, UNCHANGED journal, Writes(<<>>), status' = status \/ Restart
  PROVE  JournalInv'
<1>1. log' = log /\ events' = events /\ durable' = durable /\ poisoned' = poisoned
  BY ConcatEmptySeq DEF JournalInv, Agrees, Writes, journal
<1>2. Agrees'
  BY <1>1 DEF JournalInv, Agrees
<1>3. Running' => ~poisoned'
  BY <1>1 DEF JournalInv, Running, Restart
<1>4. QED BY <1>2, <1>3 DEF JournalInv

\* A command that writes one event.
LEMMA OneWritten ==
  ASSUME JournalInv, Running, NEW e \in Events, Writes(<<e>>),
         NEW ok \in BOOLEAN, NEW after, Journals(1, ok, after),
         Room > 0 => (ok <=> Applies(durable, e)),
         Room > 0 /\ ok => after = updated(durable, e),
         \/ status' = status /\ (Room > 0 => ok)
         \/ Restart
  PROVE  JournalInv'
<1> DEFINE oks == [n \in 0..1 |-> IF n = 0 THEN TRUE ELSE ok]
           dbs == [n \in 0..1 |-> IF n = 0 THEN durable ELSE after]
<1>1. Agrees /\ ~poisoned /\ <<e>> \in Seq(Events) /\ Len(<<e>>) = 1 /\ <<e>>[1] = e
  BY DEF JournalInv
<1>2. Room \in Nat /\ Replayable(<<e>>) = (IF Room > 0 THEN 1 ELSE 0)
  BY <1>1, MasterAssumption, LenProperties DEF Replayable, Room, Agrees
<1>3. /\ oks[0] = TRUE /\ oks[1] = ok
      /\ dbs[0] = durable /\ dbs[1] = after
  OBVIOUS
<1> HIDE DEF oks, dbs
<1>4. Follows(oks, dbs, <<e>>)
  <2>1. ASSUME NEW n \in 0..Replayable(<<e>>), n < Replayable(<<e>>)
        PROVE  n = 0 /\ n + 1 = 1 /\ Room > 0
    BY <1>2, <2>1
  <2>2. oks[0] /\ dbs[0] = durable
    BY <1>3
  <2>3. ASSUME NEW n \in 0..Replayable(<<e>>), n < Replayable(<<e>>)
        PROVE  /\ oks[n + 1] <=> oks[n] /\ Applies(dbs[n], <<e>>[n + 1])
               /\ oks[n + 1] => dbs[n + 1] = updated(dbs[n], <<e>>[n + 1])
    <3>1. n = 0 /\ n + 1 = 1 /\ Room > 0
      BY <2>1, <2>3
    <3>2. dbs[n] = durable /\ dbs[n + 1] = after /\ <<e>>[n + 1] = e
      BY <1>1, <1>3, <3>1
    <3>3. oks[n] /\ (oks[n + 1] <=> ok)
      BY <1>3, <3>1
    <3>4. QED BY <3>1, <3>2, <3>3
  <2>4. QED BY <2>2, <2>3 DEF Follows
<1>5. Room > 0 => /\ ok <=> oks[Replayable(<<e>>)]
                  /\ after = dbs[Replayable(<<e>>)]
  BY <1>2, <1>3
<1>6. Agrees'
  BY <1>1, <1>4, <1>5, BatchReplays
<1>7. Running' => ~poisoned'
  BY <1>1 DEF Journals, Restart, Running
<1>8. QED BY <1>6, <1>7 DEF JournalInv

\* A command line submission: one event for each of its jobs.
LEMMA AllAccepted ==
  ASSUME JournalInv, DbInv, Running, NEW s \in Seq(Jobs), IsInjective(s),
         Persist(Len(s), TRUE, JobAccepted(durable, Kept(s))),
         Writes([i \in DOMAIN s |-> Accepted(s[i])]), status' = status \/ Restart
  PROVE  JournalInv'
<1> DEFINE es == [i \in DOMAIN s |-> Accepted(s[i])]
           oks == [n \in 0..Len(s) |-> TRUE]
           dbs == [n \in 0..Len(s) |-> JobAccepted(durable, SubSeq(s, 1, n))]
           K == IF Len(s) <= Room THEN Len(s) ELSE Room
<1>1. Agrees /\ ~poisoned /\ durable \in JobStates
  BY DEF JournalInv, DbInv, Sound
<1>2. Len(s) \in Nat /\ DOMAIN s = 1..Len(s) /\ Room \in Nat
  BY <1>1, MasterAssumption, LenProperties DEF Room, Agrees
<1>3. es \in Seq(Events) /\ Len(es) = Len(s)
  <2>1. es \in [1..Len(s) -> Events]
    BY <1>2, ElementOfSeq DEF Accepted, Event, Events
  <2> HIDE DEF es
  <2>2. QED BY <1>2, <2>1
<1>4. Replayable(es) = K /\ K \in 0..Len(s) /\ Kept(s) = SubSeq(s, 1, K)
  BY <1>2, <1>3 DEF Replayable, Kept
<1>5. Follows(oks, dbs, es)
  <2>1. SubSeq(s, 1, 0) = <<>>
    BY SubSeqEmpty
  <2>2. dbs[0] = durable /\ oks[0]
    <3>1. 0 \in 0..Len(s)
      BY <1>2
    <3>2. oks[0]
      BY <3>1
    <3>3. dbs[0] = JobAccepted(durable, SubSeq(s, 1, 0))
      BY <3>1
    <3> HIDE DEF dbs, oks
    <3>4. QED BY <1>1, <2>1, <3>2, <3>3, AcceptedNone
  <2>3. ASSUME NEW n \in 0..K, n < K
        PROVE  /\ oks[n + 1] <=> oks[n] /\ Applies(dbs[n], es[n + 1])
               /\ oks[n + 1] => dbs[n + 1] = updated(dbs[n], es[n + 1])
    <3>1. n \in Nat /\ n < Len(s) /\ n \in 0..Len(s) /\ n + 1 \in 0..Len(s) /\ n + 1 \in DOMAIN s
      BY <1>2, <1>4, <2>3
    <3> DEFINE a == SubSeq(s, 1, n)
               x == s[n + 1]
    <3>2. a \in Seq(Jobs) /\ x \in Jobs /\ SubSeq(s, 1, n + 1) = a \o <<x>>
      BY <3>1, PrefixNext
    <3>3. x \notin Range(a)
      <4>1. SubSeq(s, 1, n + 1) \in Seq(Jobs) /\ IsInjective(SubSeq(s, 1, n + 1))
        BY <3>1, ElemsPrefix
      <4>2. QED BY <3>1, <4>1, PrefixNext
    <3>4. oks[n] /\ oks[n + 1] /\ dbs[n] = JobAccepted(durable, a)
            /\ dbs[n + 1] = JobAccepted(durable, SubSeq(s, 1, n + 1)) /\ es[n + 1] = Accepted(x)
      BY <3>1
    <3> HIDE DEF a, x, oks, dbs, es
    <3>5. dbs[n + 1] = JobAccepted(dbs[n], <<x>>)
      <4>1. JobAccepted(JobAccepted(durable, a), <<x>>) = JobAccepted(durable, a \o <<x>>)
        BY <1>1, <3>2, <3>3, AcceptedTwice
      <4>2. QED BY <3>2, <3>4, <4>1
    <3>6. Applies(dbs[n], es[n + 1]) /\ updated(dbs[n], es[n + 1]) = JobAccepted(dbs[n], <<x>>)
      BY <3>4 DEF Applies, updated, Accepted, Event
    <3>7. QED BY <3>4, <3>5, <3>6
  <2> HIDE DEF oks, dbs, es, K
  <2>4. QED BY <1>4, <2>2, <2>3 DEF Follows
<1>6. oks[Replayable(es)] /\ JobAccepted(durable, Kept(s)) = dbs[Replayable(es)]
  BY <1>4
<1> DEFINE after == JobAccepted(durable, Kept(s))
<1>7. Writes(es) /\ Journals(Len(es), TRUE, after)
  BY <1>3 DEF Persist
<1> HIDE DEF oks, dbs, es, after
<1>8. Agrees'
  BY <1>1, <1>3, <1>5, <1>6, <1>7, BatchReplays DEF after
<1>9. ~poisoned'
  BY <1>1 DEF Persist, Journals
<1>10. QED BY <1>8, <1>9 DEF JournalInv

\* The cleanup tick: one event for each of the late jobs.
LEMMA AllTimedOut ==
  ASSUME JournalInv, DbInv, Running, NEW s \in Seq(Jobs),
         Persist(Len(s), CanTimeOut(durable, Kept(s)), JobTimedOut(durable, Kept(s))),
         Writes([i \in DOMAIN s |-> TimedOut(s[i])])
  PROVE  Agrees' /\ (Room > 0 /\ ~CanTimeOut(durable, Kept(s)) <=> poisoned')
<1> DEFINE es == [i \in DOMAIN s |-> TimedOut(s[i])]
           oks == [n \in 0..Len(s) |-> CanTimeOut(durable, SubSeq(s, 1, n))]
           dbs == [n \in 0..Len(s) |-> JobTimedOut(durable, SubSeq(s, 1, n))]
           K == IF Len(s) <= Room THEN Len(s) ELSE Room
<1>1. Agrees /\ ~poisoned /\ durable \in JobStates /\ Sound(durable, Clear)
      /\ Clear \in SUBSET Jobs
  BY DEF JournalInv, DbInv, Sound, Clear
<1>2. Len(s) \in Nat /\ DOMAIN s = 1..Len(s) /\ Room \in Nat
  BY <1>1, MasterAssumption, LenProperties DEF Room, Agrees
<1>3. es \in Seq(Events) /\ Len(es) = Len(s)
  <2>1. es \in [1..Len(s) -> Events]
    BY <1>2, ElementOfSeq DEF TimedOut, Event, Events
  <2> HIDE DEF es
  <2>2. QED BY <1>2, <2>1
<1>4. Replayable(es) = K /\ K \in 0..Len(s) /\ Kept(s) = SubSeq(s, 1, K)
  BY <1>2, <1>3 DEF Replayable, Kept
<1>5. Follows(oks, dbs, es)
  <2>1. SubSeq(s, 1, 0) = <<>>
    BY SubSeqEmpty
  <2>2. CanTimeOut(durable, <<>>)
    BY DEF CanTimeOut, IsInjective, Range
  <2>3. dbs[0] = durable /\ oks[0]
    <3>1. 0 \in 0..Len(s)
      BY <1>2
    <3>2. oks[0] <=> CanTimeOut(durable, SubSeq(s, 1, 0))
      BY <3>1
    <3>3. dbs[0] = JobTimedOut(durable, SubSeq(s, 1, 0))
      BY <3>1
    <3> HIDE DEF dbs, oks
    <3>4. QED BY <1>1, <2>1, <2>2, <3>2, <3>3, TimedOutNone
  <2>4. ASSUME NEW n \in 0..K, n < K
        PROVE  /\ oks[n + 1] <=> oks[n] /\ Applies(dbs[n], es[n + 1])
               /\ oks[n + 1] => dbs[n + 1] = updated(dbs[n], es[n + 1])
    <3>1. n \in Nat /\ n < Len(s) /\ n \in 0..Len(s) /\ n + 1 \in 0..Len(s) /\ n + 1 \in DOMAIN s
      BY <1>2, <1>4, <2>4
    <3> DEFINE a == SubSeq(s, 1, n)
               b == SubSeq(s, 1, n + 1)
               x == s[n + 1]
    <3>2. a \in Seq(Jobs) /\ x \in Jobs /\ b = a \o <<x>> /\ Range(b) = Range(a) \cup {x}
            /\ (IsInjective(b) <=> IsInjective(a) /\ x \notin Range(a))
      BY <3>1, PrefixNext
    <3>3. /\ oks[n] <=> CanTimeOut(durable, a)
          /\ oks[n + 1] <=> CanTimeOut(durable, b)
          /\ dbs[n] = JobTimedOut(durable, a) /\ dbs[n + 1] = JobTimedOut(durable, b)
          /\ es[n + 1] = TimedOut(x)
      BY <3>1
    <3> HIDE DEF a, b, x, oks, dbs, es
    <3>4. dbs[n + 1] = JobTimedOut(dbs[n], <<x>>) /\ dbs[n].inProgress = durable.inProgress \ Range(a)
      BY <1>1, <3>2, <3>3, TimedOutTwice
    <3>5. /\ Applies(dbs[n], es[n + 1]) <=> x \in dbs[n].inProgress
          /\ updated(dbs[n], es[n + 1]) = JobTimedOut(dbs[n], <<x>>)
      BY <3>3 DEF Applies, updated, TimedOut, Event, isInProgress
    <3>6. CanTimeOut(durable, b)
            <=> CanTimeOut(durable, a) /\ x \in durable.inProgress \ Range(a)
      BY <3>2 DEF CanTimeOut
    <3>7. QED BY <3>3, <3>4, <3>5, <3>6
  <2> HIDE DEF oks, dbs, es, K
  <2>5. QED BY <1>4, <2>3, <2>4 DEF Follows
<1> DEFINE after == JobTimedOut(durable, Kept(s))
           ok == CanTimeOut(durable, Kept(s))
<1>6. (ok <=> oks[Replayable(es)]) /\ after = dbs[Replayable(es)]
  BY <1>4
<1>7. Writes(es) /\ Journals(Len(es), ok, after) /\ ok \in BOOLEAN
  BY <1>3 DEF CanTimeOut, Persist
<1> HIDE DEF oks, dbs, es, after, ok
<1>8. Agrees'
  BY <1>1, <1>3, <1>5, <1>6, <1>7, BatchReplays
<1>9. poisoned' <=> Room > 0 /\ ~ok
  BY <1>1, <1>7 DEF Journals
<1>10. QED BY <1>8, <1>9 DEF ok

\* The events of the part of a batch that is written.
LEMMA WrittenPart ==
  ASSUME NEW s \in Seq(Jobs), IsInjective(s), NEW n \in 0..Len(s)
  PROVE  /\ SubSeq(s, 1, n) \in Seq(Jobs) /\ IsInjective(SubSeq(s, 1, n))
         /\ Len(SubSeq(s, 1, n)) = n
         /\ SubSeq([i \in DOMAIN s |-> Accepted(s[i])], 1, n)
              = [i \in DOMAIN SubSeq(s, 1, n) |-> Accepted(SubSeq(s, 1, n)[i])]
<1> DEFINE es == [i \in DOMAIN s |-> Accepted(s[i])]
           written == SubSeq(s, 1, n)
           part == SubSeq(es, 1, n)
<1>1. Len(s) \in Nat /\ DOMAIN s = 1..Len(s) /\ \A i \in 1..Len(s) : s[i] \in Jobs
  BY LenProperties, ElementOfSeq
<1>2. es \in Seq(Events) /\ Len(es) = Len(s) /\ \A i \in 1..Len(s) : es[i] = Accepted(s[i])
  <2>1. es \in [1..Len(s) -> Events]
    BY <1>1 DEF Accepted, Event, Events
  <2>2. \A i \in 1..Len(s) : es[i] = Accepted(s[i])
    BY <1>1
  <2> HIDE DEF es
  <2>3. QED BY <1>1, <2>1, <2>2
<1>3. n \in Nat /\ n <= Len(s) /\ \A i \in 1..n : i \in 1..Len(s)
  BY <1>1
<1> HIDE DEF es
<1>4. /\ written \in Seq(Jobs) /\ Len(written) = n /\ \A i \in 1..n : written[i] = s[i]
  BY <1>1, <1>3
<1>5. /\ part \in Seq(Events) /\ Len(part) = n /\ \A i \in 1..n : part[i] = es[i]
  <2>1. \A i \in 1..n : es[i] \in Events
    BY <1>2, <1>3, ElementOfSeq
  <2>2. QED BY <1>2, <1>3, <2>1
<1>6. IsInjective(written)
  BY ElemsPrefix
<1> HIDE DEF part, written
<1>7. part = [i \in 1..n |-> part[i]] /\ DOMAIN written = 1..n
  BY <1>4, <1>5, LenProperties
<1>8. \A i \in 1..n : part[i] = Accepted(written[i])
  BY <1>2, <1>3, <1>4, <1>5
<1>9. part = [i \in DOMAIN written |-> Accepted(written[i])]
  BY <1>7, <1>8
<1>10. QED BY <1>4, <1>6, <1>9 DEF es, part, written

-----------------------------------------------------------------------------
(***************************************************************************)
(* Every command writes what its handler does to the database.             *)
(***************************************************************************)
\* The commands of the clients.
LEMMA ClientWritesAgree ==
  ASSUME TypeInv, JournalInv, ClientWrites
  PROVE  JournalInv'
<1>1. DbInv /\ JobStates = JobStates
  BY DEF TypeInv
<1>2. ASSUME NEW j \in Jobs, ClientSendsJob(j), WritesIf(~isAccepted(db, j), Accepted(j))
      PROVE  JournalInv'
  <2>1. Running /\ onJob(j)
    BY <1>2 DEF ClientSendsJob, onJob
  <2>2. CASE isAccepted(db, j)
    <3>1. UNCHANGED <<journal, status>> /\ Writes(<<>>)
      BY <1>2, <2>1, <2>2 DEF onJob, WritesIf
    <3>2. QED BY <3>1, NothingWritten
  <2>3. CASE ~isAccepted(db, j)
    <3> DEFINE after == JobAccepted(durable, <<j>>)
    <3>1. Persist(1, TRUE, after) /\ status' = status /\ Writes(<<Accepted(j)>>)
      BY <1>2, <2>1, <2>3 DEF onJob, WritesIf
    <3>2. Accepted(j) \in Events /\ Applies(durable, Accepted(j))
            /\ after = updated(durable, Accepted(j))
      BY DEF Accepted, Event, Events, Applies, updated
    <3> HIDE DEF after
    <3>3. Journals(1, TRUE, after)
      BY <3>1 DEF Persist
    <3>4. QED BY <2>1, <3>1, <3>2, <3>3, OneWritten
  <2>4. QED BY <2>2, <2>3
<1>3. ASSUME NEW s \in NewJobs, processCmdLineJob(s),
             Writes([i \in DOMAIN s |-> Accepted(s[i])])
      PROVE  JournalInv'
  <2>1. s \in Seq(Jobs) /\ IsInjective(s)
    BY <1>1, NewJobsFacts
  <2>2. Running /\ Persist(Len(s), TRUE, JobAccepted(durable, Kept(s))) /\ status' = status
    BY <1>3 DEF processCmdLineJob
  <2>3. QED BY <1>1, <1>3, <2>1, <2>2, AllAccepted
<1>4. ASSUME NEW t \in Trackings, NEW cancel \in BOOLEAN, onTrackingInfo(t, cancel), Writes(<<>>)
      PROVE  JournalInv'
  BY <1>4, NothingWritten DEF onTrackingInfo
<1>5. ASSUME NEW f \in Files, onUploadFile(f), Writes(<<Uploaded>>)
      PROVE  JournalInv'
  <2>1. Running /\ Journals(1, TRUE, durable) /\ status' = status
    BY <1>5 DEF onUploadFile, Persist
  <2>2. Uploaded \in Events /\ Applies(durable, Uploaded) /\ durable = updated(durable, Uploaded)
    BY DEF Uploaded, Event, Events, Applies, updated
  <2>3. QED BY <1>5, <2>1, <2>2, OneWritten
<1>6. ASSUME NEW s \in NewJobs, NEW n \in 0..Len(s), CrashesInBatch(s, n),
             Writes(SubSeq([i \in DOMAIN s |-> Accepted(s[i])], 1, n))
      PROVE  JournalInv'
  <2> DEFINE written == SubSeq(s, 1, n)
  <2>1. s \in Seq(Jobs) /\ IsInjective(s)
    BY <1>1, NewJobsFacts
  <2>2. /\ written \in Seq(Jobs) /\ IsInjective(written) /\ Len(written) = n
        /\ SubSeq([i \in DOMAIN s |-> Accepted(s[i])], 1, n)
             = [i \in DOMAIN written |-> Accepted(written[i])]
    BY <2>1, WrittenPart
  <2>3. /\ Running /\ Restart
        /\ Persist(Len(written), TRUE, JobAccepted(durable, Kept(written)))
    BY <1>6, <2>2 DEF CrashesInBatch
  <2> HIDE DEF written
  <2>4. Writes([i \in DOMAIN written |-> Accepted(written[i])])
    BY <1>6, <2>2
  <2>5. QED BY <1>1, <2>2, <2>3, <2>4, AllAccepted
<1>7. QED BY <1>2, <1>3, <1>4, <1>5, <1>6 DEF ClientWrites

\* A request for work starts or postpones a job.
LEMMA RequestWritesAgree ==
  ASSUME TypeInv, JournalInv, NEW w \in Workers, RequestWrites(w)
  PROVE  JournalInv'
<1> DEFINE j == nextJob(db)
<1>1. DbInv /\ Running /\ onWorkerRequestsWork(w)
  BY DEF TypeInv, RequestWrites, onWorkerRequestsWork
<1>2. hasJob(db) => j \in Jobs
  BY <1>1, NextJobType
<1>3. CASE hasJob(db) /\ IsIdle(w) /\ WorkerRole[w] = RoleOf[j]
  <2>1. /\ Journals(1, CanStart(durable, j), JobStarted(durable, j))
        /\ status' = status /\ Writes(<<Started(j)>>)
    BY <1>1, <1>3 DEF onWorkerRequestsWork, RequestWrites, WritesIf, Persist
  <2>2. Started(j) \in Events
    BY <1>2, <1>3 DEF Started, Event, Events
  <2>3. /\ Applies(durable, Started(j)) <=> CanStart(durable, j)
        /\ updated(durable, Started(j)) = JobStarted(durable, j)
    BY DEF Started, Event, Applies, updated
  <2>4. CanStart(durable, j) \in BOOLEAN /\ (Room > 0 => CanStart(durable, j))
    BY <1>1, <1>3, RoomSame DEF CanStart
  <2> HIDE DEF j
  <2>5. QED BY <1>1, <2>1, <2>2, <2>3, <2>4, OneWritten
<1>4. CASE hasJob(db) /\ IsIdle(w) /\ WorkerRole[w] # RoleOf[j]
  <2>1. /\ Journals(1, CanPostpone(durable), JobPostponed(durable, j))
        /\ status' = status /\ Writes(<<Postponed(j)>>)
    BY <1>1, <1>4 DEF onWorkerRequestsWork, RequestWrites, WritesIf, Persist
  <2>2. Postponed(j) \in Events
    BY <1>2, <1>4 DEF Postponed, Event, Events
  <2>3. /\ Applies(durable, Postponed(j)) <=> CanPostpone(durable)
        /\ updated(durable, Postponed(j)) = JobPostponed(durable, j)
    BY DEF Postponed, Event, Applies, updated
  <2>4. CanPostpone(durable) \in BOOLEAN /\ (Room > 0 => CanPostpone(durable))
    BY <1>1, <1>4, RoomSame DEF CanPostpone, hasJob
  <2> HIDE DEF j
  <2>5. QED BY <1>1, <2>1, <2>2, <2>3, <2>4, OneWritten
<1>5. CASE ~ (hasJob(db) /\ IsIdle(w))
  <2>1. Writes(<<>>)
    BY <1>5 DEF RequestWrites, WritesIf
  <2>2. UNCHANGED journal /\ (status' = status \/ Restart)
    BY <1>1, <1>5 DEF onWorkerRequestsWork, FailsOnUnknownWorker, masterVars
  <2>3. QED BY <2>1, <2>2, NothingWritten
<1>6. QED BY <1>3, <1>4, <1>5

\* A worker reports success, with the result of this job or of another one.
LEMMA DoneWritesAgree ==
  ASSUME TypeInv, JournalInv, NEW w \in Workers, NEW j \in Jobs, NEW r \in Jobs,
         onWorkIsDone(w, j, r),
         WritesIf(isInProgress(db, j) /\ ~isDone(db, j) /\ IsKnown(w), Completed(j, r))
  PROVE  JournalInv'
<1>1. DbInv /\ Running
  BY DEF TypeInv, onWorkIsDone
<1>2. CASE isInProgress(db, j) /\ ~isDone(db, j) /\ IsKnown(w)
  <2> DEFINE ok == CanRecord(durable, r)
  <2>1. Writes(<<Completed(j, r)>>)
    BY <1>2 DEF WritesIf
  <2>2. \/ /\ CanRecord(db, r) /\ Journals(1, ok, JobCompleted(durable, j, r)) /\ status' = status
        \/ /\ ~CanRecord(db, r) /\ Journals(1, ok, durable) /\ Restart
    BY <1>2 DEF onWorkIsDone, FailsOnUnknownWorker, Persist, PersistVerdict
  <2>3. Completed(j, r) \in Events
    BY DEF Completed, Event, Events
  <2>4. /\ Applies(durable, Completed(j, r)) <=> ok
        /\ updated(durable, Completed(j, r)) = JobCompleted(durable, j, r)
    BY DEF Completed, Event, Applies, updated
  <2>5. ok \in BOOLEAN /\ (Room > 0 => (ok <=> CanRecord(db, r)))
    BY <1>1, RoomSame DEF CanRecord
  <2> HIDE DEF ok
  <2>6. CASE CanRecord(db, r) /\ Journals(1, ok, JobCompleted(durable, j, r)) /\ status' = status
    BY <1>1, <2>1, <2>3, <2>4, <2>5, <2>6, OneWritten
  <2>7. CASE ~CanRecord(db, r) /\ Journals(1, ok, durable) /\ Restart
    BY <1>1, <2>1, <2>3, <2>4, <2>5, <2>7, OneWritten
  <2>8. QED BY <2>2, <2>6, <2>7
<1>3. CASE ~ (isInProgress(db, j) /\ ~isDone(db, j) /\ IsKnown(w))
  <2>1. Writes(<<>>)
    BY <1>3 DEF WritesIf
  <2>2. UNCHANGED journal /\ (status' = status \/ Restart)
    BY <1>3 DEF onWorkIsDone, FailsOnUnknownWorker, masterVars
  <2>3. QED BY <2>1, <2>2, NothingWritten
<1>4. QED BY <1>2, <1>3

\* A worker reports failure, with or without a result.
LEMMA FailedWritesAgree ==
  ASSUME TypeInv, JournalInv, NEW w \in Workers, NEW j \in Jobs, NEW r \in Jobs \cup {NoJob},
         onWorkFailed(w, j, r), WritesIf(isInProgress(db, j) /\ IsKnown(w), Failed(j, r))
  PROVE  JournalInv'
<1>1. DbInv /\ Running
  BY DEF TypeInv, onWorkFailed
<1>2. CASE isInProgress(db, j) /\ IsKnown(w)
  <2> DEFINE ok == CanRecord(durable, r)
  <2>1. Writes(<<Failed(j, r)>>)
    BY <1>2 DEF WritesIf
  <2>2. \/ /\ CanRecord(db, r) /\ Journals(1, ok, JobFailed(durable, j, r)) /\ status' = status
        \/ /\ ~CanRecord(db, r) /\ Journals(1, ok, durable) /\ Restart
    BY <1>2 DEF onWorkFailed, FailsOnUnknownWorker, Persist, PersistVerdict
  <2>3. Failed(j, r) \in Events
    BY DEF Failed, Event, Events
  <2>4. /\ Applies(durable, Failed(j, r)) <=> ok
        /\ updated(durable, Failed(j, r)) = JobFailed(durable, j, r)
    BY DEF Failed, Event, Applies, updated
  <2>5. ok \in BOOLEAN /\ (Room > 0 => (ok <=> CanRecord(db, r)))
    BY <1>1, RoomSame DEF CanRecord
  <2> HIDE DEF ok
  <2>6. CASE CanRecord(db, r) /\ Journals(1, ok, JobFailed(durable, j, r)) /\ status' = status
    BY <1>1, <2>1, <2>3, <2>4, <2>5, <2>6, OneWritten
  <2>7. CASE ~CanRecord(db, r) /\ Journals(1, ok, durable) /\ Restart
    BY <1>1, <2>1, <2>3, <2>4, <2>5, <2>7, OneWritten
  <2>8. QED BY <2>2, <2>6, <2>7
<1>3. CASE ~ (isInProgress(db, j) /\ IsKnown(w))
  <2>1. Writes(<<>>)
    BY <1>3 DEF WritesIf
  <2>2. UNCHANGED journal /\ (status' = status \/ Restart)
    BY <1>3 DEF onWorkFailed, FailsOnUnknownWorker, masterVars
  <2>3. QED BY <2>1, <2>2, NothingWritten
<1>4. QED BY <1>2, <1>3

\* The cleanup tick.
LEMMA TickWritesAgree ==
  ASSUME TypeInv, JournalInv, TickWrites
  PROVE  JournalInv'
<1>1. DbInv /\ WorkersInv /\ Running
  BY DEF TypeInv, TickWrites
<1>2. PICK order \in Orders({w \in Overdue : IsBusy(w)}) :
        /\ TakeBack(order)
        /\ Writes([i \in DOMAIN order |-> TimedOut(workers[order[i]].job)])
  BY DEF TickWrites
<1> DEFINE late == [i \in DOMAIN order |-> workers[order[i]].job]
<1>3. late \in Seq(Jobs)
  BY <1>1, LateJobs
<1>4. /\ Persist(Len(late), CanTimeOut(durable, Kept(late)), JobTimedOut(durable, Kept(late)))
      /\ (CanTimeOut(db, late) /\ status' = status) \/ Restart
  BY <1>2 DEF TakeBack
<1>5. [i \in DOMAIN order |-> TimedOut(workers[order[i]].job)]
        = [i \in DOMAIN late |-> TimedOut(late[i])]
  OBVIOUS
<1>6. Writes([i \in DOMAIN late |-> TimedOut(late[i])])
  BY <1>2, <1>5
<1> HIDE DEF late
<1>7. Agrees' /\ (Room > 0 /\ ~CanTimeOut(durable, Kept(late)) <=> poisoned')
  BY <1>1, <1>3, <1>4, <1>6, AllTimedOut
<1>8. CASE CanTimeOut(db, late)
  <2>1. CanTimeOut(db, Kept(late))
    BY <1>1, <1>3, <1>8, KeptPrefix DEF CanTimeOut
  <2>2. ~poisoned'
    BY <1>1, <1>7, <2>1, RoomSame
  <2>3. QED BY <1>7, <2>2 DEF JournalInv
<1>9. CASE Restart
  BY <1>7, <1>9 DEF JournalInv, Restart, Running
<1>10. QED BY <1>4, <1>8, <1>9

\* Every command keeps the journal in agreement.
LEMMA JournalNextAgrees ==
  ASSUME TypeInv, JournalInv, JournalNext
  PROVE  JournalInv'
<1>1. ASSUME NEW w \in Workers, ReportWrites(w)
      PROVE  JournalInv'
  BY <1>1, DoneWritesAgree, FailedWritesAgree DEF ReportWrites
<1>2. ASSUME NEW w \in Workers, SilentStep(w), Writes(<<>>)
      PROVE  JournalInv'
  <2>1. UNCHANGED journal /\ (status' = status \/ Restart)
    BY <1>2 DEF SilentStep, onRegisterWorker, onWorkInProgress, onWorkerRequestsFile,
                onFileUploadComplete, DeadlinePasses
  <2>2. QED BY <1>2, <2>1, NothingWritten
<1>3. ASSUME Crash, Writes(<<>>)
      PROVE  JournalInv'
  BY <1>3, NothingWritten DEF Crash
<1>4. QED BY <1>1, <1>2, <1>3, ClientWritesAgree, RequestWritesAgree, TickWritesAgree
          DEF JournalNext

\* A step that writes the journal is a step of the master.
LEMMA JournalStepsAreSteps ==
  ASSUME JournalNext
  PROVE  Next
<1>1. ASSUME ClientWrites PROVE Next
  BY <1>1 DEF ClientWrites, ClientStep, Next
<1>2. ASSUME NEW w \in Workers, RequestWrites(w) \/ ReportWrites(w) PROVE Next
  BY <1>2 DEF RequestWrites, ReportWrites, WorkerStep, Next
<1>3. ASSUME NEW w \in Workers, SilentStep(w) PROVE Next
  BY <1>3 DEF SilentStep, WorkerStep, Next
<1>4. ASSUME TickWrites PROVE Next
  BY <1>4 DEF TickWrites, onCleanupTick, Next
<1>5. QED BY <1>1, <1>2, <1>3, <1>4 DEF JournalNext, Next

\* The agreement is an invariant.
LEMMA JournalInvariance == JournalSpec => [](TypeInv /\ JournalInv)
<1>1. Init /\ log = <<>> => TypeInv /\ JournalInv
  <2>1. SUFFICES ASSUME Init, log = <<>>
                 PROVE  JournalInv
    BY TypeInvInit
  <2>2. log \in Seq(Events) /\ Len(log) = 0
    BY <2>1, EmptySeq
  <2>3. (IF Len(log) <= ReplayTo THEN Len(log) ELSE ReplayTo) = 0
    BY <2>2, MasterAssumption
  <2>4. Recovered(log) = Replays(log)[0]
    BY <2>3 DEF Recovered
  <2>5. Traces(Replays(log), log, 0)
    BY <2>2, ReplaysTraces
  <2>6. Recovered(log) = Fresh
    BY <2>4, <2>5 DEF Traces
  <2>7. QED BY <2>1, <2>2, <2>6 DEF Init, JournalInv, Agrees, Fresh
<1>2. TypeInv /\ JournalInv /\ [JournalNext]_<<masterVars, log>> => TypeInv' /\ JournalInv'
  <2>1. CASE JournalNext
    BY <2>1, JournalNextAgrees, JournalStepsAreSteps, NextTypes
  <2>2. ASSUME TypeInv, JournalInv, UNCHANGED <<masterVars, log>>
        PROVE  TypeInv' /\ JournalInv'
    <3>1. UNCHANGED <<log, events, poisoned, durable, status>>
      BY <2>2 DEF masterVars, journal
    <3>2. JournalInv'
      BY <2>2, <3>1 DEF JournalInv, Agrees, Running
    <3>3. QED BY <2>2, <3>2, StutterTypes
  <2>3. QED BY <2>1, <2>2
<1>3. QED BY <1>1, <1>2, PTL DEF JournalSpec

-----------------------------------------------------------------------------
(***************************************************************************)
(* The theorems.                                                           *)
(***************************************************************************)
\* What module Master says of the journal is what recovery, which replays
\* the events one by one, makes of it - for every journal, however long.
THEOREM JournalReplaysAsSaid == JournalSpec => []JournalReplays
<1>1. TypeInv /\ JournalInv => JournalReplays
  BY DEF TypeInv, DbInv, JournalInv, Agrees, JournalReplays
<1>2. QED BY <1>1, JournalInvariance, PTL

\* The database of a master that runs is the one a crash would recover,
\* while the journal is no longer than what recovery replays.
THEOREM CrashesLoseNothing == JournalSpec => []LiveIsRecovered
<1>1. TypeInv /\ JournalInv => LiveIsRecovered
  BY DEF TypeInv, DbInv, JournalInv, Agrees, LiveIsRecovered
<1>2. QED BY <1>1, JournalInvariance, PTL

\* Writing the journal adds no behaviour to the master: whatever holds of
\* every master holds of the one with a journal.
THEOREM JournalSpecIsMaster == JournalSpec => Spec
<1>1. JournalNext => Next
  BY JournalStepsAreSteps
<1>2. UNCHANGED <<masterVars, log>> => UNCHANGED masterVars
  OBVIOUS
<1>3. QED BY <1>1, <1>2, PTL DEF JournalSpec, Spec
=============================================================================
