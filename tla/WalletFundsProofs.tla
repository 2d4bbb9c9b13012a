------------------------- MODULE WalletFundsProofs -------------------------
(***************************************************************************)
(* Theorems about WalletFunds, for any number of outpoints, calls, restarts, *)
(* initializations and failures, as long as no asset operation is among the  *)
(* calls: those take no lock, and FlagCoversPending, Repairable and           *)
(* OwnSyncSuffices say so with AllLocked.                                     *)
(***************************************************************************)
EXTENDS WalletFunds, TLAPS

-----------------------------------------------------------------------------
(* Types. *)

Jobs == Calls \cup {Boot}

\* What a synchronisation answers.
Reads == SUBSET (Coins \X State)

JobType ==
    [kind : Kind, stage : Stage, picked : SUBSET Coins, out : SUBSET Coins, own : BOOLEAN,
     read : Reads, delta : BOOLEAN, beside : BOOLEAN]

IsSync ==
    /\ sync = [phase |-> sync.phase, bootstrap |-> sync.bootstrap, answer |-> sync.answer,
               since |-> sync.since, waiters |-> sync.waiters]
    /\ sync.phase \in {"fetching", "saving", "advancing", "reconciling"}
    /\ sync.bootstrap \in BOOLEAN
    /\ DOMAIN sync.answer \subseteq Coins
    /\ \A c \in DOMAIN sync.answer : sync.answer[c] \in State
    /\ sync.since \subseteq Coins /\ sync.waiters \subseteq Jobs

Types ==
    /\ ledger \in [Coins -> State] /\ cache \in [Coins -> State]
    /\ txs \subseteq Tx /\ flag \in BOOLEAN /\ cursor \in BOOLEAN /\ fresh \subseteq Coins
    /\ (sync = NoSync \/ IsSync)
    /\ job \in [Jobs -> JobType]
    /\ job[Boot].kind = "boot" /\ \A i \in Calls : job[i].kind # "boot"
    /\ queue \in Seq(Calls)

\* While a recovery runs, every call that takes the lock first knows it.
CallsKnow ==
    /\ Running(Boot) => \A i \in Calls : LocksFirst(i) /\ Running(i) => job[i].beside
    /\ job[Boot].stage \in {"idle", "syncing", "picking", "asking", "finishing", "ended"}

\* Who is synchronising waits for the one synchronisation under way.
WaitersWait ==
    /\ sync = NoSync => \A i \in Jobs : job[i].stage # "syncing"
    /\ sync # NoSync => sync.waiters = {i \in Jobs : job[i].stage = "syncing"}

Base == Types /\ CallsKnow /\ WaitersWait

-----------------------------------------------------------------------------
(* The lock: a call is in the queue exactly while it needs the lock, once,   *)
(* and past the wait for it only at the head.                                 *)

InLine(i) ==
    \/ LocksFirst(i) /\ Running(i)
    \/ job[i].kind = "renew" /\ job[i].stage \in {"queued", "joining", "booking"}

Inside(i) == InLine(i) /\ job[i].stage # "queued"

QueueIsExact ==
    /\ \A i \in Calls : InLine(i) <=> \E n \in 1 .. Len(queue) : queue[n] = i
    /\ \A m, n \in 1 .. Len(queue) : queue[m] = queue[n] => m = n
    /\ \A i \in Calls : Inside(i) => HoldsLock(i)

\* Which kinds come to which stages.
StageFits(i) ==
    /\ job[i].stage \in {"building", "submitting", "finalizing", "unflagging"}
          => job[i].kind = "send"
    /\ job[i].stage = "joining" => job[i].kind \in {"settle", "renew"}
    /\ job[i].stage \in {"queued", "booking"} => job[i].kind \in {"send", "settle", "renew"}
    /\ job[i].stage \notin {"asking", "finishing"}
    /\ job[i].stage \notin {"finalizing", "unflagging", "booking"} => job[i].out = {}
    /\ LocksFirst(i) /\ job[i].stage \in {"idle", "queued"} => ~job[i].own

StagesFit == \A i \in Calls : StageFits(i)

LineInv == QueueIsExact /\ StagesFit

-----------------------------------------------------------------------------
(* Transactions the server holds: two never share an input or an output, and *)
(* the call that finalizes one knows it.                                      *)

TxsApart ==
    /\ \A t \in txs : ledger[t.out] = "none"
    /\ \A t \in txs : \A c \in t.ins : ledger[c] \in {"preconfirmed", "settled"}
    /\ \A t, u \in txs : t # u => t.out # u.out /\ t.by # u.by /\ t.ins \cap u.ins = {}
    /\ \A t \in txs : job[t.by].stage \in {"finalizing", "ended"}
    /\ \A i \in Calls : job[i].stage = "finalizing" =>
         \A t \in txs : t.by = i => t.ins = job[i].picked /\ job[i].out = {t.out}

\* The transaction of a call is finalized, by it or by a recovery.
Done(i) == \/ job[i].stage \in {"unflagging", "booking"}
           \/ job[i].stage = "finalizing" /\ \A t \in txs : t.by # i

\* What a call is about to book has become so at the server, and stays so.
BooksWhatIs(i) ==
    Done(i) =>
        /\ \A c \in job[i].picked : ledger[c] = "spent"
        /\ \A c \in job[i].out : ledger[c] = "preconfirmed"
        /\ \A t \in txs : t.ins \cap job[i].out = {}

BooksTruth == \A i \in Calls : BooksWhatIs(i)

-----------------------------------------------------------------------------
(* The synchronisation: what it misses has changed since it began.           *)

Right(c) == cache[c] = ledger[c]

SyncCovers ==
    /\ \A c \in Coins : ledger[c] = "none" => cache[c] = "none"
    /\ \A c \in Coins : Right(c) \/ c \in fresh \/ ~cursor
    /\ sync # NoSync =>
         /\ sync.since \subseteq fresh
         /\ \A c \in DOMAIN sync.answer :
              /\ sync.answer[c] = ledger[c] \/ c \in sync.since
              /\ ledger[c] = "none" => sync.answer[c] = "none"
         /\ sync.phase = "fetching" => sync.answer = <<>>
         /\ sync.phase = "fetching" /\ ~sync.bootstrap =>
              \A c \in Coins : Right(c) \/ c \in fresh
         /\ sync.phase = "saving" =>
              \A c \in Coins \ DOMAIN sync.answer : Right(c) \/ c \in sync.since
         /\ sync.phase \in {"advancing", "reconciling"} =>
              \A c \in Coins : Right(c) \/ c \in sync.since

-----------------------------------------------------------------------------
(* The cache is behind the server, never beside it: a VTXO that it holds and  *)
(* that the server has as preconfirmed or settled, it holds as such.          *)

Known(c) == cache[c] # "none"

\* What has been seen of a VTXO is what it is, or was before it was spent.
Behind(s, c) == s # "none" /\ ledger[c] \in {"preconfirmed", "settled"} => s = ledger[c]

CacheBehind ==
    /\ \A c \in Coins : Behind(cache[c], c)
    /\ sync # NoSync => \A c \in DOMAIN sync.answer :
         /\ Behind(sync.answer[c], c)
         /\ sync.phase \in {"advancing", "reconciling"} /\ sync.answer[c] # "none" => Known(c)
    /\ \A i \in Calls : \A x \in job[i].read : x[2] # "none" => Known(x[1])
    /\ \A i \in Calls : job[i].stage \in {"building", "submitting"} =>
         \A c \in job[i].picked : Known(c)
    /\ \A t \in txs : \A c \in t.ins : Known(c)

-----------------------------------------------------------------------------
(* The flag, and what the recovery is going to find.                          *)

Lasts(t) == ~t.overtaken /\ \E c \in t.ins : ledger[c] = "preconfirmed"

FlagHolds ==
    /\ \A t \in txs : flag \/ ~Lasts(t)
    /\ \A i \in Calls : job[i].stage \in {"submitting", "finalizing"} => flag \/ job[i].beside

RecoveryFinds ==
    /\ job[Boot].stage = "asking" =>
         \A t \in txs : Lasts(t) => t.ins \cap job[Boot].picked # {}
    /\ job[Boot].stage = "finishing" /\ job[Boot].own =>
         \A t \in txs : Lasts(t) => t.out \in job[Boot].picked

-----------------------------------------------------------------------------
(* A call with the lock and a synchronisation of its own, with no recovery    *)
(* beside it.                                                                 *)

Own(i) == LocksFirst(i) /\ job[i].own /\ ~job[i].beside

OwnHolds(i) ==
    /\ job[i].stage \in {"syncing", "picking"} /\ sync # NoSync =>
         \A c \in sync.since : ledger[c] # "spent"
    /\ job[i].stage = "picking" =>
         /\ job[i].delta => \A c \in Coins : ledger[c] = "spent" => cache[c] \notin Unspent
         /\ ~job[i].delta =>
              \A c \in Coins, s \in Unspent : <<c, s>> \in job[i].read => ledger[c] # "spent"
    /\ job[i].stage \in {"building", "submitting", "joining"} =>
         \A c \in job[i].picked : ledger[c] # "spent"

OwnIsEnough == \A i \in Calls : Own(i) => OwnHolds(i)

FundsInv ==
    /\ LineInv /\ TxsApart /\ BooksTruth /\ SyncCovers /\ CacheBehind /\ FlagHolds
    /\ RecoveryFinds /\ OwnIsEnough

-----------------------------------------------------------------------------
(* Types. *)

KindsKept == \A k \in Jobs : job'[k].kind = job[k].kind

\* Only the job i moves.
Alone(i) == \A k \in Jobs \ {i} : job'[k] = job[k]

\* The parts of a job, and of one that ends.
LEMMA JobParts ==
  ASSUME Types, NEW i \in Jobs
  PROVE  /\ job[i].kind \in Kind /\ job[i].stage \in Stage /\ job[i].picked \subseteq Coins
         /\ job[i].out \subseteq Coins /\ job[i].own \in BOOLEAN /\ job[i].delta \in BOOLEAN
         /\ job[i].beside \in BOOLEAN /\ job[i].read \in Reads
BY DEF Types, JobType

LEMMA EndedType ==
  ASSUME NEW k \in Kind
  PROVE  Ended(k) \in JobType /\ Idle(k) \in JobType
BY DEF Ended, Idle, Blank, JobType, Stage, Reads

LEMMA EndedParts ==
  ASSUME NEW k
  PROVE  /\ Ended(k).kind = k /\ Ended(k).stage = "ended" /\ Ended(k).picked = {}
         /\ Ended(k).out = {} /\ Ended(k).own = FALSE /\ Ended(k).read = {}
         /\ Idle(k).kind = k /\ Idle(k).stage = "idle" /\ Idle(k).picked = {}
         /\ Idle(k).out = {} /\ Idle(k).own = FALSE /\ Idle(k).read = {}
BY DEF Ended, Idle, Blank

\* The queue after a call has let it go.
LEMMA ReleaseType ==
  ASSUME queue \in Seq(Calls), NEW i, Release(i)
  PROVE  queue' \in Seq(Calls)
<1>1. CASE queue = <<>>
  BY <1>1 DEF Release
<1>2. CASE queue # <<>>
  BY <1>2 DEF Release
<1> QED BY <1>1, <1>2

\* A call that ends leaves the others alone.
LEMMA EndsEffect ==
  ASSUME Types, NEW i \in Jobs, Ends(i)
  PROVE  /\ job' \in [Jobs -> JobType] /\ queue' \in Seq(Calls) /\ KindsKept /\ Alone(i)
         /\ job'[i].stage = "ended" /\ job'[i].picked = {} /\ job'[i].out = {}
         /\ job'[i].own = FALSE /\ job'[i].read = {}
<1>1. job' = [job EXCEPT ![i] = Ended(job[i].kind)] /\ job'[i] = Ended(job[i].kind)
  BY DEF Ends, Types
<1>2. Ended(job[i].kind) \in JobType
  BY JobParts, EndedType
<1>3. queue' \in Seq(Calls)
  BY ReleaseType DEF Ends, Types
<1>4. /\ Ended(job[i].kind).kind = job[i].kind /\ Ended(job[i].kind).stage = "ended"
      /\ Ended(job[i].kind).picked = {} /\ Ended(job[i].kind).out = {}
      /\ Ended(job[i].kind).own = FALSE /\ Ended(job[i].kind).read = {}
  BY DEF Ended, Blank
<1> QED BY <1>1, <1>2, <1>3, <1>4 DEF Types, KindsKept, Alone

\* A call that goes on: its stage and perhaps other parts change.
LEMMA GoesOn ==
  ASSUME Types, NEW i \in Jobs, NEW r \in JobType, r.kind = job[i].kind,
         job' = [job EXCEPT ![i] = r]
  PROVE  job' \in [Jobs -> JobType] /\ KindsKept /\ Alone(i) /\ job'[i] = r
BY DEF Types, KindsKept, Alone

\* Types of what does not change but for the job and the queue.
LEMMA JobTypes ==
  ASSUME Types, UNCHANGED <<ledger, txs, cache, cursor, fresh>>, flag' \in BOOLEAN,
         sync' = sync, job' \in [Jobs -> JobType], KindsKept, queue' \in Seq(Calls)
  PROVE  Types'
BY DEF Types, KindsKept, IsSync, Jobs

\* Updates of a job's parts.
LEMMA JobUpdates ==
  /\ \A r \in JobType, x \in Stage : [r EXCEPT !.stage = x] \in JobType
  /\ \A r \in JobType, x \in SUBSET Coins : [r EXCEPT !.picked = x] \in JobType
  /\ \A r \in JobType, x \in SUBSET Coins : [r EXCEPT !.out = x] \in JobType
  /\ \A r \in JobType, x \in BOOLEAN : [r EXCEPT !.own = x] \in JobType
  /\ \A r \in JobType, x \in Reads : [r EXCEPT !.read = x] \in JobType
  /\ \A r \in JobType, x \in BOOLEAN : [r EXCEPT !.delta = x] \in JobType
  /\ \A r \in JobType, x \in BOOLEAN : [r EXCEPT !.beside = x] \in JobType
BY DEF JobType

LEMMA SomeValues == /\ {"syncing", "queued", "picking", "asking", "finishing"} \subseteq Stage
                    /\ {} \in Reads
BY DEF Stage, Reads

LEMMA JobDomain ==
  ASSUME NEW r \in JobType
  PROVE  DOMAIN r = {"kind", "stage", "picked", "out", "own", "read", "delta",
                      "beside"}
BY DEF JobType

\* Whoever asks for a synchronisation waits for it.
LEMMA AwaitsEffect ==
  ASSUME Types, NEW i \in Jobs, Awaits(i)
  PROVE  /\ IsSync' /\ sync' # NoSync
         /\ sync = NoSync => /\ sync'.phase = "fetching" /\ sync'.bootstrap = ~cursor
                             /\ sync'.answer = <<>> /\ sync'.since = {}
                             /\ sync'.waiters = {i}
         /\ sync # NoSync => /\ sync'.phase = sync.phase /\ sync'.bootstrap = sync.bootstrap
                             /\ sync'.answer = sync.answer /\ sync'.since = sync.since
                             /\ sync'.waiters = sync.waiters \cup {i}
<1>1. CASE sync = NoSync
  <2>1. sync' = [phase |-> "fetching", bootstrap |-> ~cursor, answer |-> <<>>, since |-> {},
                 waiters |-> {i}]
    BY <1>1 DEF Awaits, StartSync
  <2>2. IsSync'
    BY <2>1 DEF IsSync, Types
  <2> QED BY <1>1, <2>1, <2>2 DEF NoSync
<1>2. CASE sync # NoSync
  <2>1. sync' = [sync EXCEPT !.waiters = @ \cup {i}] /\ IsSync
    BY <1>2 DEF Awaits, Types
  <2>2. sync' = [phase |-> sync.phase, bootstrap |-> sync.bootstrap, answer |-> sync.answer,
                 since |-> sync.since, waiters |-> sync.waiters \cup {i}]
    BY <2>1 DEF IsSync
  <2>3. /\ sync'.phase = sync.phase /\ sync'.bootstrap = sync.bootstrap
        /\ sync'.answer = sync.answer /\ sync'.since = sync.since
        /\ sync'.waiters = sync.waiters \cup {i}
    BY <2>2
  <2>4. IsSync'
    BY <2>1, <2>2, <2>3 DEF IsSync
  <2>5. sync'.phase # "none"
    BY <2>1, <2>3 DEF IsSync
  <2> QED BY <1>2, <2>3, <2>4, <2>5 DEF NoSync
<1> QED BY <1>1, <1>2

\* A call that joins a synchronisation, or begins one.
LEMMA JoinsEffect ==
  ASSUME Types, NEW i \in Jobs, Joins(i)
  PROVE  /\ job' \in [Jobs -> JobType] /\ KindsKept /\ Alone(i)
         /\ IsSync' /\ sync' # NoSync
         /\ job'[i].stage = "syncing" /\ job'[i].picked = job[i].picked
         /\ job'[i].out = job[i].out /\ job'[i].delta = job[i].delta
         /\ job'[i].read = job[i].read /\ job'[i].beside = job[i].beside
         /\ job'[i].own = (LocksFirst(i) /\ sync = NoSync)
<1> DEFINE own == LocksFirst(i) /\ sync = NoSync
<1> DEFINE new == [job[i] EXCEPT !.stage = "syncing", !.own = own]
<1>1. job' = [job EXCEPT ![i] = new] /\ Awaits(i)
  BY DEF Joins
<1>2. job[i] \in JobType /\ own \in BOOLEAN
  BY DEF Types, LocksFirst
<1> HIDE DEF own
<1>3. new \in JobType
  <2>1. \A r \in JobType : [r EXCEPT !.stage = "syncing"] \in JobType
    BY SomeValues, JobUpdates
  <2>2. \A r \in JobType : [r EXCEPT !.own = own] \in JobType
    BY <1>2, JobUpdates
  <2> QED BY <1>2, <2>1, <2>2
<1>4. /\ new.kind = job[i].kind /\ new.stage = "syncing" /\ new.picked = job[i].picked
      /\ new.out = job[i].out /\ new.delta = job[i].delta /\ new.read = job[i].read
      /\ new.beside = job[i].beside /\ new.own = own
  BY <1>2, JobDomain
<1> HIDE DEF new
<1>5. job' \in [Jobs -> JobType] /\ KindsKept /\ Alone(i) /\ job'[i] = new
  BY <1>1, <1>3, <1>4, GoesOn
<1>6. IsSync' /\ sync' # NoSync
  BY <1>1, AwaitsEffect
<1> QED BY <1>4, <1>5, <1>6 DEF own

\* A call that queues for the lock from the start.
QueuesUp(i) == job' = [job EXCEPT ![i].stage = "queued", ![i].beside = Running(Boot)]

LEMMA QueuesEffect ==
  ASSUME Types, NEW i \in Jobs, QueuesUp(i)
  PROVE  /\ job' \in [Jobs -> JobType] /\ KindsKept /\ Alone(i)
         /\ job'[i].stage = "queued" /\ job'[i].picked = job[i].picked
         /\ job'[i].out = job[i].out /\ job'[i].delta = job[i].delta
         /\ job'[i].read = job[i].read /\ job'[i].own = job[i].own
         /\ job'[i].beside = Running(Boot)
<1> DEFINE b == Running(Boot)
<1> DEFINE new == [job[i] EXCEPT !.stage = "queued", !.beside = b]
<1>1. job' = [job EXCEPT ![i] = new]
  BY DEF QueuesUp
<1>2. job[i] \in JobType /\ b \in BOOLEAN
  BY DEF Types, Running
<1> HIDE DEF b
<1>3. new \in JobType
  <2>1. \A r \in JobType : [r EXCEPT !.stage = "queued"] \in JobType
    BY SomeValues, JobUpdates
  <2>2. \A r \in JobType : [r EXCEPT !.beside = b] \in JobType
    BY <1>2, JobUpdates
  <2> QED BY <1>2, <2>1, <2>2
<1>4. /\ new.kind = job[i].kind /\ new.stage = "queued" /\ new.picked = job[i].picked
      /\ new.out = job[i].out /\ new.delta = job[i].delta /\ new.read = job[i].read
      /\ new.own = job[i].own /\ new.beside = b
  BY <1>2, JobDomain
<1> HIDE DEF new
<1>5. job' \in [Jobs -> JobType] /\ KindsKept /\ Alone(i) /\ job'[i] = new
  BY <1>1, <1>3, <1>4, GoesOn
<1> QED BY <1>4, <1>5 DEF b

\* A call that passes on to its next stage.
LEMMA ToEffect ==
  ASSUME Types, NEW i \in Jobs, NEW s \in Stage, To(i, s)
  PROVE  /\ job' \in [Jobs -> JobType] /\ KindsKept
         /\ Alone(i)
         /\ job'[i].stage = s /\ job'[i].picked = job[i].picked
         /\ job'[i].out = job[i].out /\ job'[i].own = job[i].own
         /\ job'[i].delta = job[i].delta /\ job'[i].read = job[i].read
         /\ job'[i].beside = job[i].beside
<1>1. job[i] \in JobType /\ job'[i] = [job[i] EXCEPT !.stage = s]
      /\ job' = [job EXCEPT ![i] = [job[i] EXCEPT !.stage = s]]
  BY DEF Types, To
<1>2. job'[i] \in JobType /\ job'[i].kind = job[i].kind
  BY <1>1 DEF JobType
<1> QED BY <1>1, <1>2 DEF JobType, KindsKept, Types, Alone

LEMMA PicksEffect ==
  ASSUME Types, NEW i \in Jobs, NEW S \in SUBSET Coins, NEW s \in Stage, Picks(i, S, s)
  PROVE  /\ job' \in [Jobs -> JobType] /\ KindsKept
         /\ Alone(i)
         /\ job'[i].stage = s /\ job'[i].picked = S
         /\ job'[i].out = job[i].out /\ job'[i].own = job[i].own
         /\ job'[i].read = {} /\ job'[i].beside = job[i].beside
<1>1. /\ job[i] \in JobType
      /\ job' = [job EXCEPT ![i] = [job[i] EXCEPT !.stage = s, !.picked = S, !.read = {},
                                                  !.delta = TRUE]]
  BY DEF Types, Picks
<1>2. job'[i] = [job[i] EXCEPT !.stage = s, !.picked = S, !.read = {}, !.delta = TRUE]
  BY <1>1 DEF Types
<1>3. DOMAIN job[i] = {"kind", "stage", "picked", "out", "own", "read", "delta", "beside"}
  BY <1>1, JobDomain
<1>4. /\ job'[i].kind = job[i].kind /\ job'[i].stage = s /\ job'[i].picked = S
      /\ job'[i].out = job[i].out /\ job'[i].own = job[i].own
      /\ job'[i].read = {} /\ job'[i].delta = TRUE /\ job'[i].beside = job[i].beside
  BY <1>2, <1>3
<1>5. job'[i] \in JobType
  <2>1. \A r \in JobType : [r EXCEPT !.stage = s] \in JobType
    BY DEF JobType
  <2>2. \A r \in JobType : [r EXCEPT !.picked = S] \in JobType
    BY DEF JobType
  <2>3. \A r \in JobType : [r EXCEPT !.read = {}] \in JobType
    BY SomeValues, JobUpdates
  <2>4. \A r \in JobType : [r EXCEPT !.delta = TRUE] \in JobType
    BY DEF JobType
  <2> QED BY <1>1, <1>2, <2>1, <2>2, <2>3, <2>4
<1> QED BY <1>1, <1>2, <1>4, <1>5 DEF KindsKept, Types, Alone

\* What a change at the server does to the synchronisation.
LEMMA ChangedEffect ==
  ASSUME Types, NEW S \in SUBSET Coins, Changed(S)
  PROVE  /\ fresh' = fresh \cup S /\ fresh' \subseteq Coins
         /\ sync' = NoSync \/ IsSync'
         /\ sync' = NoSync <=> sync = NoSync
         /\ sync # NoSync => /\ sync'.phase = sync.phase /\ sync'.answer = sync.answer
                             /\ sync'.bootstrap = sync.bootstrap
                             /\ sync'.waiters = sync.waiters
                             /\ sync'.since = sync.since \cup S
<1>1. CASE sync = NoSync
  BY <1>1 DEF Changed, Types
<1>2. CASE sync # NoSync
  <2>1. IsSync /\ sync' = [sync EXCEPT !.since = @ \cup S]
    BY <1>2 DEF Changed, Types
  <2>2. /\ sync'.phase = sync.phase /\ sync'.answer = sync.answer
        /\ sync'.bootstrap = sync.bootstrap /\ sync'.waiters = sync.waiters
        /\ sync'.since = sync.since \cup S
        /\ sync' = [phase |-> sync.phase, bootstrap |-> sync.bootstrap, answer |-> sync.answer,
                    since |-> sync.since \cup S, waiters |-> sync.waiters]
    BY <2>1 DEF IsSync
  <2>3. IsSync'
    BY <2>1, <2>2 DEF IsSync
  <2>4. sync'.phase # "none" /\ sync' # NoSync
    BY <2>1, <2>2 DEF IsSync, NoSync
  <2> QED BY <1>2, <2>2, <2>3, <2>4 DEF Changed, Types
<1> QED BY <1>1, <1>2

\* A transaction that is finalized.
LEMMA FinalizedEffect ==
  ASSUME Types, NEW t \in txs, Finalized(t)
  PROVE  /\ t \in Tx /\ t.ins \subseteq Coins /\ t.out \in Coins /\ t.by \in Calls
         /\ txs' = txs \ {t} /\ Changed(t.ins \cup {t.out})
         /\ ledger' \in [Coins -> State]
         /\ \A c \in Coins : ledger'[c] = IF c \in t.ins THEN "spent"
                                          ELSE IF c = t.out THEN "preconfirmed" ELSE ledger[c]
<1>1. t \in Tx /\ t.ins \subseteq Coins /\ t.out \in Coins /\ t.by \in Calls
  BY DEF Types, Tx
<1> QED BY <1>1 DEF Finalized, Spent, Types, State

\* The end of a synchronisation.
LEMMA AnsweredEffect ==
  ASSUME Types, IsSync, NEW read \in Reads, NEW delta \in BOOLEAN,
         Answered(read, delta)
  PROVE  /\ sync' = NoSync /\ job' \in [Jobs -> JobType] /\ KindsKept
         /\ \A k \in Jobs : k \notin sync.waiters => job'[k] = job[k]
         /\ \A k \in Jobs : k \in sync.waiters =>
              /\ job'[k].stage = "picking" /\ job'[k].read = read /\ job'[k].delta = delta
              /\ job'[k].picked = job[k].picked /\ job'[k].out = job[k].out
              /\ job'[k].own = job[k].own /\ job'[k].beside = job[k].beside
<1>1. DOMAIN job = Jobs
  BY DEF Types
<1>2. /\ sync' = NoSync
      /\ job' = [i \in Jobs |-> IF i \in sync.waiters
                   THEN [job[i] EXCEPT !.stage = "picking", !.read = read, !.delta = delta]
                   ELSE job[i]]
  BY <1>1 DEF Answered
<1>3. ASSUME NEW k \in Jobs, k \in sync.waiters
      PROVE  /\ job'[k] \in JobType /\ job'[k].kind = job[k].kind
             /\ job'[k].stage = "picking" /\ job'[k].read = read /\ job'[k].delta = delta
             /\ job'[k].picked = job[k].picked /\ job'[k].out = job[k].out
             /\ job'[k].own = job[k].own /\ job'[k].beside = job[k].beside
  <2>1. job[k] \in JobType /\ "picking" \in Stage
    BY DEF Types, Stage
  <2>2. job'[k] = [job[k] EXCEPT !.stage = "picking", !.read = read, !.delta = delta]
    BY <1>2, <1>3
  <2>3. job'[k] \in JobType
    <3>1. \A r \in JobType : [r EXCEPT !.stage = "picking"] \in JobType
      BY <2>1, JobUpdates
    <3>2. \A r \in JobType : [r EXCEPT !.read = read] \in JobType
      BY JobUpdates
    <3>3. \A r \in JobType : [r EXCEPT !.delta = delta] \in JobType
      BY JobUpdates
    <3> QED BY <2>1, <2>2, <3>1, <3>2, <3>3
  <2> QED BY <2>1, <2>2, <2>3, JobDomain
<1>4. \A k \in Jobs : k \notin sync.waiters => job'[k] = job[k]
  BY <1>2
<1>5. job' \in [Jobs -> JobType]
  BY <1>2, <1>3, <1>4 DEF Types
<1> QED BY <1>2, <1>3, <1>4, <1>5 DEF KindsKept

\* Types of what a step at the server changes.
LEMMA ServerTypes ==
  ASSUME Types, NEW S \in SUBSET Coins, Changed(S), ledger' \in [Coins -> State],
         txs' \subseteq Tx, cache' = cache, flag' = flag, cursor' = cursor,
         job' \in [Jobs -> JobType], KindsKept, queue' \in Seq(Calls)
  PROVE  Types'
<1>1. fresh' \subseteq Coins /\ (sync' = NoSync \/ IsSync')
  BY ChangedEffect
<1> QED BY <1>1 DEF Types, KindsKept, Jobs

\* Every call of the program, and its kind.
LEMMA CallIsJob == \A i \in Calls : i \in Jobs
BY DEF Jobs

LEMMA SpentType ==
  ASSUME Types, NEW S, NEW out, NEW st \in State, Spent(S, out, st)
  PROVE  ledger' \in [Coins -> State]
BY DEF Types, Spent, State

\* What a call of getVtxos offers exists.
LEMMA OfferedType == \A i : Offered(i) \subseteq Coins
BY DEF Offered

LEMMA OverlookedType ==
  ASSUME Types PROVE {[t EXCEPT !.overtaken = TRUE] : t \in txs} \subseteq Tx
BY DEF Types, Tx

LEMMA WorksTypes ==
  ASSUME Base, NEW i \in Calls, Works(i) \/ FinalizeFails(i)
  PROVE  Types' /\ KindsKept
<1> USE DEF Base
<1> USE CallIsJob
<1>1. ASSUME Ends(i), UNCHANGED <<ledger, txs, fresh, sync>>, flag' \in BOOLEAN,
             cursor' \in BOOLEAN, cache' \in [Coins -> State]
      PROVE  Types' /\ KindsKept
  <2>1. job' \in [Jobs -> JobType] /\ queue' \in Seq(Calls) /\ KindsKept
    BY <1>1, EndsEffect
  <2> QED BY <1>1, <2>1 DEF Types, KindsKept, IsSync, Jobs
<1>2. ASSUME NEW stage \in Stage, To(i, stage), UNCHANGED <<ledger, txs, cache, cursor, fresh, sync>>,
             flag' \in BOOLEAN, queue' \in Seq(Calls)
      PROVE  Types' /\ KindsKept
  BY <1>2, ToEffect, JobTypes
<1>3. ASSUME NEW S \in SUBSET Coins, NEW stage \in Stage, Picks(i, S, stage), queue' \in Seq(Calls)
      PROVE  Types' /\ KindsKept
  <2>1. job' \in [Jobs -> JobType] /\ KindsKept
    BY <1>3, PicksEffect
  <2> QED BY <1>3, <2>1, JobTypes DEF Picks, server, stored, Types
<1>4. ASSUME Joins(i), UNCHANGED <<ledger, txs, cache, flag, cursor, fresh>>, queue' \in Seq(Calls)
      PROVE  Types' /\ KindsKept
  BY <1>4, JoinsEffect DEF Types, KindsKept, Jobs
<1>5. queue \in Seq(Calls) /\ Append(queue, i) \in Seq(Calls)
  BY DEF Types
<1> USE DEF server, stored
<1>6. CASE Begin(i)
  <2>1. CASE LocksFirst(i)
    <3>1. /\ QueuesUp(i) /\ queue' = Append(queue, i)
          /\ UNCHANGED <<ledger, txs, cache, flag, cursor, fresh, sync>>
      BY <1>6, <2>1 DEF Begin, Enters, QueuesUp
    <3> QED BY <1>5, <3>1, QueuesEffect, JobTypes DEF Types
  <2>2. CASE ~LocksFirst(i)
    BY <1>6, <2>2, <1>4, <1>5 DEF Begin
  <2> QED BY <2>1, <2>2
<1>7. CASE ClearSyncCursors(i)
  BY <1>7, <1>1 DEF ClearSyncCursors, Types
<1>8. CASE Acquire(i)
  BY <1>8, <1>2, <1>4, <1>5 DEF Acquire, Stage, Types
<1>9. CASE SetPendingTxFlag(i)
  BY <1>9, <1>2, <1>5 DEF SetPendingTxFlag, Stage
<1>10. CASE PickSend(i) \/ PickAsset(i) \/ PickSettle(i) \/ PickRenewal(i)
  <2>1. PICK S \in SUBSET Coins, stage \in Stage : Picks(i, S, stage)
    BY <1>10, OfferedType DEF PickSend, PickAsset, PickSettle, PickRenewal, Stage
  <2>2. queue' \in Seq(Calls)
    BY <1>5, <1>10 DEF PickSend, PickAsset, PickSettle, PickRenewal, Enters
  <2> QED BY <2>1, <2>2, <1>3
<1>11. CASE PickNothing(i) \/ SubmitRefused(i) \/ FinalizeFails(i)
  BY <1>11, <1>1 DEF PickNothing, SubmitRefused, FinalizeFails, Types
<1>12. CASE SubmitTx(i)
  <2>0. PICK c \in Outputs :
          /\ txs' = txs \cup {[ins |-> job[i].picked, out |-> c, by |-> i,
                            overtaken |-> job[i].beside]}
          /\ \/ /\ job' = [job EXCEPT ![i].stage = "finalizing", ![i].out = {c}]
                /\ UNCHANGED <<queue, lost>>
             \/ lost < MaxLost /\ lost' = lost + 1 /\ Ends(i)
    BY <1>12 DEF SubmitTx
  <2>a. c \in Coins
    BY DEF Outputs
  <2>b. [ins |-> job[i].picked, out |-> c, by |-> i,
                            overtaken |-> job[i].beside] \in Tx
    BY <2>a, JobParts DEF Tx
  <2>1. \/ job' = [job EXCEPT ![i].stage = "finalizing", ![i].out = {c}] /\ UNCHANGED queue
        \/ Ends(i)
    BY <2>0
  <2>2. txs' \subseteq Tx
    BY <2>0, <2>b DEF Types
  <2>3. job' \in [Jobs -> JobType] /\ KindsKept /\ queue' \in Seq(Calls)
    <3>1. CASE Ends(i)
      BY <3>1, EndsEffect DEF KindsKept
    <3>2. CASE job' = [job EXCEPT ![i].stage = "finalizing", ![i].out = {c}] /\ UNCHANGED queue
      <4>1. job[i] \in JobType /\ "finalizing" \in Stage /\ {c} \in SUBSET Coins
        BY <2>a DEF Types, Stage
      <4>2. \A r \in JobType : [r EXCEPT !.stage = "finalizing"] \in JobType
        BY <4>1, JobUpdates
      <4>3. \A r \in JobType : [r EXCEPT !.out = {c}] \in JobType
        BY <4>1, JobUpdates
      <4>4. [job[i] EXCEPT !.stage = "finalizing", !.out = {c}] \in JobType
        BY <4>1, <4>2, <4>3
      <4>5. [job[i] EXCEPT !.stage = "finalizing", !.out = {c}].kind = job[i].kind
        BY <4>1, JobDomain
      <4>6. job' = [job EXCEPT ![i] = [job[i] EXCEPT !.stage = "finalizing", !.out = {c}]]
        BY <3>2
      <4> QED BY <3>2, <4>4, <4>5, <4>6, <1>5, GoesOn DEF KindsKept
    <3> QED BY <2>1, <3>1, <3>2
  <2> QED BY <1>12, <2>2, <2>3 DEF SubmitTx, Types, KindsKept, IsSync, Jobs
<1>13. CASE FinalizeTx(i)
  <2>1. PICK t \in txs : Finalized(t)
    BY <1>13 DEF FinalizeTx
  <2>a. (To(i, "unflagging") /\ UNCHANGED queue) \/ Ends(i)
    BY <1>13 DEF FinalizeTx
  <2>2. job' \in [Jobs -> JobType] /\ KindsKept /\ queue' \in Seq(Calls)
    BY <2>a, <1>5, ToEffect, EndsEffect DEF Stage, KindsKept
  <2>4. /\ txs' \subseteq Tx /\ ledger' \in [Coins -> State]
        /\ t.ins \cup {t.out} \in SUBSET Coins
        /\ Changed(t.ins \cup {t.out})
    BY <2>1, FinalizedEffect DEF Types
  <2> QED BY <1>13, <2>2, <2>4, ServerTypes DEF FinalizeTx
<1>17. CASE FinalizeAgain(i)
  BY <1>17, <1>1, <1>2, <1>5 DEF FinalizeAgain, Stage, Types
<1>14. CASE ClearPendingTxFlag(i)
  <2>1. txs' \subseteq Tx /\ flag' \in BOOLEAN
    BY <1>14, OverlookedType DEF ClearPendingTxFlag
  <2>2. job' \in [Jobs -> JobType] /\ KindsKept /\ queue' \in Seq(Calls)
    BY <1>14, <1>5, ToEffect, EndsEffect DEF ClearPendingTxFlag, Stage, KindsKept
  <2> QED BY <1>14, <2>1, <2>2 DEF ClearPendingTxFlag, Types, KindsKept, IsSync, Jobs
<1>15. CASE JoinBatch(i)
  <2>1. job' \in [Jobs -> JobType] /\ KindsKept /\ queue' \in Seq(Calls)
    BY <1>15, <1>5, ToEffect, EndsEffect DEF JoinBatch, Stage, KindsKept
  <2>2. CASE \E c \in Outputs : Spent(job[i].picked, c, "settled") /\ Changed(job[i].picked \cup {c})
    <3>1. PICK c \in Coins : /\ Spent(job[i].picked, c, "settled")
                             /\ Changed(job[i].picked \cup {c})
      BY <2>2 DEF Outputs
    <3>2. job[i].picked \cup {c} \in SUBSET Coins /\ ledger' \in [Coins -> State]
      BY <3>1, JobParts, SpentType DEF State
    <3> QED BY <1>15, <2>1, <3>1, <3>2, ServerTypes DEF JoinBatch, Types
  <2>3. CASE UNCHANGED <<ledger, fresh, sync>>
    BY <1>15, <2>1, <2>3 DEF JoinBatch, Types, KindsKept, IsSync, Jobs
  <2> QED BY <1>15, <2>2, <2>3 DEF JoinBatch
<1>16. CASE UpdateDbAfterOffchainTx(i) \/ UpdateDbAfterSettle(i)
  <2>1. PICK S, change : Books(i, S, change)
    BY <1>16 DEF UpdateDbAfterOffchainTx, UpdateDbAfterSettle
  <2>2. cache' \in [Coins -> State]
    BY <2>1 DEF Books, Types, State
  <2> QED BY <2>1, <2>2, <1>1 DEF Books, Types
<1> QED
  BY <1>6, <1>7, <1>8, <1>9, <1>10, <1>11, <1>12, <1>13, <1>14, <1>15, <1>16, <1>17 DEF Works

LEMMA ServerMoveTypes ==
  ASSUME Types, NEW c \in Coins, Receive(c) \/ Sweep(c)
  PROVE  Types' /\ KindsKept
<1>1. Changed({c}) /\ ledger' \in [Coins -> State] /\ job' = job
  BY DEF Receive, Sweep, Types, State
<1>2. job' \in [Jobs -> JobType] /\ KindsKept /\ queue' \in Seq(Calls) /\ txs' \subseteq Tx
  BY <1>1 DEF Receive, Sweep, Types, KindsKept
<1> QED BY <1>1, <1>2, ServerTypes DEF Receive, Sweep, stored

-----------------------------------------------------------------------------
(* The steps of a synchronisation. *)

\* What is in a synchronisation under way.
LEMMA FetchEffect ==
  ASSUME Types, Fetch
  PROVE  /\ sync # NoSync /\ IsSync /\ IsSync' /\ sync' # NoSync
         /\ sync'.phase = "saving" /\ sync'.bootstrap = sync.bootstrap
         /\ sync'.since = sync.since /\ sync'.waiters = sync.waiters
         /\ DOMAIN sync'.answer = IF sync.bootstrap THEN Coins ELSE fresh
         /\ \A c \in DOMAIN sync'.answer : sync'.answer[c] = ledger[c]
<1>1. sync # NoSync /\ IsSync
  BY DEF Fetch, Types, NoSync
<1> DEFINE D == IF sync.bootstrap THEN Coins ELSE fresh
<1> DEFINE answer == [c \in D |-> ledger[c]]
<1>2. sync' = [sync EXCEPT !.phase = "saving", !.answer = answer]
  BY DEF Fetch
<1>3. DOMAIN answer = D /\ \A c \in D : answer[c] = ledger[c]
  OBVIOUS
<1>4. D \subseteq Coins
  BY DEF Types
<1>5. \A c \in D : answer[c] \in State
  BY <1>3, <1>4 DEF Types
<1> HIDE DEF answer
<1>6. sync' = [phase |-> "saving", bootstrap |-> sync.bootstrap, answer |-> answer,
               since |-> sync.since, waiters |-> sync.waiters]
  BY <1>1, <1>2 DEF IsSync
<1>7. /\ sync'.phase = "saving" /\ sync'.bootstrap = sync.bootstrap
      /\ sync'.since = sync.since /\ sync'.waiters = sync.waiters /\ sync'.answer = answer
  BY <1>6
<1>8. IsSync'
  BY <1>1, <1>3, <1>4, <1>5, <1>6, <1>7 DEF IsSync
<1> QED BY <1>1, <1>3, <1>7, <1>8 DEF NoSync

LEMMA SaveEffect ==
  ASSUME Types, SaveFetched
  PROVE  /\ sync # NoSync /\ IsSync /\ IsSync' /\ sync' # NoSync
         /\ sync'.phase = "advancing" /\ sync'.bootstrap = sync.bootstrap
         /\ sync'.since = sync.since /\ sync'.waiters = sync.waiters
         /\ sync'.answer = sync.answer
         /\ cache' \in [Coins -> State]
         /\ \A c \in Coins : cache'[c] = IF c \in DOMAIN sync.answer /\ sync.answer[c] # "none"
                                         THEN sync.answer[c] ELSE cache[c]
<1>1. sync # NoSync /\ IsSync
  BY DEF SaveFetched, Types, NoSync
<1>2. sync' = [phase |-> "advancing", bootstrap |-> sync.bootstrap, answer |-> sync.answer,
               since |-> sync.since, waiters |-> sync.waiters]
  BY <1>1 DEF SaveFetched, IsSync
<1>3. /\ sync'.phase = "advancing" /\ sync'.bootstrap = sync.bootstrap
      /\ sync'.since = sync.since /\ sync'.waiters = sync.waiters /\ sync'.answer = sync.answer
  BY <1>2
<1>4. IsSync'
  BY <1>1, <1>2, <1>3 DEF IsSync
<1>5. \A c \in Coins : cache'[c] = IF c \in DOMAIN sync.answer /\ sync.answer[c] # "none"
                                   THEN sync.answer[c] ELSE cache[c]
  BY DEF SaveFetched
<1>6. cache' \in [Coins -> State]
  BY <1>1 DEF SaveFetched, IsSync, Types
<1> QED BY <1>1, <1>3, <1>4, <1>5, <1>6 DEF NoSync

\* A first synchronisation ends here; another goes on to the reconciliation.
LEMMA AdvanceEffect ==
  ASSUME Types, AdvanceCursors
  PROVE  /\ sync # NoSync /\ IsSync /\ sync.phase = "advancing"
         /\ fresh' = sync.since /\ fresh' \subseteq Coins /\ cursor' = TRUE
         /\ sync.bootstrap =>
              /\ {<<c, sync.answer[c]>> : c \in DOMAIN sync.answer} \in Reads
              /\ Answered({<<c, sync.answer[c]>> : c \in DOMAIN sync.answer}, FALSE)
         /\ ~sync.bootstrap =>
              /\ IsSync' /\ sync' # NoSync /\ job' = job
              /\ sync'.phase = "reconciling" /\ sync'.bootstrap = sync.bootstrap
              /\ sync'.since = sync.since /\ sync'.waiters = sync.waiters
              /\ sync'.answer = <<>> /\ DOMAIN sync'.answer = {}
<1>1. sync # NoSync /\ IsSync /\ sync.phase = "advancing"
  BY DEF AdvanceCursors, Types, NoSync
<1>2. fresh' = sync.since /\ fresh' \subseteq Coins /\ cursor' = TRUE
  BY <1>1 DEF AdvanceCursors, CutoffFresh, IsSync
<1>3. CASE sync.bootstrap
  <2>1. {<<c, sync.answer[c]>> : c \in DOMAIN sync.answer} \in Reads
    BY <1>1 DEF IsSync, Reads
  <2> QED BY <1>1, <1>2, <1>3, <2>1 DEF AdvanceCursors
<1>4. CASE ~sync.bootstrap
  <2>1. /\ job' = job
        /\ sync' = [phase |-> "reconciling", bootstrap |-> sync.bootstrap, answer |-> <<>>,
                    since |-> sync.since, waiters |-> sync.waiters]
    BY <1>1, <1>4 DEF AdvanceCursors, IsSync
  <2>2. /\ sync'.phase = "reconciling" /\ sync'.bootstrap = sync.bootstrap
        /\ sync'.since = sync.since /\ sync'.waiters = sync.waiters /\ sync'.answer = <<>>
    BY <2>1
  <2>3. DOMAIN sync'.answer = {}
    BY <2>2
  <2>4. IsSync'
    BY <1>1, <2>1, <2>2, <2>3 DEF IsSync
  <2> QED BY <1>1, <1>2, <1>4, <2>1, <2>2, <2>3, <2>4 DEF NoSync
<1> QED BY <1>1, <1>3, <1>4 DEF IsSync

LEMMA ReconcileEffect ==
  ASSUME Types, Reconcile
  PROVE  /\ sync # NoSync /\ IsSync /\ sync.phase = "reconciling" /\ Answered({}, TRUE)
         /\ cache' \in [Coins -> State]
         /\ \A c \in Coins : cache'[c] = IF cache[c] \in Unspent /\ ledger[c] \in Unspent
                                         THEN ledger[c] ELSE cache[c]
<1>1. sync # NoSync /\ IsSync
  BY DEF Reconcile, Types, NoSync
<1> QED BY <1>1 DEF Reconcile, Types

\* Whoever waits for a synchronisation that fails ends.
LEMMA SyncFailsEffect ==
  ASSUME Types, SyncFails
  PROVE  /\ sync # NoSync /\ IsSync /\ sync' = NoSync
         /\ job' \in [Jobs -> JobType] /\ KindsKept /\ queue' \in Seq(Calls)
         /\ \A k \in Jobs : k \notin sync.waiters => job'[k] = job[k]
         /\ \A k \in Jobs : k \in sync.waiters =>
              /\ job'[k].stage = "ended" /\ job'[k].picked = {} /\ job'[k].out = {}
              /\ job'[k].own = FALSE /\ job'[k].read = {}
<1>1. sync # NoSync /\ IsSync
  BY DEF SyncFails, Types, NoSync
<1>2. job' = [k \in Jobs |-> IF k \in sync.waiters THEN Ended(job[k].kind) ELSE job[k]]
  BY DEF SyncFails, Types
<1>3. \A k \in Kind : /\ Ended(k) \in JobType
                      /\ Ended(k).kind = k /\ Ended(k).stage = "ended"
                      /\ Ended(k).picked = {} /\ Ended(k).out = {} /\ Ended(k).own = FALSE
                      /\ Ended(k).read = {}
  BY EndedType, EndedParts
<1>4. \A k \in Jobs : job[k] \in JobType /\ job[k].kind \in Kind
  BY JobParts DEF Types
<1>5. queue' \in Seq(Calls)
  <2>1. CASE queue = <<>>
    BY <2>1 DEF SyncFails, Types
  <2>2. CASE queue # <<>>
    BY <2>2 DEF SyncFails, Types
  <2> QED BY <2>1, <2>2
<1>6. job' \in [Jobs -> JobType]
  BY <1>2, <1>3, <1>4
<1>7. sync' = NoSync
  BY DEF SyncFails
<1> QED BY <1>1, <1>2, <1>3, <1>4, <1>5, <1>6, <1>7 DEF KindsKept

LEMMA SyncTypes ==
  ASSUME Types, Synchronises \/ SyncFails
  PROVE  Types' /\ KindsKept
<1> USE DEF server, stored
<1>1. CASE Fetch
  <2>1. IsSync'
    BY <1>1, FetchEffect
  <2> QED BY <1>1, <2>1 DEF Fetch, Types, KindsKept, Jobs
<1>2. CASE SaveFetched
  <2>1. IsSync' /\ cache' \in [Coins -> State]
    BY <1>2, SaveEffect
  <2> QED BY <1>2, <2>1 DEF SaveFetched, Types, KindsKept, Jobs
<1>3. CASE AdvanceCursors
  <2>1. sync.bootstrap \in BOOLEAN /\ IsSync
    BY <1>3, AdvanceEffect DEF IsSync
  <2>2. (sync' = NoSync \/ IsSync') /\ job' \in [Jobs -> JobType] /\ KindsKept
    <3>1. CASE sync.bootstrap
      <4> DEFINE read == {<<c, sync.answer[c]>> : c \in DOMAIN sync.answer}
      <4>1. Answered(read, FALSE) /\ read \in Reads
        BY <1>3, <3>1, AdvanceEffect
      <4> HIDE DEF read
      <4> QED BY <2>1, <4>1, AnsweredEffect
    <3>2. CASE ~sync.bootstrap
      BY <1>3, <3>2, AdvanceEffect DEF Types, KindsKept
    <3> QED BY <3>1, <3>2
  <2>3. fresh' \subseteq Coins /\ cursor' \in BOOLEAN
    BY <1>3, AdvanceEffect
  <2> QED BY <1>3, <2>2, <2>3 DEF AdvanceCursors, Types, KindsKept, Jobs
<1>4. CASE Reconcile
  <2>1. IsSync /\ Answered({}, TRUE) /\ cache' \in [Coins -> State]
    BY <1>4, ReconcileEffect
  <2>2. sync' = NoSync /\ job' \in [Jobs -> JobType] /\ KindsKept
    BY <2>1, SomeValues, AnsweredEffect
  <2>3. UNCHANGED <<ledger, txs, flag, cursor, fresh, queue>> /\ cache' \in [Coins -> State]
    BY <1>4, <2>1 DEF Reconcile
  <2> QED BY <2>2, <2>3 DEF Types, KindsKept, Jobs
<1>5. CASE SyncFails
  <2>1. /\ sync' = NoSync /\ job' \in [Jobs -> JobType] /\ KindsKept /\ queue' \in Seq(Calls)
    BY <1>5, SyncFailsEffect
  <2>2. UNCHANGED <<ledger, txs, cache, flag, cursor, fresh>>
    BY <1>5 DEF SyncFails
  <2> QED BY <2>1, <2>2 DEF Types, KindsKept, Jobs
<1> QED BY <1>1, <1>2, <1>3, <1>4, <1>5 DEF Synchronises

-----------------------------------------------------------------------------
(* The recovery, and restarts. *)

\* The recovery asks about what the repository has, or the server.
LEMMA AsksEffect ==
  ASSUME Types, HasPendingTx, flag, AskedAbout # {}
  PROVE  /\ job' \in [Jobs -> JobType] /\ KindsKept /\ Alone(Boot) /\ queue' = queue
         /\ job'[Boot].stage = "asking" /\ job'[Boot].picked = AskedAbout
         /\ job'[Boot].own = job[Boot].own /\ job'[Boot].out = job[Boot].out
<1> DEFINE new == [job[Boot] EXCEPT !.stage = "asking", !.picked = AskedAbout, !.read = {},
                                    !.delta = TRUE]
<1>1. job' = [job EXCEPT ![Boot] = new] /\ queue' = queue
  BY DEF HasPendingTx
<1>2. Boot \in Jobs /\ job[Boot] \in JobType /\ AskedAbout \in SUBSET Coins
  BY DEF Jobs, Types, AskedAbout
<1>3. new \in JobType
  <2>1. \A r \in JobType : [r EXCEPT !.stage = "asking"] \in JobType
    BY SomeValues, JobUpdates
  <2>2. \A r \in JobType : [r EXCEPT !.picked = AskedAbout] \in JobType
    BY <1>2, JobUpdates
  <2>3. \A r \in JobType : [r EXCEPT !.read = {}] \in JobType
    BY SomeValues, JobUpdates
  <2>4. \A r \in JobType : [r EXCEPT !.delta = TRUE] \in JobType
    BY JobUpdates
  <2> QED BY <1>2, <2>1, <2>2, <2>3, <2>4
<1>4. /\ new.kind = job[Boot].kind /\ new.stage = "asking" /\ new.picked = AskedAbout
      /\ new.own = job[Boot].own /\ new.out = job[Boot].out
  BY <1>2, JobDomain
<1> HIDE DEF new
<1> QED BY <1>1, <1>2, <1>3, <1>4, GoesOn

\* The server's answer: the transactions that spend what it was asked about.
Found == {t.out : t \in {u \in txs : u.ins \cap job[Boot].picked # {}}}

AnswersPending ==
  job' = [job EXCEPT ![Boot].stage = "finishing", ![Boot].own = TRUE, ![Boot].picked = Found]

LEMMA PendingEffect ==
  ASSUME Types, AnswersPending
  PROVE  /\ job' \in [Jobs -> JobType] /\ KindsKept /\ Alone(Boot)
         /\ job'[Boot].stage = "finishing" /\ job'[Boot].own = TRUE
         /\ job'[Boot].picked = Found /\ job'[Boot].out = job[Boot].out
<1> DEFINE new == [job[Boot] EXCEPT !.stage = "finishing", !.own = TRUE, !.picked = Found]
<1>1. job' = [job EXCEPT ![Boot] = new]
  BY DEF AnswersPending
<1>2. Boot \in Jobs /\ job[Boot] \in JobType /\ Found \in SUBSET Coins
  BY DEF Jobs, Types, Found, Tx
<1>3. new \in JobType
  <2>1. \A r \in JobType : [r EXCEPT !.stage = "finishing"] \in JobType
    BY SomeValues, JobUpdates
  <2>2. \A r \in JobType : [r EXCEPT !.own = TRUE] \in JobType
    BY JobUpdates
  <2>3. \A r \in JobType : [r EXCEPT !.picked = Found] \in JobType
    BY <1>2, JobUpdates
  <2> QED BY <1>2, <2>1, <2>2, <2>3
<1>4. /\ new.kind = job[Boot].kind /\ new.stage = "finishing" /\ new.own = TRUE
      /\ new.picked = Found /\ new.out = job[Boot].out
  BY <1>2, JobDomain
<1> HIDE DEF new
<1> QED BY <1>1, <1>2, <1>3, <1>4, GoesOn

\* One of them is finalized by the recovery, has been by its call, or is not.
LEMMA FinishesOne ==
  ASSUME Types, FinalizePending
  PROVE  \E c \in job[Boot].picked :
           /\ job' \in [Jobs -> JobType] /\ KindsKept /\ Alone(Boot)
           /\ job'[Boot].stage = "finishing" /\ job'[Boot].picked = job[Boot].picked \ {c}
           /\ job'[Boot].out = job[Boot].out
           /\ \/ \E t \in txs : t.out = c /\ Finalized(t)
              \/ /\ UNCHANGED <<server, fresh, sync>>
                 /\ job'[Boot].own => \A t \in txs : t.out # c
           /\ job'[Boot].own => job[Boot].own
<1> DEFINE less(c) == job[Boot].picked \ {c}
<1>0. /\ Boot \in Jobs /\ job[Boot] \in JobType /\ job[Boot].stage = "finishing"
      /\ \A c : less(c) \in SUBSET Coins
  BY DEF Jobs, Types, JobType, FinalizePending
<1>1. PICK c \in job[Boot].picked :
        \/ /\ \/ \E t \in txs : t.out = c /\ Finalized(t)
              \/ (\A t \in txs : t.out # c) /\ UNCHANGED <<server, fresh, sync>>
           /\ job' = [job EXCEPT ![Boot].picked = @ \ {c}]
        \/ /\ job' = [job EXCEPT ![Boot].picked = @ \ {c}, ![Boot].own = FALSE]
           /\ UNCHANGED <<server, fresh, sync>>
  BY DEF FinalizePending
<1>4. ASSUME job' = [job EXCEPT ![Boot].picked = @ \ {c}]
      PROVE  /\ job' \in [Jobs -> JobType] /\ KindsKept /\ Alone(Boot)
             /\ job'[Boot].stage = "finishing" /\ job'[Boot].picked = less(c)
             /\ job'[Boot].out = job[Boot].out /\ job'[Boot].own = job[Boot].own
  <2> DEFINE new == [job[Boot] EXCEPT !.picked = less(c)]
  <2>1. new \in JobType
    BY <1>0, JobUpdates
  <2>2. /\ new.kind = job[Boot].kind /\ new.stage = job[Boot].stage /\ new.own = job[Boot].own
        /\ new.picked = less(c) /\ new.out = job[Boot].out
    BY <1>0, JobDomain
  <2>3. job' = [job EXCEPT ![Boot] = new]
    BY <1>4
  <2> HIDE DEF new
  <2>4. job' \in [Jobs -> JobType] /\ KindsKept /\ Alone(Boot) /\ job'[Boot] = new
    BY <1>0, <2>1, <2>2, <2>3, GoesOn
  <2> QED BY <1>0, <2>2, <2>4
<1>5. ASSUME job' = [job EXCEPT ![Boot].picked = @ \ {c}, ![Boot].own = FALSE]
      PROVE  /\ job' \in [Jobs -> JobType] /\ KindsKept /\ Alone(Boot)
             /\ job'[Boot].stage = "finishing" /\ job'[Boot].picked = less(c)
             /\ job'[Boot].out = job[Boot].out /\ job'[Boot].own = FALSE
  <2> DEFINE new == [job[Boot] EXCEPT !.picked = less(c), !.own = FALSE]
  <2>1. new \in JobType
    <3>1. [job[Boot] EXCEPT !.picked = less(c)] \in JobType
      BY <1>0, JobUpdates
    <3>2. \A r \in JobType : [r EXCEPT !.own = FALSE] \in JobType
      BY JobUpdates
    <3> QED BY <1>0, <3>1, <3>2
  <2>2. /\ new.kind = job[Boot].kind /\ new.stage = job[Boot].stage /\ new.own = FALSE
        /\ new.picked = less(c) /\ new.out = job[Boot].out
    BY <1>0, JobDomain
  <2>3. job' = [job EXCEPT ![Boot] = new]
    BY <1>5
  <2> HIDE DEF new
  <2>4. job' \in [Jobs -> JobType] /\ KindsKept /\ Alone(Boot) /\ job'[Boot] = new
    BY <1>0, <2>1, <2>2, <2>3, GoesOn
  <2> QED BY <1>0, <2>2, <2>4
<1>6. \/ /\ \/ \E t \in txs : t.out = c /\ Finalized(t)
            \/ (\A t \in txs : t.out # c) /\ UNCHANGED <<server, fresh, sync>>
         /\ job'[Boot].own = job[Boot].own
      \/ job'[Boot].own = FALSE /\ UNCHANGED <<server, fresh, sync>>
  BY <1>1, <1>4, <1>5
<1>7. /\ job' \in [Jobs -> JobType] /\ KindsKept /\ Alone(Boot)
      /\ job'[Boot].stage = "finishing" /\ job'[Boot].picked = less(c)
      /\ job'[Boot].out = job[Boot].out
  BY <1>1, <1>4, <1>5
<1> QED BY <1>6, <1>7

\* What the start of a recovery changes in the calls and in the transactions.
Reset(k) == IF k = Boot THEN Blank("boot", "syncing")
            ELSE [job[k] EXCEPT !.beside = k \in Spending]

Marked(t) == [t EXCEPT !.overtaken = @ \/ t.by \in Spending]

LEMMA StartsEffect ==
  ASSUME Types, StartRecovery
  PROVE  /\ job' \in [Jobs -> JobType] /\ KindsKept /\ Awaits(Boot) /\ queue' = queue
         /\ IsSync' /\ sync' # NoSync
         /\ job[Boot].stage \in {"idle", "ended"} /\ job'[Boot].stage = "syncing"
         /\ \A k \in Calls : /\ job'[k].kind = job[k].kind /\ job'[k].stage = job[k].stage
                             /\ job'[k].picked = job[k].picked /\ job'[k].out = job[k].out
                             /\ job'[k].own = job[k].own /\ job'[k].read = job[k].read
                             /\ job'[k].delta = job[k].delta
                             /\ job'[k].beside = (k \in Spending)
         /\ txs' = {Marked(t) : t \in txs} /\ txs' \subseteq Tx
         /\ \A t \in txs : /\ Marked(t).ins = t.ins /\ Marked(t).out = t.out
                           /\ Marked(t).by = t.by
                           /\ Marked(t).overtaken = (t.overtaken \/ t.by \in Spending)
<1>1. Awaits(Boot) /\ job[Boot].stage \in {"idle", "ended"} /\ queue' = queue
  BY DEF StartRecovery, Running
<1>2. job' = [k \in Jobs |-> Reset(k)]
  BY DEF StartRecovery, Reset, Types
<1>3. Boot \in Jobs /\ \A k \in Calls : k \in Jobs /\ k # Boot
  BY FundsAssumption DEF Jobs
<1>4. Reset(Boot) \in JobType /\ Reset(Boot).kind = "boot" /\ Reset(Boot).stage = "syncing"
  BY SomeValues DEF Reset, Blank, JobType, Kind, Stage
<1>5. ASSUME NEW k \in Calls
      PROVE  /\ Reset(k) \in JobType
             /\ Reset(k).kind = job[k].kind /\ Reset(k).stage = job[k].stage
             /\ Reset(k).picked = job[k].picked /\ Reset(k).out = job[k].out
             /\ Reset(k).own = job[k].own /\ Reset(k).read = job[k].read
             /\ Reset(k).delta = job[k].delta
             /\ Reset(k).beside = (k \in Spending)
  <2> DEFINE b == k \in Spending
  <2>1. Reset(k) = [job[k] EXCEPT !.beside = b] /\ job[k] \in JobType
    BY <1>3 DEF Reset, Types
  <2>2. b \in BOOLEAN
    OBVIOUS
  <2> HIDE DEF b
  <2>3. Reset(k) \in JobType
    BY <2>1, <2>2, JobUpdates
  <2>4. /\ Reset(k).kind = job[k].kind /\ Reset(k).stage = job[k].stage
        /\ Reset(k).picked = job[k].picked /\ Reset(k).out = job[k].out
        /\ Reset(k).own = job[k].own /\ Reset(k).read = job[k].read
        /\ Reset(k).delta = job[k].delta /\ Reset(k).beside = b
    BY <2>1, JobDomain
  <2> QED BY <2>3, <2>4 DEF b
<1>6. job' \in [Jobs -> JobType] /\ KindsKept
  <2>1. \A k \in Jobs : Reset(k) \in JobType /\ Reset(k).kind = job[k].kind
    BY <1>3, <1>4, <1>5 DEF Jobs, Types
  <2> QED BY <1>2, <2>1 DEF KindsKept
<1>7. IsSync' /\ sync' # NoSync
  BY <1>1, <1>3, AwaitsEffect
<1>8. txs' = {Marked(t) : t \in txs}
  BY DEF StartRecovery, Marked
<1>9. ASSUME NEW t \in txs
      PROVE  /\ Marked(t) \in Tx
             /\ Marked(t).ins = t.ins /\ Marked(t).out = t.out /\ Marked(t).by = t.by
             /\ Marked(t).overtaken = (t.overtaken \/ t.by \in Spending)
  <2> DEFINE b == t.overtaken \/ t.by \in Spending
  <2>1. t \in Tx /\ Marked(t) = [t EXCEPT !.overtaken = b]
    BY DEF Marked, Types
  <2>2. b \in BOOLEAN
    BY <2>1 DEF Tx
  <2> HIDE DEF b
  <2>3. /\ Marked(t) \in Tx /\ Marked(t).ins = t.ins /\ Marked(t).out = t.out
        /\ Marked(t).by = t.by /\ Marked(t).overtaken = b
    BY <2>1, <2>2 DEF Tx
  <2> QED BY <2>3 DEF b
<1>10. txs' \subseteq Tx
  BY <1>8, <1>9
<1> QED BY <1>1, <1>2, <1>3, <1>4, <1>5, <1>6, <1>7, <1>8, <1>9, <1>10

-----------------------------------------------------------------------------
(* Calls wait for the synchronisation, and know of the recovery. *)

\* What the jobs are.
LEMMA WorksJobs ==
  ASSUME NEW i \in Calls
  PROVE  i \in Jobs /\ i # Boot /\ Boot \in Jobs /\ Boot \notin Calls
BY FundsAssumption DEF Jobs

SyncKept ==
  /\ sync' = NoSync <=> sync = NoSync
  /\ sync # NoSync => sync'.waiters = sync.waiters

\* A call moves, and neither joins a synchronisation nor leaves one.
LEMMA CallMoves ==
  ASSUME Base, NEW i \in Calls, Alone(i), KindsKept, SyncKept,
         job[i].stage # "syncing", job'[i].stage # "syncing",
         Running(Boot) /\ LocksFirst(i) => job'[i].stage = "ended" \/ job'[i].beside
  PROVE  CallsKnow' /\ WaitersWait'
<1>1. /\ job'[Boot] = job[Boot] /\ i \in Jobs /\ Boot \in Jobs
      /\ \A k \in Calls : k \in Jobs
  BY WorksJobs, CallIsJob DEF Alone
<1>2. \A k \in Calls : LocksFirst(k)' = LocksFirst(k)
  BY <1>1 DEF LocksFirst, KindsKept
<1>3. \A k \in Calls \ {i} : job'[k] = job[k]
  BY <1>1 DEF Alone
<1>4. CallsKnow'
  BY <1>1, <1>2, <1>3 DEF Base, CallsKnow, Running
<1>5. \A k \in Jobs : job'[k].stage = "syncing" <=> job[k].stage = "syncing"
  BY <1>1 DEF Alone
<1>6. WaitersWait'
  BY <1>5 DEF Base, WaitersWait, SyncKept
<1> QED BY <1>4, <1>6

\* Whoever asks for a synchronisation is one more that waits for it.
LEMMA AsksWait ==
  ASSUME Base, NEW i \in Jobs, Awaits(i),
         \A k \in Jobs : job'[k].stage = "syncing" <=> k = i \/ job[k].stage = "syncing"
  PROVE  WaitersWait'
<1>1. sync' # NoSync
  BY AwaitsEffect DEF Base
<1>2. CASE sync = NoSync
  BY <1>1, <1>2, AwaitsEffect DEF Base, WaitersWait
<1>3. CASE sync # NoSync
  <2>1. sync'.waiters = sync.waiters \cup {i}
    BY <1>3, AwaitsEffect DEF Base
  <2> QED BY <1>1, <1>3, <2>1 DEF Base, WaitersWait
<1> QED BY <1>2, <1>3

LEMMA JoinersWait ==
  ASSUME Base, NEW i \in Calls, Joins(i), LocksFirst(i) => job[i].stage = "queued"
  PROVE  CallsKnow' /\ WaitersWait'
<1>1. /\ Alone(i) /\ KindsKept /\ job'[i].stage = "syncing"
      /\ job'[i].beside = job[i].beside /\ Awaits(i)
  BY JoinsEffect, CallIsJob DEF Base, Joins
<1>2. i \in Jobs /\ i # Boot /\ Boot \in Jobs /\ \A k \in Calls : k \in Jobs
  BY WorksJobs, CallIsJob
<1>3. WaitersWait'
  BY <1>1, <1>2, AsksWait DEF Alone
<1>4. \A k \in Calls : LocksFirst(k)' = LocksFirst(k)
  BY <1>1, <1>2 DEF LocksFirst, KindsKept
<1>5. CallsKnow'
  BY <1>1, <1>2, <1>4 DEF Base, CallsKnow, Alone, Running
<1> QED BY <1>3, <1>5

LEMMA ChangedKeeps ==
  ASSUME Types, NEW S \in SUBSET Coins, Changed(S)
  PROVE  SyncKept
BY ChangedEffect DEF SyncKept

LEMMA WorksWait ==
  ASSUME Base, NEW i \in Calls, Works(i) \/ FinalizeFails(i)
  PROVE  CallsKnow' /\ WaitersWait'
<1>1. i \in Jobs /\ i # Boot /\ Boot \in Jobs /\ Boot \notin Calls /\ Types
  BY WorksJobs DEF Base
<1>0. Running(Boot) /\ LocksFirst(i) /\ job[i].stage \notin {"idle", "ended"} => job[i].beside
  BY DEF Base, CallsKnow, Running
<1>2. ASSUME Ends(i), SyncKept, job[i].stage # "syncing"
      PROVE  CallsKnow' /\ WaitersWait'
  <2>1. Alone(i) /\ KindsKept /\ job'[i].stage = "ended"
    BY <1>1, <1>2, EndsEffect
  <2> QED BY <1>2, <2>1, CallMoves
<1>3. ASSUME NEW s \in Stage, To(i, s), SyncKept, s # "syncing",
             job[i].stage \notin {"syncing", "idle", "ended"}
      PROVE  CallsKnow' /\ WaitersWait'
  <2>1. Alone(i) /\ KindsKept /\ job'[i].stage = s /\ job'[i].beside = job[i].beside
    BY <1>1, <1>3, ToEffect
  <2> QED BY <1>0, <1>3, <2>1, CallMoves
<1>4. ASSUME NEW S \in SUBSET Coins, NEW s \in Stage, Picks(i, S, s),
             s # "syncing"
      PROVE  CallsKnow' /\ WaitersWait'
  <2>1. Alone(i) /\ KindsKept /\ job'[i].stage = s /\ job'[i].beside = job[i].beside
    BY <1>1, <1>4, PicksEffect
  <2>2. sync' = sync /\ job[i].stage = "picking"
    BY <1>4 DEF Picks
  <2> QED BY <1>0, <1>4, <2>1, <2>2, CallMoves DEF SyncKept
<1>5. ASSUME Joins(i), LocksFirst(i) => job[i].stage = "queued"
      PROVE  CallsKnow' /\ WaitersWait'
  BY <1>5, JoinersWait
<1> USE DEF server, stored
<1>6. CASE Begin(i)
  <2>1. CASE LocksFirst(i)
    <3>1. QueuesUp(i) /\ sync' = sync /\ job[i].stage = "idle"
      BY <1>6, <2>1 DEF Begin, QueuesUp
    <3>2. /\ Alone(i) /\ KindsKept /\ job'[i].stage = "queued"
          /\ job'[i].beside = Running(Boot)
      BY <1>1, <3>1, QueuesEffect
    <3> QED BY <3>1, <3>2, CallMoves DEF SyncKept
  <2>2. CASE ~LocksFirst(i)
    BY <1>5, <1>6, <2>2 DEF Begin
  <2> QED BY <2>1, <2>2
<1>7. CASE ClearSyncCursors(i)
  BY <1>7, <1>2 DEF ClearSyncCursors, SyncKept
<1>8. CASE Acquire(i)
  BY <1>8, <1>3, <1>5 DEF Acquire, Stage, SyncKept
<1>9. CASE SetPendingTxFlag(i)
  BY <1>9, <1>3 DEF SetPendingTxFlag, Stage, SyncKept
<1>10. CASE PickSend(i) \/ PickAsset(i) \/ PickSettle(i) \/ PickRenewal(i)
  <2>1. PICK S \in SUBSET Coins, s \in {"building", "joining", "queued"} : Picks(i, S, s)
    BY <1>10, OfferedType DEF PickSend, PickAsset, PickSettle, PickRenewal
  <2> QED BY <2>1, <1>4 DEF Stage
<1>11. CASE PickNothing(i) \/ SubmitRefused(i) \/ FinalizeFails(i)
  BY <1>11, <1>2 DEF PickNothing, SubmitRefused, FinalizeFails, SyncKept
<1>12. CASE SubmitTx(i)
  <2>1. PICK c \in Outputs :
          \/ job' = [job EXCEPT ![i].stage = "finalizing", ![i].out = {c}]
          \/ Ends(i)
    BY <1>12 DEF SubmitTx
  <2>2. job[i].stage = "submitting" /\ sync' = sync
    BY <1>12 DEF SubmitTx
  <2>4. CASE Ends(i)
    BY <1>2, <2>2, <2>4 DEF SyncKept
  <2>5. CASE job' = [job EXCEPT ![i].stage = "finalizing", ![i].out = {c}]
    <3>1. Alone(i) /\ job'[i] = [job[i] EXCEPT !.stage = "finalizing", !.out = {c}]
      BY <1>1, <2>5 DEF Types, Alone
    <3>2. /\ job'[i].stage = "finalizing" /\ job'[i].beside = job[i].beside
          /\ job'[i].kind = job[i].kind
      BY <1>1, <3>1, JobDomain DEF Types
    <3>3. KindsKept
      BY <1>1, <3>1, <3>2 DEF Alone, KindsKept
    <3> QED BY <1>0, <2>2, <3>1, <3>2, <3>3, CallMoves DEF SyncKept
  <2> QED BY <2>1, <2>4, <2>5
<1>13. CASE FinalizeTx(i)
  <2>1. job[i].stage = "finalizing" /\ (To(i, "unflagging") \/ Ends(i))
    BY <1>13 DEF FinalizeTx
  <2>2. PICK t \in txs : Finalized(t)
    BY <1>13 DEF FinalizeTx
  <2>3. SyncKept
    <3>1. t.ins \cup {t.out} \in SUBSET Coins /\ Changed(t.ins \cup {t.out})
      BY <1>1, <2>2, FinalizedEffect
    <3> QED BY <1>1, <3>1, ChangedKeeps
  <2> QED BY <1>2, <1>3, <2>1, <2>3 DEF Stage
<1>17. CASE FinalizeAgain(i)
  BY <1>17, <1>2, <1>3 DEF FinalizeAgain, Stage, SyncKept
<1>14. CASE ClearPendingTxFlag(i)
  BY <1>14, <1>2, <1>3 DEF ClearPendingTxFlag, Stage, SyncKept
<1>15. CASE JoinBatch(i)
  <2>1. job[i].stage = "joining" /\ (To(i, "booking") \/ Ends(i))
    BY <1>15 DEF JoinBatch
  <2>3. SyncKept
    <3>1. CASE \E c \in Outputs : Changed(job[i].picked \cup {c})
      <4>1. PICK c \in Coins : Changed(job[i].picked \cup {c})
        BY <3>1 DEF Outputs
      <4>2. job[i].picked \cup {c} \in SUBSET Coins
        BY <1>1, JobParts
      <4> QED BY <1>1, <4>1, <4>2, ChangedKeeps
    <3>2. CASE sync' = sync
      BY <3>2 DEF SyncKept
    <3> QED BY <1>15, <3>1, <3>2 DEF JoinBatch
  <2> QED BY <1>2, <1>3, <2>1, <2>3 DEF Stage
<1>16. CASE UpdateDbAfterOffchainTx(i) \/ UpdateDbAfterSettle(i)
  BY <1>16, <1>2 DEF UpdateDbAfterOffchainTx, UpdateDbAfterSettle, Books, SyncKept
<1> QED
  BY <1>6, <1>7, <1>8, <1>9, <1>10, <1>11, <1>12, <1>13, <1>14, <1>15, <1>16, <1>17 DEF Works

LEMMA ServerWaits ==
  ASSUME Base, NEW c \in Coins, Receive(c) \/ Sweep(c)
  PROVE  CallsKnow' /\ WaitersWait'
<1>1. Changed({c}) /\ job' = job
  BY DEF Receive, Sweep
<1>2. SyncKept
  BY <1>1, ChangedKeeps DEF Base
<1> QED BY <1>1, <1>2 DEF Base, CallsKnow, WaitersWait, SyncKept, Running, LocksFirst

\* Only those that synchronise are answered.
LEMMA SyncWaits ==
  ASSUME Base, Synchronises \/ SyncFails
  PROVE  CallsKnow' /\ WaitersWait'
<1> USE DEF Base
<1>1. Boot \in Jobs /\ \A k \in Calls : k \in Jobs /\ k # Boot
  BY FundsAssumption DEF Jobs
<1> USE DEF Running, LocksFirst
<1>2. CASE Fetch
  <2>1. sync # NoSync /\ sync' # NoSync /\ sync'.waiters = sync.waiters /\ job' = job
    BY <1>2, FetchEffect DEF Fetch
  <2> QED BY <2>1 DEF CallsKnow, WaitersWait
<1>3. CASE SaveFetched
  <2>1. sync # NoSync /\ sync' # NoSync /\ sync'.waiters = sync.waiters /\ job' = job
    BY <1>3, SaveEffect DEF SaveFetched
  <2> QED BY <2>1 DEF CallsKnow, WaitersWait
<1>4. ASSUME sync # NoSync, IsSync, NEW read \in Reads,
             NEW delta \in BOOLEAN, Answered(read, delta)
      PROVE  CallsKnow' /\ WaitersWait'
  <2>1. /\ sync' = NoSync /\ KindsKept
        /\ \A k \in Jobs : k \notin sync.waiters => job'[k] = job[k]
        /\ \A k \in Jobs : k \in sync.waiters =>
             job'[k].stage = "picking" /\ job'[k].beside = job[k].beside
    BY <1>4, AnsweredEffect
  <2>2. \A k \in Jobs : k \in sync.waiters <=> job[k].stage = "syncing"
    BY <1>4 DEF WaitersWait
  <2>3. WaitersWait'
    BY <2>1, <2>2 DEF WaitersWait
  <2>4. CallsKnow'
    BY <1>1, <2>1, <2>2 DEF CallsKnow, KindsKept
  <2> QED BY <2>3, <2>4
<1>5. CASE AdvanceCursors
  <2>1. IsSync /\ sync # NoSync /\ sync.bootstrap \in BOOLEAN
    BY <1>5, AdvanceEffect DEF IsSync
  <2>2. CASE sync.bootstrap
    <3> DEFINE read == {<<c, sync.answer[c]>> : c \in DOMAIN sync.answer}
    <3>1. Answered(read, FALSE) /\ read \in Reads
      BY <1>5, <2>2, AdvanceEffect
    <3> HIDE DEF read
    <3> QED BY <1>4, <2>1, <3>1
  <2>3. CASE ~sync.bootstrap
    <3>1. sync' # NoSync /\ sync'.waiters = sync.waiters /\ job' = job
      BY <1>5, <2>3, AdvanceEffect
    <3> QED BY <2>1, <3>1 DEF CallsKnow, WaitersWait
  <2> QED BY <2>1, <2>2, <2>3
<1>6. CASE Reconcile
  <2>1. sync # NoSync /\ IsSync /\ Answered({}, TRUE)
    BY <1>6, ReconcileEffect
  <2> QED BY <1>4, <2>1, SomeValues
<1>7. CASE SyncFails
  <2>1. /\ sync # NoSync /\ sync' = NoSync /\ KindsKept
        /\ \A k \in Jobs : k \notin sync.waiters => job'[k] = job[k]
        /\ \A k \in Jobs : k \in sync.waiters => job'[k].stage = "ended"
    BY <1>7, SyncFailsEffect
  <2>2. \A k \in Jobs : k \in sync.waiters <=> job[k].stage = "syncing"
    BY <2>1 DEF WaitersWait
  <2>3. WaitersWait'
    BY <2>1, <2>2 DEF WaitersWait
  <2>4. CallsKnow'
    BY <1>1, <2>1, <2>2 DEF CallsKnow, KindsKept
  <2> QED BY <2>3, <2>4
<1> QED BY <1>2, <1>3, <1>5, <1>6, <1>7 DEF Synchronises

LEMMA RecoversTypes ==
  ASSUME Base, StartRecovery \/ Recovers
  PROVE  Types' /\ KindsKept
<1> USE DEF Base, server, stored
<1>1. Boot \in Jobs /\ queue \in Seq(Calls)
  BY DEF Jobs, Types
<1>2. ASSUME job' \in [Jobs -> JobType], KindsKept, queue' \in Seq(Calls), flag' \in BOOLEAN,
             UNCHANGED <<ledger, txs, cache, cursor, fresh, sync>>
      PROVE  Types' /\ KindsKept
  BY <1>2, JobTypes
<1>3. ASSUME Ends(Boot), flag' \in BOOLEAN, UNCHANGED <<ledger, txs, cache, cursor, fresh, sync>>
      PROVE  Types' /\ KindsKept
  BY <1>1, <1>2, <1>3, EndsEffect
<1>4. CASE StartRecovery
  <2>1. /\ job' \in [Jobs -> JobType] /\ KindsKept /\ IsSync' /\ queue' = queue
        /\ txs' \subseteq Tx
    BY <1>4, StartsEffect
  <2>2. UNCHANGED <<ledger, cache, flag, cursor, fresh>>
    BY <1>4 DEF StartRecovery
  <2> QED BY <2>1, <2>2 DEF Types, KindsKept, Jobs
<1>5. CASE HasPendingTx
  <2>1. CASE flag /\ AskedAbout # {}
    BY <1>1, <1>2, <1>5, <2>1, AsksEffect DEF HasPendingTx, Types
  <2>2. CASE ~(flag /\ AskedAbout # {})
    BY <1>3, <1>5, <2>2 DEF HasPendingTx, Types
  <2> QED BY <2>1, <2>2
<1>6. CASE GetPendingTxs
  <2>1. CASE AnswersPending /\ UNCHANGED queue
    BY <1>1, <1>2, <1>6, <2>1, PendingEffect DEF GetPendingTxs, Types
  <2>2. CASE Ends(Boot)
    BY <1>3, <1>6, <2>2 DEF GetPendingTxs, Types
  <2> QED BY <1>6, <2>1, <2>2 DEF GetPendingTxs, AnswersPending, Found
<1>7. CASE FinalizePending
  <2>2. /\ job' \in [Jobs -> JobType] /\ KindsKept
        /\ (\E t \in txs : Finalized(t)) \/ UNCHANGED <<server, fresh, sync>>
    BY <1>7, FinishesOne
  <2>3. CASE \E t \in txs : Finalized(t)
    <3>0. PICK t \in txs : Finalized(t)
      BY <2>3
    <3>1. /\ txs' \subseteq Tx /\ ledger' \in [Coins -> State]
          /\ t.ins \cup {t.out} \in SUBSET Coins /\ Changed(t.ins \cup {t.out})
      BY <3>0, FinalizedEffect DEF Types
    <3> QED BY <1>1, <1>7, <2>2, <3>1, ServerTypes DEF FinalizePending
  <2>4. CASE UNCHANGED <<server, fresh, sync>>
    BY <1>1, <1>2, <1>7, <2>2, <2>4 DEF FinalizePending, Types
  <2> QED BY <2>2, <2>3, <2>4
<1>8. CASE FinalizePendingEnds
  <2>1. flag' \in BOOLEAN
    BY <1>8 DEF FinalizePendingEnds, Types
  <2> QED BY <1>3, <1>8, <2>1 DEF FinalizePendingEnds
<1> QED BY <1>4, <1>5, <1>6, <1>7, <1>8 DEF Recovers

\* The recovery moves, and neither joins a synchronisation nor leaves one.
LEMMA BootMoves ==
  ASSUME Base, Alone(Boot), KindsKept, SyncKept, Running(Boot), job[Boot].stage # "syncing",
         job'[Boot].stage \in {"asking", "finishing", "ended"}
  PROVE  CallsKnow' /\ WaitersWait'
<1>1. Boot \in Jobs /\ \A k \in Calls : k \in Jobs /\ k # Boot
  BY FundsAssumption DEF Jobs
<1>2. \A k \in Calls : job'[k] = job[k]
  BY <1>1 DEF Alone
<1>3. CallsKnow'
  BY <1>2 DEF Base, CallsKnow, Running, LocksFirst
<1>4. \A k \in Jobs : job'[k].stage = "syncing" <=> job[k].stage = "syncing"
  BY <1>1 DEF Alone
<1>5. WaitersWait'
  BY <1>4 DEF Base, WaitersWait, SyncKept
<1> QED BY <1>3, <1>5

\* A recovery that starts makes the calls under way know it.
LEMMA StartWaits ==
  ASSUME Base, StartRecovery
  PROVE  CallsKnow' /\ WaitersWait'
<1>1. /\ Awaits(Boot) /\ KindsKept /\ job'[Boot].stage = "syncing"
      /\ \A k \in Calls : job'[k].stage = job[k].stage /\ job'[k].beside = (k \in Spending)
  BY StartsEffect DEF Base
<1>2. Boot \in Jobs /\ \A k \in Calls : k \in Jobs /\ k # Boot
  BY FundsAssumption DEF Jobs
<1>3. \A k \in Jobs : job'[k].stage = "syncing" <=> k = Boot \/ job[k].stage = "syncing"
  BY <1>1 DEF Jobs
<1>4. WaitersWait'
  BY <1>1, <1>2, <1>3, AsksWait
<1>5. \A k \in Calls : LocksFirst(k)' = LocksFirst(k) /\ Running(k)' = Running(k)
  BY <1>1, <1>2 DEF LocksFirst, Running, KindsKept
<1>6. CallsKnow'
  BY <1>1, <1>5 DEF CallsKnow, Spending
<1> QED BY <1>4, <1>6

LEMMA RecoversWait ==
  ASSUME Base, Recovers
  PROVE  CallsKnow' /\ WaitersWait'
<1> USE DEF Base, server, stored
<1>1. Boot \in Jobs /\ Boot \notin Calls
  BY FundsAssumption DEF Jobs
<1>2. ASSUME Ends(Boot), sync' = sync, job[Boot].stage \in {"picking", "asking", "finishing"}
      PROVE  CallsKnow' /\ WaitersWait'
  BY <1>1, <1>2, EndsEffect, BootMoves DEF Running, SyncKept
<1>4. CASE HasPendingTx
  <2>1. CASE flag /\ AskedAbout # {}
    BY <1>4, <2>1, AsksEffect, BootMoves DEF HasPendingTx, Running, SyncKept
  <2>2. CASE ~(flag /\ AskedAbout # {})
    BY <1>2, <1>4, <2>2 DEF HasPendingTx
  <2> QED BY <2>1, <2>2
<1>5. CASE GetPendingTxs
  <2>1. CASE AnswersPending
    <3>1. Alone(Boot) /\ KindsKept /\ job'[Boot].stage = "finishing"
      BY <2>1, PendingEffect
    <3> QED BY <1>5, <3>1, BootMoves DEF GetPendingTxs, Running, SyncKept
  <2>2. CASE Ends(Boot)
    BY <1>2, <1>5, <2>2 DEF GetPendingTxs
  <2> QED BY <1>5, <2>1, <2>2 DEF GetPendingTxs, AnswersPending, Found
<1>6. CASE FinalizePending
  <2>1. job[Boot].stage = "finishing"
    BY <1>6 DEF FinalizePending
  <2>2. /\ Alone(Boot) /\ KindsKept /\ job'[Boot].stage = "finishing"
        /\ (\E t \in txs : Finalized(t)) \/ UNCHANGED <<server, fresh, sync>>
    BY <1>6, FinishesOne
  <2>3. SyncKept
    <3>1. CASE \E t \in txs : Finalized(t)
      <4>0. PICK t \in txs : Finalized(t)
        BY <3>1
      <4>1. t.ins \cup {t.out} \in SUBSET Coins /\ Changed(t.ins \cup {t.out})
        BY <4>0, FinalizedEffect
      <4> QED BY <4>1, ChangedKeeps
    <3>2. CASE UNCHANGED <<server, fresh, sync>>
      BY <3>2 DEF SyncKept
    <3> QED BY <2>2, <3>1, <3>2
  <2> QED BY <2>1, <2>2, <2>3, BootMoves DEF Running
<1>7. CASE FinalizePendingEnds
  BY <1>2, <1>7 DEF FinalizePendingEnds
<1> QED BY <1>4, <1>5, <1>6, <1>7 DEF Recovers

\* What a restart leaves of the calls, and of a recovery.
LEMMA CrashEffect ==
  ASSUME Types, Crash
  PROVE  /\ job' \in [Jobs -> JobType] /\ KindsKept /\ sync' = NoSync /\ queue' = <<>>
         /\ \A k \in Jobs : \/ job[k].stage \in {"idle", "ended"} /\ job'[k] = job[k]
                            \/ /\ job[k].stage \notin {"idle", "ended"}
                               /\ job'[k].stage = "ended" /\ job'[k].picked = {}
                               /\ job'[k].out = {} /\ job'[k].own = FALSE
                               /\ job'[k].read = {}
<1>1. \A k \in Jobs : job[k] \in JobType /\ job[k].kind \in Kind
  BY JobParts DEF Types
<1>2. job' = [k \in Jobs |-> IF Running(k) THEN Ended(job[k].kind) ELSE job[k]]
  BY DEF Crash, Types
<1>3. \A k \in Kind : /\ Ended(k) \in JobType
                      /\ Ended(k).kind = k /\ Ended(k).stage = "ended"
                      /\ Ended(k).picked = {} /\ Ended(k).out = {} /\ Ended(k).own = FALSE
                      /\ Ended(k).read = {}
  BY EndedType, EndedParts
<1>5. job' \in [Jobs -> JobType]
  BY <1>1, <1>2, <1>3
<1>6. KindsKept
  BY <1>1, <1>2, <1>3 DEF KindsKept
<1>7. \A k \in Jobs : \/ job[k].stage \in {"idle", "ended"} /\ job'[k] = job[k]
                      \/ /\ job[k].stage \notin {"idle", "ended"}
                         /\ job'[k].stage = "ended" /\ job'[k].picked = {}
                         /\ job'[k].out = {} /\ job'[k].own = FALSE
                         /\ job'[k].read = {}
  BY <1>1, <1>2, <1>3 DEF Running
<1> QED BY <1>5, <1>6, <1>7 DEF Crash

LEMMA CrashBase ==
  ASSUME Base, Crash
  PROVE  Types' /\ KindsKept /\ CallsKnow' /\ WaitersWait'
<1> USE DEF Base, server, stored
<1>1. Boot \in Jobs /\ Boot \notin Calls
  BY FundsAssumption DEF Jobs
<1>2. Types' /\ KindsKept
  <2>1. /\ job' \in [Jobs -> JobType] /\ KindsKept /\ sync' = NoSync /\ queue' \in Seq(Calls)
    BY CrashEffect
  <2> QED BY <2>1 DEF Crash, Types, KindsKept, Jobs
<1>3. CallsKnow'
  BY <1>1, CrashEffect DEF CallsKnow, Running
<1>4. \A k \in Jobs : job'[k].stage # "syncing"
  BY <1>1, CrashEffect DEF Jobs
<1>5. WaitersWait'
  BY <1>4, CrashEffect DEF WaitersWait
<1> QED BY <1>2, <1>3, <1>5

LEMMA BaseStep ==
  ASSUME Base, [Next]_vars
  PROVE  Base' /\ KindsKept
<1>1. CASE \E c \in Coins : Receive(c) \/ Sweep(c)
  BY <1>1, ServerMoveTypes, ServerWaits DEF Base
<1>2. CASE Synchronises \/ SyncFails
  BY <1>2, SyncTypes, SyncWaits DEF Base
<1>3. CASE \E i \in Calls : Works(i) \/ FinalizeFails(i)
  BY <1>3, WorksTypes, WorksWait DEF Base
<1>4. CASE StartRecovery
  BY <1>4, RecoversTypes, StartWaits DEF Base
<1>7. CASE Recovers
  BY <1>7, RecoversTypes, RecoversWait DEF Base
<1>5. CASE Crash
  BY <1>5, CrashBase DEF Base
<1>6. CASE UNCHANGED vars
  BY <1>6 DEF vars, server, stored, Base, Types, CallsKnow, WaitersWait, KindsKept, IsSync,
    Running, LocksFirst
<1> QED BY <1>1, <1>2, <1>3, <1>4, <1>5, <1>6, <1>7 DEF Next

LEMMA BaseInit == Init => Base
<1> SUFFICES ASSUME Init PROVE Base
  OBVIOUS
<1>1. PICK kind \in Kinds :
        job = [i \in Calls \cup {Boot} |-> Idle(IF i = Boot THEN "boot" ELSE kind[i])]
  BY DEF Init
<1>0. \A i \in Calls : kind[i] \in Kind \ {"boot"}
  BY <1>1, FundsAssumption DEF Kind
<1>2. \A k \in Kind : Idle(k) \in JobType /\ Idle(k).kind = k /\ Idle(k).stage = "idle"
  BY EndedType, EndedParts
<1>3. \A i \in Jobs : /\ (IF i = Boot THEN "boot" ELSE kind[i]) \in Kind
                      /\ job[i] = Idle(IF i = Boot THEN "boot" ELSE kind[i])
  BY <1>0, <1>1 DEF Jobs, Kind
<1>4. job \in [Jobs -> JobType] /\ \A i \in Jobs : job[i].stage = "idle"
  BY <1>1, <1>2, <1>3 DEF Jobs
<1>5. \A i \in Calls : job[i].kind # "boot"
  <2> SUFFICES ASSUME NEW i \in Calls PROVE job[i].kind # "boot"
    OBVIOUS
  <2>1. i \in Jobs /\ i # Boot /\ kind[i] \in Kind
    BY <1>0, FundsAssumption DEF Jobs
  <2>2. job[i].kind = kind[i]
    BY <1>2, <1>3, <2>1
  <2>3. kind[i] # "boot"
    BY <1>0
  <2> QED BY <2>2, <2>3
<1>6. Types
  <2>0. job[Boot].kind = "boot"
    BY <1>2, <1>3 DEF Jobs, Kind
  <2>1. ledger \in [Coins -> State] /\ cache \in [Coins -> State]
    BY DEF Init, State
  <2>2. queue \in Seq(Calls) /\ sync = NoSync /\ txs = {} /\ fresh = Coins
    BY DEF Init
  <2> QED BY <1>4, <1>5, <2>0, <2>1, <2>2 DEF Init, Types
<1>7. CallsKnow /\ WaitersWait
  <2>1. Boot \in Jobs /\ \A i \in Calls : i \in Jobs
    BY DEF Jobs
  <2> QED BY <1>4, <2>1 DEF Init, CallsKnow, WaitersWait, Running
<1> QED BY <1>6, <1>7 DEF Base

-----------------------------------------------------------------------------
(* The lock. *)

LEMMA LineKept ==
  ASSUME QueueIsExact, queue' = queue,
         \A k \in Calls : InLine(k)' <=> InLine(k),
         \A k \in Calls : Inside(k)' => Inside(k) \/ HoldsLock(k)
  PROVE  QueueIsExact'
BY DEF QueueIsExact, HoldsLock

\* A call that was not in line joins it at its end.
LEMMA LineEnters ==
  ASSUME Types, QueueIsExact, NEW i \in Calls, ~InLine(i), Enters(i), InLine(i)', ~Inside(i)',
         \A k \in Calls \ {i} : (InLine(k)' <=> InLine(k)) /\ (Inside(k)' => Inside(k))
  PROVE  QueueIsExact'
<1>1. /\ queue \in Seq(Calls) /\ queue' = Append(queue, i) /\ Len(queue') = Len(queue) + 1
      /\ Len(queue) \in Nat
  BY DEF Types, Enters
<1>2. \A n \in 1 .. Len(queue) : queue'[n] = queue[n] /\ queue[n] # i
  BY <1>1 DEF QueueIsExact
<1>3. queue'[Len(queue) + 1] = i
  BY <1>1
<1>4. \A k \in Calls : InLine(k)' <=> \E n \in 1 .. Len(queue') : queue'[n] = k
  <2> SUFFICES ASSUME NEW k \in Calls
               PROVE  InLine(k)' <=> \E n \in 1 .. Len(queue') : queue'[n] = k
    OBVIOUS
  <2>1. CASE k = i
    BY <1>1, <1>3, <2>1
  <2>2. CASE k # i
    <3>1. \A n \in 1 .. Len(queue') : n \in 1 .. Len(queue) \/ n = Len(queue) + 1
      BY <1>1
    <3>2. \A n \in 1 .. Len(queue) : n \in 1 .. Len(queue')
      BY <1>1
    <3> QED BY <1>2, <1>3, <2>2, <3>1, <3>2 DEF QueueIsExact
  <2> QED BY <2>1, <2>2
<1>5. \A m, n \in 1 .. Len(queue') : queue'[m] = queue'[n] => m = n
  <2>1. \A n \in 1 .. Len(queue') : n \in 1 .. Len(queue) \/ n = Len(queue) + 1
    BY <1>1
  <2> QED BY <1>2, <1>3, <2>1 DEF QueueIsExact
<1>6. \A k \in Calls : Inside(k)' => HoldsLock(k)'
  <2> SUFFICES ASSUME NEW k \in Calls, Inside(k)' PROVE HoldsLock(k)'
    OBVIOUS
  <2>1. HoldsLock(k)
    BY DEF QueueIsExact
  <2>2. 1 \in 1 .. Len(queue) /\ queue[1] = k
    BY <1>1, <2>1 DEF HoldsLock
  <2>3. queue' # <<>> /\ Head(queue') = k
    BY <1>1, <1>2, <2>2
  <2> QED BY <2>3 DEF HoldsLock
<1> QED BY <1>4, <1>5, <1>6 DEF QueueIsExact

\* A call ends that had the lock, or was not in line.
LEMMA LineLeaves ==
  ASSUME Types, QueueIsExact, NEW i \in Calls, Release(i), ~InLine(i)', InLine(i) => HoldsLock(i),
         \A k \in Calls \ {i} : (InLine(k)' <=> InLine(k)) /\ (Inside(k)' => Inside(k))
  PROVE  QueueIsExact'
<1>1. CASE HoldsLock(i)
  <2>1. /\ queue \in Seq(Calls) /\ queue # <<>> /\ queue[1] = i /\ queue' = Tail(queue)
        /\ Len(queue') = Len(queue) - 1 /\ Len(queue) \in Nat /\ Len(queue) > 0
    BY <1>1 DEF Types, HoldsLock, Release
  <2>2. \A n \in 1 .. Len(queue') : /\ n + 1 \in 1 .. Len(queue) /\ n + 1 # 1
                                    /\ queue'[n] = queue[n + 1]
    BY <2>1
  <2>3. \A n \in 1 .. Len(queue) : n # 1 => n - 1 \in 1 .. Len(queue') /\ queue'[n - 1] = queue[n]
    BY <2>1
  <2>4. \A n \in 1 .. Len(queue') : queue'[n] # i
    BY <2>1, <2>2 DEF QueueIsExact
  <2>5. \A k \in Calls : InLine(k)' <=> \E n \in 1 .. Len(queue') : queue'[n] = k
    <3> SUFFICES ASSUME NEW k \in Calls
                 PROVE  InLine(k)' <=> \E n \in 1 .. Len(queue') : queue'[n] = k
      OBVIOUS
    <3>1. CASE k = i
      BY <2>4, <3>1
    <3>2. CASE k # i
      <4>1. InLine(k)' <=> \E n \in 1 .. Len(queue) : queue[n] = k
        BY <3>2 DEF QueueIsExact
      <4>2. ASSUME NEW n \in 1 .. Len(queue), queue[n] = k
            PROVE  \E m \in 1 .. Len(queue') : queue'[m] = k
        BY <2>1, <2>3, <3>2, <4>2
      <4>3. ASSUME NEW m \in 1 .. Len(queue'), queue'[m] = k
            PROVE  \E n \in 1 .. Len(queue) : queue[n] = k
        BY <2>2, <4>3
      <4> QED BY <4>1, <4>2, <4>3
    <3> QED BY <3>1, <3>2
  <2>6. \A m, n \in 1 .. Len(queue') : queue'[m] = queue'[n] => m = n
    BY <2>1, <2>2 DEF QueueIsExact
  <2>7. \A k \in Calls : ~Inside(k)'
    <3> SUFFICES ASSUME NEW k \in Calls, Inside(k)' PROVE FALSE
      OBVIOUS
    <3>1. k # i
      BY DEF Inside
    <3>2. HoldsLock(k)
      BY <3>1 DEF QueueIsExact
    <3> QED BY <1>1, <3>1, <3>2 DEF HoldsLock
  <2> QED BY <2>5, <2>6, <2>7 DEF QueueIsExact
<1>2. CASE ~HoldsLock(i)
  <2>1. queue' = queue /\ ~InLine(i)
    BY <1>2 DEF Release, HoldsLock
  <2> QED BY <2>1, LineKept DEF Inside
<1> QED BY <1>1, <1>2

\* One call at a time is past the wait for the lock.
LEMMA Exclusive ==
  ASSUME LineInv, NEW i \in Calls, NEW k \in Calls, Inside(i), Inside(k)
  PROVE  i = k
BY DEF LineInv, QueueIsExact, HoldsLock

LEMMA LockStages ==
  ASSUME LineInv, NEW i \in Calls,
         \/ job[i].stage \in {"building", "submitting", "finalizing", "unflagging", "joining",
                              "booking"}
         \/ LocksFirst(i) /\ job[i].stage \in {"syncing", "picking"}
  PROVE  Inside(i) /\ HoldsLock(i)
BY DEF LineInv, StagesFit, StageFits, Inside, InLine, LocksFirst, Running, QueueIsExact

\* What a call alone moves is not in another's way.
LEMMA AloneInLine ==
  ASSUME NEW i \in Calls, Alone(i), NEW k \in Calls, k # i
  PROVE  /\ InLine(k)' <=> InLine(k)
         /\ Inside(k)' <=> Inside(k)
         /\ job'[k] = job[k]
BY CallIsJob DEF Alone, InLine, Inside, LocksFirst, Running

\* A call that ends.
LEMMA EndsLine ==
  ASSUME Types, LineInv, NEW i \in Calls, Ends(i),
         job[i].stage \in {"idle", "picking", "submitting", "finalizing", "unflagging",
                           "joining", "booking"}
  PROVE  QueueIsExact' /\ StagesFit'
<1>1. /\ Alone(i) /\ KindsKept /\ i \in Jobs /\ job'[i].stage = "ended"
      /\ job'[i].out = {} /\ Release(i)
  BY CallIsJob, EndsEffect DEF Ends
<1>2. InLine(i) => HoldsLock(i)
  BY LockStages DEF InLine, Running
<1>3. ~InLine(i)'
  BY <1>1 DEF InLine, Running
<1>4. QueueIsExact'
  BY <1>1, <1>2, <1>3, AloneInLine, LineLeaves DEF LineInv
<1>5. StagesFit'
  BY <1>1, AloneInLine DEF LineInv, StagesFit, StageFits, LocksFirst
<1> QED BY <1>4, <1>5

-----------------------------------------------------------------------------
(* The steps of a call. *)

\* The parts of a transaction.
LEMMA TxParts ==
  ASSUME Types, NEW t \in txs
  PROVE  t \in Tx /\ t.ins \subseteq Coins /\ t.out \in Coins /\ t.by \in Calls
BY DEF Types, Tx

\* What another call keeps.
LEMMA OthersFit ==
  ASSUME LineInv, NEW i \in Calls, Alone(i), StageFits(i)', QueueIsExact'
  PROVE  LineInv'
<1>1. \A k \in Calls \ {i} : StageFits(k)'
  BY AloneInLine DEF LineInv, StagesFit, StageFits, LocksFirst
<1> QED BY <1>1 DEF LineInv, StagesFit

\* What is true of the transactions and of the bookings stays so when calls end
\* or move outside.
LEMMA TxsStay ==
  ASSUME Base, TxsApart, UNCHANGED <<ledger, txs>>,
         \A k \in Calls : \/ job'[k] = job[k]
                           \/ /\ job'[k].stage # "finalizing"
                              /\ job[k].stage \in {"finalizing", "ended"} => job'[k].stage = "ended"
  PROVE  TxsApart'
<1>1. ASSUME NEW t \in txs PROVE job'[t.by].stage \in {"finalizing", "ended"}
  <2>1. t.by \in Calls /\ job[t.by].stage \in {"finalizing", "ended"}
    BY TxParts DEF Base, TxsApart
  <2> QED BY <2>1
<1>2. ASSUME NEW k \in Calls, job'[k].stage = "finalizing"
      PROVE  \A t \in txs : t.by = k => t.ins = job'[k].picked /\ job'[k].out = {t.out}
  <2>1. job'[k] = job[k]
    BY <1>2
  <2> QED BY <1>2, <2>1 DEF TxsApart
<1>3. txs' = txs /\ ledger' = ledger
  OBVIOUS
<1> QED BY <1>1, <1>2, <1>3 DEF TxsApart

LEMMA BooksStay ==
  ASSUME BooksTruth, UNCHANGED <<ledger, txs>>,
         \A k \in Calls : \/ job'[k] = job[k]
                          \/ job'[k].stage \notin {"finalizing", "unflagging", "booking"}
  PROVE  BooksTruth'
<1> SUFFICES ASSUME NEW k \in Calls PROVE BooksWhatIs(k)'
  BY DEF BooksTruth
<1>1. CASE job'[k] = job[k]
  <2>1. ledger' = ledger /\ txs' = txs /\ BooksWhatIs(k)
    BY DEF BooksTruth
  <2> QED BY <1>1, <2>1 DEF BooksWhatIs, Done
<1>2. CASE job'[k].stage \notin {"finalizing", "unflagging", "booking"}
  BY <1>2 DEF BooksWhatIs, Done
<1> QED BY <1>1, <1>2

LEMMA FlagStays ==
  ASSUME FlagHolds, UNCHANGED <<ledger, txs>>, flag => flag',
         \A k \in Calls : job'[k].stage \in {"submitting", "finalizing"} =>
                            flag' \/ job'[k] = job[k]
  PROVE  FlagHolds'
<1>1. ledger' = ledger /\ txs' = txs
  OBVIOUS
<1>3. \A k \in Calls : job'[k].stage \in {"submitting", "finalizing"} => flag' \/ job'[k].beside
  BY <1>1 DEF FlagHolds
<1> QED BY <1>1, <1>3 DEF FlagHolds, Lasts

\* What a VTXO becomes at the server it stays, until it is spent or swept.
LedgerMoves ==
  \A c \in Coins : ledger'[c] \in {"preconfirmed", "settled"} => ledger[c] \in {ledger'[c], "none"}

\* The synchronisation holds what it did, or nothing.
AnswerKept ==
  sync' # NoSync => \/ /\ sync # NoSync /\ sync'.answer = sync.answer /\ sync'.phase = sync.phase
                    \/ DOMAIN sync'.answer = {}

\* The cache learns nothing that is not so.
LEMMA BehindStays ==
  ASSUME Types, SyncCovers, CacheBehind, LedgerMoves, AnswerKept,
         \A c \in Coins : cache'[c] # cache[c] => cache'[c] = ledger'[c] /\ cache'[c] # "none",
         \A k \in Calls : job'[k].read \in {job[k].read, {}},
         \A k \in Calls : job'[k].stage \in {"building", "submitting"} =>
           \A c \in job'[k].picked : c \in Coins /\ Known(c),
         \A t \in txs' : \A c \in t.ins : c \in Coins /\ Known(c)
  PROVE  CacheBehind'
<1>1. \A c \in Coins : Known(c) => Known(c)'
  BY DEF Known
<1>2. ASSUME NEW c \in Coins, NEW s, Behind(s, c), ledger[c] = "none" => s = "none"
      PROVE  s # "none" /\ ledger'[c] \in {"preconfirmed", "settled"} => s = ledger'[c]
  BY <1>2 DEF Behind, LedgerMoves
<1>3. \A c \in Coins : Behind(cache[c], c)'
  <2> SUFFICES ASSUME NEW c \in Coins PROVE Behind(cache[c], c)'
    OBVIOUS
  <2>1. Behind(cache[c], c) /\ (ledger[c] = "none" => cache[c] = "none")
    BY DEF CacheBehind, SyncCovers
  <2>2. cache[c] # "none" /\ ledger'[c] \in {"preconfirmed", "settled"} => cache[c] = ledger'[c]
    BY <1>2, <2>1
  <2> QED BY <2>2 DEF Behind
<1>4. ASSUME sync' # NoSync, NEW c \in DOMAIN sync'.answer
      PROVE  /\ Behind(sync.answer[c], c)'
             /\ sync'.phase \in {"advancing", "reconciling"} /\ sync'.answer[c] # "none"
                  => Known(c)'
  <2>1. sync # NoSync /\ sync'.answer = sync.answer /\ sync'.phase = sync.phase
    BY <1>4 DEF AnswerKept
  <2>2. c \in Coins
    BY <1>4, <2>1 DEF Types, IsSync
  <2>3. Behind(sync.answer[c], c) /\ (ledger[c] = "none" => sync.answer[c] = "none")
    BY <1>4, <2>1 DEF CacheBehind, SyncCovers
  <2>4. sync.answer[c] # "none" /\ ledger'[c] \in {"preconfirmed", "settled"}
          => sync.answer[c] = ledger'[c]
    BY <1>2, <2>2, <2>3
  <2>5. Behind(sync.answer[c], c)'
    BY <2>1, <2>4 DEF Behind
  <2>6. sync'.phase \in {"advancing", "reconciling"} /\ sync'.answer[c] # "none" => Known(c)'
    BY <1>1, <1>4, <2>1, <2>2 DEF CacheBehind
  <2> QED BY <2>5, <2>6
<1>5. \A k \in Calls : \A x \in job'[k].read : x[2] # "none" => Known(x[1])'
  <2> SUFFICES ASSUME NEW k \in Calls, NEW x \in job'[k].read, x[2] # "none"
               PROVE  Known(x[1])'
    OBVIOUS
  <2>1. x \in job[k].read /\ Known(x[1])
    BY DEF CacheBehind
  <2>2. x[1] \in Coins
    BY <2>1, JobParts, CallIsJob DEF Reads
  <2> QED BY <1>1, <2>1, <2>2
<1> QED BY <1>1, <1>3, <1>4, <1>5 DEF CacheBehind

\* What calls have picked and sent is known.
LEMMA KnownParts ==
  ASSUME Types, CacheBehind
  PROVE  /\ \A k \in Calls : job[k].stage \in {"building", "submitting"} =>
              \A c \in job[k].picked : c \in Coins /\ Known(c)
         /\ \A t \in txs : \A c \in t.ins : c \in Coins /\ Known(c)
<1>1. \A k \in Calls : job[k].picked \subseteq Coins
  BY JobParts, CallIsJob
<1>2. \A t \in txs : t.ins \subseteq Coins
  BY TxParts
<1> QED BY <1>1, <1>2 DEF CacheBehind

\* A step of one call, after which no transaction is new.
LEMMA BehindAlone ==
  ASSUME Types, SyncCovers, CacheBehind, LedgerMoves, AnswerKept, txs' \subseteq txs,
         \A c \in Coins : cache'[c] # cache[c] => cache'[c] = ledger'[c] /\ cache'[c] # "none",
         NEW i \in Calls, Alone(i), job'[i].read \in {job[i].read, {}},
         job'[i].stage \notin {"building", "submitting"}
  PROVE  CacheBehind'
<1>1. \A k \in Calls : k = i \/ job'[k] = job[k]
  BY AloneInLine
<1>2. /\ \A k \in Calls : job[k].stage \in {"building", "submitting"} =>
           \A c \in job[k].picked : c \in Coins /\ Known(c)
      /\ \A t \in txs : \A c \in t.ins : c \in Coins /\ Known(c)
  BY KnownParts
<1>3. \A k \in Calls : job'[k].read \in {job[k].read, {}}
  BY <1>1
<1>4. \A k \in Calls : job'[k].stage \in {"building", "submitting"} =>
        \A c \in job'[k].picked : c \in Coins /\ Known(c)
  BY <1>1, <1>2
<1>5. \A t \in txs' : \A c \in t.ins : c \in Coins /\ Known(c)
  BY <1>2
<1> QED BY <1>3, <1>4, <1>5, BehindStays

\* The recovery still finds what it has to.
LEMMA FindsStay ==
  ASSUME RecoveryFinds, job'[Boot] = job[Boot],
         Running(Boot) => \A t \in txs' : Lasts(t)' => t \in txs /\ Lasts(t)
  PROVE  RecoveryFinds'
BY DEF RecoveryFinds, Running

\* Nothing happens to the transactions that go on.
LEMMA LastsAround ==
  ASSUME txs' \subseteq txs, \A t \in txs' : \A c \in t.ins : ledger'[c] = ledger[c]
  PROVE  \A t \in txs' : Lasts(t)' => t \in txs /\ Lasts(t)
BY DEF Lasts

\* A call moves, and nothing else but the flag and the cursor changes.
LEMMA CallStep ==
  ASSUME Base, FundsInv, NEW i \in Calls, Alone(i),
         UNCHANGED <<ledger, txs, cache, fresh, sync>>,
         cursor' \in {cursor, FALSE}, flag' \in {flag, TRUE},
         QueueIsExact', StageFits(i)',
         job[i].stage = "finalizing" => job'[i].stage = "ended", job[i].stage # "ended",
         job'[i].stage \notin {"finalizing", "unflagging", "booking"},
         job'[i].stage = "submitting" => flag',
         job'[i].read \in {job[i].read, {}},
         job'[i].stage \in {"building", "submitting"} => \A c \in job'[i].picked : c \in Coins /\ Known(c),
         Own(i)' => OwnHolds(i)'
  PROVE  FundsInv'
<1>1. LineInv'
  BY OthersFit DEF FundsInv
<1>2. job'[Boot] = job[Boot] /\ \A k \in Calls \ {i} : job'[k] = job[k]
  BY AloneInLine, WorksJobs DEF Alone
<1>3. TxsApart'
  BY <1>2, TxsStay DEF FundsInv
<1>4. BooksTruth'
  BY <1>2, BooksStay DEF FundsInv
<1>5. SyncCovers'
  <2>1. UNCHANGED <<ledger, cache, fresh, sync>> /\ SyncCovers
    BY DEF FundsInv
  <2>2. ~cursor => ~cursor'
    BY DEF Base, Types
  <2> QED BY <2>1, <2>2 DEF SyncCovers, Right
<1>6. FlagHolds'
  <2>1. \A k \in Calls : job'[k].stage \in {"submitting", "finalizing"} =>
                           flag' \/ job'[k] = job[k]
    BY <1>2
  <2>2. flag => flag'
    BY DEF Base, Types
  <2> QED BY <2>1, <2>2, FlagStays DEF FundsInv
<1>7. RecoveryFinds'
  BY <1>2, FindsStay DEF FundsInv, Lasts
<1>8. OwnIsEnough'
  BY <1>2 DEF FundsInv, OwnIsEnough, OwnHolds, Own, LocksFirst
<1>9. CacheBehind'
  <2>1. LedgerMoves /\ AnswerKept
    BY DEF LedgerMoves, AnswerKept
  <2>2. /\ \A k \in Calls : job[k].stage \in {"building", "submitting"} =>
             \A c \in job[k].picked : c \in Coins /\ Known(c)
        /\ \A t \in txs : \A c \in t.ins : c \in Coins /\ Known(c)
    BY KnownParts DEF Base, FundsInv
  <2>3. \A k \in Calls : job'[k].read \in {job[k].read, {}}
    BY <1>2
  <2>4. \A k \in Calls : job'[k].stage \in {"building", "submitting"} =>
          \A c \in job'[k].picked : c \in Coins /\ Known(c)
    BY <1>2, <2>2
  <2> QED BY <2>1, <2>2, <2>3, <2>4, BehindStays DEF Base, FundsInv
<1> QED BY <1>1, <1>3, <1>4, <1>5, <1>6, <1>7, <1>8, <1>9 DEF FundsInv

\* Ending a call, whatever the reason.
LEMMA CallEnds ==
  ASSUME Base, FundsInv, NEW i \in Calls, Ends(i),
         job[i].stage \in {"idle", "picking", "submitting", "finalizing", "joining"},
         UNCHANGED <<ledger, txs, cache, fresh, sync, flag>>, cursor' \in {cursor, FALSE}
  PROVE  FundsInv'
<1>1. Alone(i) /\ job'[i].stage = "ended" /\ job'[i].own = FALSE /\ job'[i].read = {}
  BY CallIsJob, EndsEffect DEF Base
<1>2. QueueIsExact' /\ StageFits(i)'
  BY EndsLine DEF Base, FundsInv, StagesFit
<1>3. ~Own(i)'
  BY <1>1 DEF Own
<1> QED BY <1>1, <1>2, <1>3, CallStep

\* A call gets in line.
LEMMA CallQueues ==
  ASSUME Base, FundsInv, NEW i \in Calls, Enters(i), Alone(i),
         job'[i].stage = "queued", job[i].stage \in {"idle", "picking"},
         job[i].kind \in {"send", "settle", "renew"}, job'[i].kind = job[i].kind,
         LocksFirst(i) => job[i].stage = "idle", job'[i].out = job[i].out,
         job'[i].own = job[i].own, job'[i].read \in {job[i].read, {}},
         UNCHANGED <<ledger, txs, cache, fresh, sync, flag, cursor>>
  PROVE  FundsInv'
<1>1. StageFits(i)' /\ ~Own(i)'
  BY DEF FundsInv, LineInv, StagesFit, StageFits, LocksFirst, Own
<1>2. ~InLine(i) /\ InLine(i)' /\ ~Inside(i)'
  BY DEF InLine, Inside, LocksFirst, Running
<1>3. QueueIsExact'
  BY <1>2, AloneInLine, LineEnters DEF Base, FundsInv, LineInv
<1> QED BY <1>1, <1>3, CallStep

\* A call that holds the lock goes on, or one that needs none.
LEMMA CallGoesOn ==
  ASSUME Base, FundsInv, NEW i \in Calls, Alone(i),
         queue' = queue, InLine(i)' <=> InLine(i), Inside(i)' => Inside(i) \/ HoldsLock(i)
  PROVE  QueueIsExact'
BY AloneInLine, LineKept DEF Base, FundsInv, LineInv

LEMMA BeginQueues ==
  ASSUME Base, FundsInv, NEW i \in Calls, Begin(i), LocksFirst(i)
  PROVE  FundsInv'
<1>1. i # Boot /\ Boot \in Jobs /\ i \in Jobs /\ Types
  BY WorksJobs DEF Base
<1>2. /\ Enters(i) /\ QueuesUp(i) /\ job[i].stage = "idle"
      /\ UNCHANGED <<ledger, txs, cache, fresh, sync, flag, cursor>>
  BY DEF Begin, QueuesUp, server, stored
<1>3. /\ Alone(i) /\ job'[i].stage = "queued" /\ job'[i].out = job[i].out
      /\ job'[i].own = job[i].own /\ job'[i].kind = job[i].kind
      /\ job'[i].read = job[i].read
  BY <1>1, <1>2, QueuesEffect DEF KindsKept
<1> QED BY <1>1, <1>2, <1>3, CallQueues DEF LocksFirst

LEMMA PicksStep ==
  ASSUME Base, FundsInv, AllLocked, NEW i \in Calls,
         PickSend(i) \/ PickAsset(i) \/ PickSettle(i) \/ PickRenewal(i)
  PROVE  FundsInv'
<1>1. i # Boot /\ Boot \in Jobs /\ i \in Jobs /\ Types
  BY WorksJobs DEF Base
<1>2. job[i].stage = "picking" /\ UNCHANGED <<ledger, txs, cache, fresh, sync, flag, cursor>>
  BY DEF PickSend, PickAsset, PickSettle, PickRenewal, Picks, server, stored
<1>3. ~PickAsset(i)
  BY DEF AllLocked, PickAsset
<1>4. CASE PickRenewal(i)
  <2>1. PICK S \in SUBSET Coins : Picks(i, S, "queued") /\ Enters(i) /\ job[i].kind = "renew"
    BY <1>4, OfferedType DEF PickRenewal
  <2>2. /\ Alone(i) /\ job'[i].stage = "queued" /\ job'[i].out = job[i].out
        /\ job'[i].own = job[i].own /\ job'[i].kind = job[i].kind /\ job'[i].read = {}
    BY <1>1, <2>1, PicksEffect DEF Stage, KindsKept
  <2> QED BY <1>1, <1>2, <2>1, <2>2, CallQueues DEF LocksFirst
<1>5. ASSUME NEW S \in SUBSET Coins, NEW s \in {"building", "joining"}, Picks(i, S, s),
             queue' = queue, LocksFirst(i), S \subseteq Offered(i),
             s = "building" => job[i].kind = "send", s = "joining" => job[i].kind = "settle"
      PROVE  FundsInv'
  <2>1. /\ Alone(i) /\ job'[i].stage = s /\ job'[i].out = job[i].out /\ job'[i].picked = S
        /\ job'[i].own = job[i].own /\ job'[i].kind = job[i].kind /\ job'[i].read = {}
        /\ job'[i].beside = job[i].beside
    BY <1>1, <1>5, PicksEffect DEF Stage, KindsKept
  <2>2. StageFits(i)'
    BY <1>2, <1>5, <2>1 DEF FundsInv, LineInv, StagesFit, StageFits, LocksFirst
  <2>3. InLine(i) /\ InLine(i)' /\ Inside(i)
    BY <1>2, <1>5, <2>1 DEF InLine, Inside, LocksFirst, Running
  <2>4. QueueIsExact'
    BY <1>1, <1>5, <2>1, <2>3, CallGoesOn
  <2>5. Own(i)' => OwnHolds(i)'
    <3> SUFFICES ASSUME Own(i)', NEW c \in S PROVE ledger[c] # "spent"
      BY <1>2, <2>1 DEF OwnHolds
    <3>1. Own(i) /\ OwnHolds(i)
      BY <2>1 DEF Own, LocksFirst, FundsInv, OwnIsEnough
    <3>2. c \in Coins /\ c \in Offered(i) /\ {"preconfirmed", "settled"} \subseteq Unspent
      BY <1>5 DEF Unspent
    <3>3. CASE job[i].delta
      <4>1. cache[c] \in Unspent
        BY <3>2, <3>3 DEF Offered
      <4> QED BY <1>2, <3>1, <3>2, <3>3, <4>1 DEF OwnHolds
    <3>4. CASE ~job[i].delta
      <4>1. \E u \in Unspent : <<c, u>> \in job[i].read
        BY <3>2, <3>4 DEF Offered
      <4> QED BY <1>2, <3>1, <3>2, <3>4, <4>1 DEF OwnHolds
    <3> QED BY <3>3, <3>4
  <2>6. \A c \in S : c \in Coins /\ Known(c)
    <3> SUFFICES ASSUME NEW c \in S PROVE Known(c)
      BY <1>5
    <3>1. c \in Coins /\ c \in Offered(i) /\ "none" \notin Unspent
          /\ {"preconfirmed", "settled"} \subseteq Unspent
      BY <1>5 DEF Unspent
    <3>2. CASE job[i].delta
      <4>1. cache[c] \in Unspent
        BY <3>1, <3>2 DEF Offered
      <4> QED BY <3>1, <4>1 DEF Known
    <3>3. CASE ~job[i].delta
      <4>1. PICK u \in Unspent : <<c, u>> \in job[i].read
        BY <3>1, <3>3 DEF Offered
      <4>2. <<c, u>>[2] # "none" => Known(<<c, u>>[1])
        BY <4>1 DEF FundsInv, CacheBehind
      <4> QED BY <3>1, <4>1, <4>2
    <3> QED BY <3>2, <3>3
  <2> QED BY <1>1, <1>2, <1>5, <2>1, <2>2, <2>4, <2>5, <2>6, CallStep
<1>6. CASE PickSend(i)
  <2>1. PICK S \in SUBSET Offered(i) : Picks(i, S, "building") /\ queue' = queue /\ job[i].kind = "send"
    BY <1>6 DEF PickSend
  <2> QED BY <1>5, <2>1, OfferedType DEF LocksFirst
<1>7. CASE PickSettle(i)
  <2>1. Picks(i, Offered(i), "joining") /\ queue' = queue /\ job[i].kind = "settle"
    BY <1>7 DEF PickSettle
  <2> QED BY <1>5, <2>1, OfferedType DEF LocksFirst
<1> QED BY <1>3, <1>4, <1>6, <1>7

LEMMA CallsLine ==
  ASSUME LineInv, queue' = queue,
         \A k \in Calls : /\ job'[k].kind = job[k].kind /\ job'[k].stage = job[k].stage
                          /\ job'[k].out = job[k].out /\ job'[k].own = job[k].own
  PROVE  LineInv'
<1>1. \A k \in Calls : /\ InLine(k)' <=> InLine(k)
                       /\ Inside(k)' <=> Inside(k)
  BY DEF InLine, Inside, LocksFirst, Running
<1>2. QueueIsExact'
  BY <1>1, LineKept DEF LineInv
<1>3. StagesFit'
  BY DEF LineInv, StagesFit, StageFits, LocksFirst
<1> QED BY <1>2, <1>3 DEF LineInv

\* Asking for a synchronisation changes nothing of what one covers.
LEMMA AwaitsCovers ==
  ASSUME Types, NEW i \in Jobs, Awaits(i), SyncCovers,
         UNCHANGED <<ledger, cache, fresh, cursor>>
  PROVE  SyncCovers' /\ AnswerKept
<1>1. ledger' = ledger /\ cache' = cache /\ fresh' = fresh /\ cursor' = cursor
  OBVIOUS
<1>2. CASE sync = NoSync
  <2>1. /\ sync'.phase = "fetching" /\ sync'.bootstrap = ~cursor /\ sync'.answer = <<>>
        /\ sync'.since = {} /\ DOMAIN sync'.answer = {}
    BY <1>2, AwaitsEffect
  <2>2. cursor => \A c \in Coins : Right(c) \/ c \in fresh
    BY DEF SyncCovers
  <2>3. ~sync'.bootstrap => \A c \in Coins : Right(c) \/ c \in fresh
    BY <2>1, <2>2 DEF Types
  <2> QED BY <1>1, <2>1, <2>3 DEF SyncCovers, Right, AnswerKept
<1>3. CASE sync # NoSync
  BY <1>1, <1>3, AwaitsEffect DEF SyncCovers, Right, AnswerKept
<1> QED BY <1>2, <1>3

\* A synchronisation is joined, by a call that holds the lock if it needs it.
LEMMA JoinsStep ==
  ASSUME Base, FundsInv, NEW i \in Calls, Joins(i), LineInv',
         UNCHANGED <<ledger, txs, cache, flag, cursor, fresh>>,
         job[i].stage \in {"idle", "queued"}
  PROVE  FundsInv'
<1>1. /\ Alone(i) /\ job'[i].stage = "syncing" /\ job'[i].kind = job[i].kind
      /\ job'[i].own = (LocksFirst(i) /\ sync = NoSync) /\ job'[i].read = job[i].read
      /\ Awaits(i) /\ i \in Jobs
  BY JoinsEffect, CallIsJob DEF Base, KindsKept, Joins
<1>2. job'[Boot] = job[Boot] /\ \A k \in Calls : k = i \/ job'[k] = job[k]
  BY <1>1, CallIsJob, WorksJobs DEF Alone
<1>4. TxsApart' /\ BooksTruth' /\ FlagHolds'
  <2>1. TxsApart'
    BY <1>1, <1>2, TxsStay DEF FundsInv
  <2>2. BooksTruth'
    BY <1>1, <1>2, BooksStay DEF FundsInv
  <2>3. \A k \in Calls : job'[k].stage \in {"submitting", "finalizing"} =>
                           flag' \/ job'[k] = job[k]
    BY <1>1, <1>2
  <2>4. FlagHolds'
    BY <2>3, FlagStays DEF FundsInv
  <2> QED BY <2>1, <2>2, <2>4
<1>5. SyncCovers' /\ AnswerKept
  BY <1>1, AwaitsCovers DEF Base, FundsInv
<1>8. CacheBehind'
  <2>1. LedgerMoves
    BY DEF LedgerMoves
  <2> QED BY <1>1, <1>5, <2>1, BehindAlone DEF Base, FundsInv
<1>6. RecoveryFinds'
  BY <1>2, FindsStay DEF FundsInv, Lasts
<1>7. ASSUME NEW k \in Calls, Own(k)' PROVE OwnHolds(k)'
  <2>1. sync' # NoSync /\ (sync'.since = {} \/ (sync # NoSync /\ sync'.since = sync.since))
    BY <1>1, AwaitsEffect DEF Base
  <2>2. CASE k = i
    <3>2. sync'.since = {}
      BY <1>1, <1>7, <2>2, AwaitsEffect DEF Own, Base
    <3> QED BY <1>1, <2>2, <3>2 DEF OwnHolds
  <2>3. CASE k # i
    <3>1. job'[k] = job[k] /\ OwnHolds(k) /\ ledger' = ledger /\ cache' = cache
      BY <1>2, <1>7, <2>3 DEF FundsInv, OwnIsEnough, Own, LocksFirst
    <3> QED BY <2>1, <3>1 DEF OwnHolds
  <2> QED BY <2>2, <2>3
<1> QED BY <1>4, <1>5, <1>6, <1>7, <1>8 DEF FundsInv, OwnIsEnough

\* A call begins.
LEMMA BeginStep ==
  ASSUME Base, FundsInv, NEW i \in Calls, Begin(i)
  PROVE  FundsInv'
<1>1. i # Boot /\ Boot \in Jobs /\ i \in Jobs /\ Types
  BY WorksJobs DEF Base
<1>2. CASE ~LocksFirst(i)
  <2>1. /\ Joins(i) /\ queue' = queue /\ job[i].stage = "idle"
        /\ UNCHANGED <<ledger, txs, cache, flag, cursor, fresh>>
    BY <1>2 DEF Begin, server, stored
  <2>2. /\ Alone(i) /\ job'[i].stage = "syncing" /\ job'[i].kind = job[i].kind
        /\ job'[i].out = job[i].out
    BY <1>1, <2>1, JoinsEffect DEF KindsKept
  <2>3. StageFits(i)'
    BY <1>2, <2>1, <2>2 DEF FundsInv, LineInv, StagesFit, StageFits, LocksFirst
  <2>4. ~InLine(i) /\ ~InLine(i)'
    BY <1>2, <2>1, <2>2 DEF InLine, LocksFirst
  <2>5. LineInv'
    BY <1>1, <2>1, <2>2, <2>3, <2>4, CallGoesOn, OthersFit DEF FundsInv, Inside
  <2> QED BY <1>1, <2>1, <2>5, JoinsStep
<1> QED BY <1>2, BeginQueues

\* A call gets the lock.
LEMMA AcquireStep ==
  ASSUME Base, FundsInv, NEW i \in Calls, Acquire(i)
  PROVE  FundsInv'
<1>1. i # Boot /\ Boot \in Jobs /\ i \in Jobs /\ Types
  BY WorksJobs DEF Base
<1>2. /\ job[i].stage = "queued" /\ HoldsLock(i) /\ queue' = queue
      /\ UNCHANGED <<ledger, txs, cache, flag, cursor, fresh>>
      /\ job[i].kind \in {"send", "settle", "renew"}
  BY DEF Acquire, server, stored, FundsInv, LineInv, StagesFit, StageFits
<1>3. CASE LocksFirst(i)
  <2>1. Joins(i)
    BY <1>3 DEF Acquire
  <2>2. /\ Alone(i) /\ job'[i].stage = "syncing" /\ job'[i].kind = job[i].kind
        /\ job'[i].out = job[i].out
    BY <1>1, <2>1, JoinsEffect DEF KindsKept
  <2>3. StageFits(i)'
    BY <1>2, <2>2 DEF FundsInv, LineInv, StagesFit, StageFits, LocksFirst
  <2>4. InLine(i) /\ InLine(i)'
    BY <1>2, <1>3, <2>2 DEF InLine, LocksFirst, Running
  <2>5. LineInv'
    BY <1>1, <1>2, <2>2, <2>3, <2>4, CallGoesOn, OthersFit DEF FundsInv
  <2> QED BY <1>1, <1>2, <2>1, <2>5, JoinsStep
<1>4. CASE ~LocksFirst(i)
  <2>1. To(i, "joining") /\ sync' = sync /\ job[i].kind = "renew"
    BY <1>2, <1>4 DEF Acquire, LocksFirst
  <2>2. /\ Alone(i) /\ job'[i].stage = "joining" /\ job'[i].kind = job[i].kind
        /\ job'[i].out = job[i].out /\ job'[i].own = job[i].own
        /\ job'[i].read = job[i].read
    BY <1>1, <2>1, ToEffect DEF Stage, KindsKept
  <2>3. StageFits(i)' /\ ~Own(i)'
    BY <1>2, <2>1, <2>2 DEF FundsInv, LineInv, StagesFit, StageFits, LocksFirst, Own
  <2>4. InLine(i) /\ InLine(i)'
    BY <1>2, <2>1, <2>2 DEF InLine
  <2>5. QueueIsExact'
    BY <1>1, <1>2, <2>2, <2>4, CallGoesOn
  <2> QED BY <1>1, <1>2, <2>1, <2>2, <2>3, <2>5, CallStep
<1> QED BY <1>3, <1>4

-----------------------------------------------------------------------------
(* Steps of a call that holds the lock. *)

\* Where a call uses what its own synchronisation answered.
OwnStages == {"syncing", "picking", "building", "submitting", "joining"}

\* While one call is past the wait for the lock, no other has anything to book
\* or to rely on.
LEMMA OthersOut ==
  ASSUME FundsInv, NEW i \in Calls, Inside(i), Alone(i), job'[i].stage \notin OwnStages
  PROVE  OwnIsEnough'
<1> SUFFICES ASSUME NEW k \in Calls, Own(k)' PROVE OwnHolds(k)'
  BY DEF OwnIsEnough
<1>1. CASE k = i
  BY <1>1 DEF OwnHolds, OwnStages
<1>2. CASE k # i
  <2>1. job'[k] = job[k] /\ LocksFirst(k)
    BY <1>2, AloneInLine DEF Own, LocksFirst
  <2>2. job[k].stage \notin OwnStages
    BY <1>2, <2>1, LockStages, Exclusive DEF FundsInv, OwnStages
  <2> QED BY <2>1, <2>2 DEF OwnHolds, OwnStages
<1> QED BY <1>1, <1>2

LEMMA OthersBook ==
  ASSUME FundsInv, NEW i \in Calls, Inside(i), Alone(i), BooksWhatIs(i)'
  PROVE  BooksTruth'
<1> SUFFICES ASSUME NEW k \in Calls, k # i PROVE BooksWhatIs(k)'
  BY DEF BooksTruth
<1>1. job'[k] = job[k]
  BY AloneInLine
<1>2. job[k].stage \notin {"finalizing", "unflagging", "booking"}
  BY LockStages, Exclusive DEF FundsInv
<1> QED BY <1>1, <1>2 DEF BooksWhatIs, Done

LEMMA InsideStays ==
  ASSUME Base, FundsInv, NEW i \in Calls, Alone(i),
         queue' = queue, Inside(i), InLine(i)', StageFits(i)'
  PROVE  LineInv'
<1>1. QueueIsExact'
  BY CallGoesOn DEF Inside
<1> QED BY <1>1, OthersFit DEF FundsInv

\* Transactions that go on, untouched by what happens at the server.
LEMMA TxsAround ==
  ASSUME Base, TxsApart, txs' \subseteq txs,
         \A t \in txs' : /\ ledger'[t.out] = ledger[t.out]
                         /\ \A c \in t.ins : ledger'[c] = ledger[c]
                         /\ job'[t.by].stage \in {"finalizing", "ended"},
         \A k \in Calls : job'[k].stage = "finalizing" => job'[k] = job[k]
  PROVE  TxsApart'
<1>1. ASSUME NEW k \in Calls, job'[k].stage = "finalizing", NEW t \in txs', t.by = k
      PROVE  t.ins = job'[k].picked /\ job'[k].out = {t.out}
  <2>1. job'[k] = job[k] /\ t \in txs
    BY <1>1
  <2> QED BY <1>1, <2>1 DEF TxsApart
<1> QED BY <1>1 DEF TxsApart

LEMMA FlagAround ==
  ASSUME FlagHolds, txs' \subseteq txs, flag' = flag,
         \A t \in txs' : \A c \in t.ins : ledger'[c] = ledger[c],
         \A k \in Calls : job'[k].stage \in {"submitting", "finalizing"} => job'[k] = job[k]
  PROVE  FlagHolds'
<1>1. \A t \in txs' : t \in txs /\ (Lasts(t)' => Lasts(t))
  BY DEF Lasts
<1>2. \A k \in Calls : job'[k].stage \in {"submitting", "finalizing"} =>
                         flag' \/ job'[k].beside
  BY DEF FlagHolds
<1> QED BY <1>1, <1>2 DEF FlagHolds

\* A change at the server is one the next answer has.
LEMMA ChangedCovers ==
  ASSUME Types, SyncCovers, NEW S \in SUBSET Coins, Changed(S),
         \A c \in Coins : ledger'[c] = "none" => ledger[c] = "none",
         \A c \in Coins \ S : ledger'[c] = ledger[c],
         cache' = cache, cursor' = cursor
  PROVE  SyncCovers'
<1>1. /\ fresh' = fresh \cup S
      /\ sync' = NoSync <=> sync = NoSync
      /\ sync # NoSync => /\ sync'.phase = sync.phase /\ sync'.answer = sync.answer
                          /\ sync'.bootstrap = sync.bootstrap
                          /\ sync'.since = sync.since \cup S
  BY ChangedEffect
<1>2. /\ \A c \in Coins : ledger'[c] = "none" => cache'[c] = "none"
      /\ \A c \in Coins : Right(c)' \/ c \in fresh' \/ ~cursor'
  BY <1>1 DEF SyncCovers, Right
<1>3. CASE sync # NoSync
  <2>1. DOMAIN sync.answer \subseteq Coins
    BY <1>3 DEF Types, IsSync
  <2>2. sync'.since \subseteq fresh'
    BY <1>1, <1>3 DEF SyncCovers
  <2>3. \A c \in DOMAIN sync'.answer : /\ sync'.answer[c] = ledger'[c] \/ c \in sync'.since
                                       /\ ledger'[c] = "none" => sync'.answer[c] = "none"
    BY <1>1, <1>3, <2>1 DEF SyncCovers
  <2>4. /\ sync'.phase = "fetching" => sync'.answer = <<>>
        /\ sync'.phase = "fetching" /\ ~sync'.bootstrap =>
             \A c \in Coins : Right(c)' \/ c \in fresh'
    BY <1>1, <1>3 DEF SyncCovers, Right
  <2>5. sync'.phase = "saving" =>
          \A c \in Coins \ DOMAIN sync'.answer : Right(c)' \/ c \in sync'.since
    BY <1>1, <1>3 DEF SyncCovers, Right
  <2>6. sync'.phase \in {"advancing", "reconciling"} =>
          \A c \in Coins : Right(c)' \/ c \in sync'.since
    BY <1>1, <1>3 DEF SyncCovers, Right
  <2> QED BY <1>2, <2>2, <2>3, <2>4, <2>5, <2>6 DEF SyncCovers
<1>4. CASE sync = NoSync
  BY <1>1, <1>2, <1>4 DEF SyncCovers
<1> QED BY <1>3, <1>4

\* The cache is put right.
LEMMA CacheMends ==
  ASSUME SyncCovers, UNCHANGED <<ledger, fresh, cursor, sync>>,
         \A c \in Coins : cache'[c] \in {cache[c], ledger[c]}
  PROVE  SyncCovers'
<1>1. /\ \A c \in Coins : Right(c) => Right(c)'
      /\ \A c \in Coins : ledger[c] = "none" => cache'[c] = "none"
  BY DEF SyncCovers, Right
<1>2. ledger' = ledger /\ fresh' = fresh /\ cursor' = cursor /\ sync' = sync
  OBVIOUS
<1> QED BY <1>1, <1>2 DEF SyncCovers

\* The server took the transaction and answered.
LEMMA SubmitsEffect ==
  ASSUME Types, NEW i \in Jobs, NEW c \in Coins,
         job' = [job EXCEPT ![i].stage = "finalizing", ![i].out = {c}]
  PROVE  /\ KindsKept /\ Alone(i) /\ job'[i].stage = "finalizing" /\ job'[i].out = {c}
         /\ job'[i].picked = job[i].picked /\ job'[i].own = job[i].own
         /\ job'[i].read = job[i].read /\ job'[i].beside = job[i].beside
<1> DEFINE new == [job[i] EXCEPT !.stage = "finalizing", !.out = {c}]
<1>1. job' = [job EXCEPT ![i] = new] /\ job[i] \in JobType
  BY DEF Types
<1>2. new \in JobType
  <2>a. "finalizing" \in Stage
    BY DEF Stage
  <2>1. \A r \in JobType : [r EXCEPT !.stage = "finalizing"] \in JobType
    BY <2>a, JobUpdates
  <2>2. \A r \in JobType : [r EXCEPT !.out = {c}] \in JobType
    BY JobUpdates
  <2> QED BY <1>1, <2>1, <2>2
<1>3. /\ new.kind = job[i].kind /\ new.stage = "finalizing" /\ new.out = {c}
      /\ new.picked = job[i].picked /\ new.own = job[i].own
      /\ new.read = job[i].read /\ new.beside = job[i].beside
  BY <1>1, JobDomain
<1> HIDE DEF new
<1> QED BY <1>1, <1>2, <1>3, GoesOn

\* The server holds the new transaction, whether or not the call learns of it.
LEMMA SubmitStep ==
  ASSUME Base, FundsInv, NEW i \in Calls, SubmitTx(i)
  PROVE  FundsInv'
<1>1. i # Boot /\ Boot \in Jobs /\ i \in Jobs /\ Types
  BY WorksJobs DEF Base
<1>2. /\ job[i].stage = "submitting" /\ CanSpend(job[i].picked) /\ job[i].kind = "send"
      /\ flag \/ job[i].beside
      /\ UNCHANGED <<ledger, cache, flag, cursor, fresh, sync>>
  BY DEF SubmitTx, stored, FundsInv, LineInv, StagesFit, StageFits, FlagHolds
<1> DEFINE new(c) == [ins |-> job[i].picked, out |-> c, by |-> i,
                            overtaken |-> job[i].beside]
<1>3. PICK c \in Outputs :
        /\ txs' = txs \cup {new(c)}
        /\ \/ /\ job' = [job EXCEPT ![i].stage = "finalizing", ![i].out = {c}]
              /\ queue' = queue
           \/ Ends(i)
  BY DEF SubmitTx
<1>4. c \in Coins /\ ledger[c] = "none" /\ \A t \in txs : t.out # c
  BY <1>3 DEF Outputs
<1>5. /\ Alone(i) /\ job'[i].kind = job[i].kind
      /\ \/ /\ job'[i].stage = "finalizing" /\ job'[i].out = {c} /\ queue' = queue
            /\ job'[i].picked = job[i].picked /\ job'[i].read = job[i].read
            /\ job'[i].beside = job[i].beside
         \/ Ends(i) /\ job'[i].stage = "ended" /\ job'[i].read = {}
  BY <1>1, <1>3, <1>4, SubmitsEffect, EndsEffect DEF KindsKept
<1>6. Inside(i)
  BY <1>2, LockStages DEF FundsInv
<1>7. LineInv'
  <2>1. CASE Ends(i)
    BY <1>1, <1>2, <2>1, EndsLine DEF FundsInv, LineInv
  <2>2. CASE job'[i].stage = "finalizing" /\ queue' = queue
    <3>1. StageFits(i)' /\ InLine(i)'
      BY <1>2, <1>5, <2>2 DEF StageFits, InLine, LocksFirst, Running
    <3> QED BY <1>1, <1>5, <1>6, <2>2, <3>1, InsideStays
  <2> QED BY <1>5, <2>1, <2>2
<1>8. TxsApart'
  <2>1. /\ new(c).ins = job[i].picked /\ new(c).out = c /\ new(c).by = i
    OBVIOUS
  <2>2. \A d \in job[i].picked : ledger[d] \in {"preconfirmed", "settled"} /\ d \notin Locked
    BY <1>2 DEF CanSpend
  <2>3. ASSUME NEW t \in txs
        PROVE  /\ t.by \in Calls /\ t.by # i /\ t.out # c /\ t.ins \cap job[i].picked = {}
               /\ job'[t.by].stage \in {"finalizing", "ended"}
    <3>1. t.by \in Calls /\ job[t.by].stage \in {"finalizing", "ended"}
      BY <1>1, TxParts DEF FundsInv, TxsApart
    <3>2. t.by # i /\ job'[t.by] = job[t.by]
      BY <1>2, <1>5, <3>1, AloneInLine
    <3>3. t.ins \cap job[i].picked = {}
      BY <2>2 DEF Locked
    <3> QED BY <1>4, <3>1, <3>2, <3>3
  <2>4. ASSUME NEW k \in Calls, job'[k].stage = "finalizing", NEW t \in txs', t.by = k
        PROVE  t.ins = job'[k].picked /\ job'[k].out = {t.out}
    <3>0. t \in txs \/ t = new(c)
      BY <1>3
    <3>1. CASE k = i
      <4>1. t = new(c)
        BY <2>3, <2>4, <3>0, <3>1
      <4> QED BY <1>5, <2>1, <2>4, <3>1, <4>1
    <3>2. CASE k # i
      <4>1. job'[k] = job[k] /\ t \in txs
        BY <1>5, <2>1, <2>4, <3>0, <3>2, AloneInLine
      <4> QED BY <2>4, <4>1 DEF FundsInv, TxsApart
    <3> QED BY <3>1, <3>2
  <2> HIDE DEF new
  <2>5. \A t \in txs' : t \in txs \/ t = new(c)
    BY <1>3
  <2>6. ledger' = ledger
    BY <1>2
  <2>7. \A t \in txs' : ledger[t.out] = "none"
    BY <1>4, <2>1, <2>5 DEF FundsInv, TxsApart
  <2>8. \A t \in txs' : \A d \in t.ins : ledger[d] \in {"preconfirmed", "settled"}
    BY <2>1, <2>2, <2>5 DEF FundsInv, TxsApart
  <2>9. \A t, u \in txs' : t # u => t.out # u.out /\ t.by # u.by /\ t.ins \cap u.ins = {}
    <3>1. \A t, u \in txs : t # u => t.out # u.out /\ t.by # u.by /\ t.ins \cap u.ins = {}
      BY DEF FundsInv, TxsApart
    <3> QED BY <2>1, <2>3, <2>5, <3>1
  <2>10. \A t \in txs' : job'[t.by].stage \in {"finalizing", "ended"}
    BY <1>5, <2>1, <2>3, <2>5
  <2> QED BY <2>4, <2>6, <2>7, <2>8, <2>9, <2>10 DEF TxsApart
<1>9. BooksTruth'
  <2>1. new(c) \in txs' /\ new(c).by = i
    BY <1>3
  <2>2. BooksWhatIs(i)'
    BY <1>5, <2>1 DEF BooksWhatIs, Done
  <2> QED BY <1>5, <1>6, <2>2, OthersBook
<1>10. SyncCovers'
  BY <1>2, CacheMends DEF FundsInv
<1>9a. new(c).overtaken = job[i].beside /\ new(c).ins = job[i].picked
  OBVIOUS
<1>9b. PICK u : u = new(c)
  OBVIOUS
<1>a. u.overtaken = job[i].beside /\ u.ins = job[i].picked
  BY <1>9a, <1>9b
<1> HIDE DEF new
<1>b. \A t \in txs' : t \in txs \/ t = u
  BY <1>3, <1>9b
<1>c. \A t \in txs : Lasts(t)' = Lasts(t)
  BY <1>2 DEF Lasts
<1>11. FlagHolds'
  <2>1. Lasts(u)' => flag
    BY <1>2, <1>a DEF Lasts
  <2>2. \A t \in txs' : flag' \/ ~Lasts(t)'
    BY <1>2, <1>b, <1>c, <2>1 DEF FundsInv, FlagHolds
  <2>3. \A k \in Calls : job'[k].stage \in {"submitting", "finalizing"} =>
                           flag' \/ job'[k].beside
    <3> SUFFICES ASSUME NEW k \in Calls, job'[k].stage \in {"submitting", "finalizing"}
                 PROVE  flag' \/ job'[k].beside
      OBVIOUS
    <3>1. k # i => job'[k] = job[k]
      BY <1>5, AloneInLine
    <3> QED BY <1>2, <1>5, <3>1 DEF FundsInv, FlagHolds
  <2> QED BY <2>2, <2>3 DEF FlagHolds
<1>12. RecoveryFinds'
  <2>1. job'[Boot] = job[Boot]
    BY <1>1, <1>5 DEF Alone
  <2>2. Running(Boot) => job[i].beside
    BY <1>2 DEF Base, CallsKnow, LocksFirst, Running
  <2>3. Running(Boot) => ~Lasts(u)'
    BY <1>a, <2>2 DEF Lasts
  <2> QED BY <1>b, <1>c, <2>1, <2>3, FindsStay DEF FundsInv
<1>14. CacheBehind'
  <2>1. LedgerMoves /\ AnswerKept
    BY <1>2 DEF LedgerMoves, AnswerKept
  <2>2. /\ \A k \in Calls : job[k].stage \in {"building", "submitting"} =>
             \A d \in job[k].picked : d \in Coins /\ Known(d)
        /\ \A t \in txs : \A d \in t.ins : d \in Coins /\ Known(d)
    BY KnownParts DEF Base, FundsInv
  <2>3. \A t \in txs' : \A d \in t.ins : d \in Coins /\ Known(d)
    BY <1>2, <1>a, <1>b, <2>2
  <2>4. \A k \in Calls : k = i \/ job'[k] = job[k]
    BY <1>5, AloneInLine
  <2>5. \A k \in Calls : job'[k].read \in {job[k].read, {}}
    BY <1>5, <2>4
  <2>6. \A k \in Calls : job'[k].stage \in {"building", "submitting"} =>
          \A d \in job'[k].picked : d \in Coins /\ Known(d)
    BY <1>5, <2>2, <2>4
  <2> QED BY <1>2, <2>1, <2>3, <2>5, <2>6, BehindStays DEF Base, FundsInv
<1>13. OwnIsEnough'
  BY <1>5, <1>6, OthersOut DEF OwnStages
<1> QED BY <1>7, <1>8, <1>9, <1>10, <1>11, <1>12, <1>13, <1>14 DEF FundsInv

\* The call that finalizes a transaction is the one that submitted it.
LEMMA FinalizeStep ==
  ASSUME Base, FundsInv, NEW i \in Calls, FinalizeTx(i)
  PROVE  FundsInv'
<1>1. i # Boot /\ Boot \in Jobs /\ i \in Jobs /\ Types
  BY WorksJobs DEF Base
<1>2. /\ job[i].stage = "finalizing" /\ job[i].kind = "send"
      /\ UNCHANGED <<cache, flag, cursor>>
  BY DEF FinalizeTx, stored, FundsInv, LineInv, StagesFit, StageFits
<1>3. PICK m \in txs : m.by = i /\ m.ins = job[i].picked /\ job[i].out = {m.out} /\ Finalized(m)
  <2>1. PICK m \in txs : m.by = i /\ Finalized(m)
    BY DEF FinalizeTx
  <2> QED BY <1>2, <2>1 DEF FundsInv, TxsApart
<1>4. /\ m.ins \subseteq Coins /\ m.out \in Coins
      /\ txs' = txs \ {m} /\ Changed(m.ins \cup {m.out})
      /\ \A c \in Coins : ledger'[c] = IF c \in m.ins THEN "spent"
                                       ELSE IF c = m.out THEN "preconfirmed" ELSE ledger[c]
  BY <1>1, <1>3, FinalizedEffect
<1>5. /\ Alone(i) /\ job'[i].kind = job[i].kind
      /\ \/ /\ job'[i].stage = "unflagging" /\ job'[i].out = job[i].out /\ queue' = queue
            /\ job'[i].picked = job[i].picked /\ job'[i].read = job[i].read
         \/ Ends(i) /\ job'[i].stage = "ended" /\ job'[i].read = {}
  <2>1. (To(i, "unflagging") /\ queue' = queue) \/ Ends(i)
    BY DEF FinalizeTx
  <2> QED BY <1>1, <2>1, ToEffect, EndsEffect DEF Stage, KindsKept
<1>6. Inside(i)
  BY <1>2, LockStages DEF FundsInv
<1>7. LineInv'
  <2>1. CASE Ends(i)
    BY <1>1, <1>2, <2>1, EndsLine DEF FundsInv, LineInv
  <2>2. CASE job'[i].stage = "unflagging" /\ queue' = queue
    <3>1. StageFits(i)' /\ InLine(i)'
      BY <1>2, <1>5, <2>2 DEF StageFits, InLine, LocksFirst, Running
    <3> QED BY <1>1, <1>5, <1>6, <2>2, <3>1, InsideStays
  <2> QED BY <1>5, <2>1, <2>2
<1>8. ledger[m.out] = "none" /\ \A c \in m.ins : ledger[c] \in {"preconfirmed", "settled"}
  BY DEF FundsInv, TxsApart
<1>9. ASSUME NEW t \in txs'
      PROVE  /\ t \in txs /\ t.by \in Calls /\ t.by # i
             /\ ledger'[t.out] = ledger[t.out]
             /\ \A c \in t.ins : ledger'[c] = ledger[c]
             /\ job'[t.by].stage \in {"finalizing", "ended"}
  <2>1. t \in txs /\ t # m /\ t.by \in Calls /\ t.ins \subseteq Coins /\ t.out \in Coins
    BY <1>1, <1>4, TxParts
  <2>2. /\ t.by # i /\ t.out # m.out /\ t.ins \cap m.ins = {}
        /\ ledger[t.out] = "none" /\ \A c \in t.ins : ledger[c] \in {"preconfirmed", "settled"}
        /\ job[t.by].stage \in {"finalizing", "ended"}
    BY <1>3, <2>1 DEF FundsInv, TxsApart
  <2>3. job'[t.by] = job[t.by]
    BY <1>5, <2>1, <2>2, AloneInLine
  <2> QED BY <1>4, <1>8, <2>1, <2>2, <2>3
<1>10. \A k \in Calls : job'[k].stage \in {"submitting", "finalizing"} =>
                          job'[k] = job[k] /\ k # i
  BY <1>5, AloneInLine
<1>11. TxsApart'
  <2>2. txs' \subseteq txs
    BY <1>4
  <2> QED BY <1>9, <1>10, <2>2, TxsAround DEF FundsInv
<1>12. BooksTruth'
  <2>0. \A t \in txs' : t.ins \cap {m.out} = {}
    BY <1>4, <1>8 DEF FundsInv, TxsApart
  <2>1. BooksWhatIs(i)'
    BY <1>3, <1>4, <1>5, <1>8, <2>0 DEF BooksWhatIs, Done
  <2> QED BY <1>5, <1>6, <2>1, OthersBook
<1>13. SyncCovers'
  <2>1. m.ins \cup {m.out} \in SUBSET Coins
    BY <1>4
  <2> QED BY <1>1, <1>2, <1>4, <2>1, ChangedCovers DEF FundsInv
<1>14. FlagHolds'
  <2>1. txs' \subseteq txs
    BY <1>4
  <2> QED BY <1>2, <1>9, <1>10, <2>1, FlagAround DEF FundsInv
<1>15. RecoveryFinds'
  <2>1. job'[Boot] = job[Boot] /\ txs' \subseteq txs
    BY <1>1, <1>4, <1>5 DEF Alone
  <2> QED BY <1>9, <2>1, LastsAround, FindsStay DEF FundsInv
<1>16. OwnIsEnough'
  BY <1>5, <1>6, OthersOut DEF OwnStages
<1>17. CacheBehind'
  <2>1. LedgerMoves
    BY <1>4, <1>8 DEF LedgerMoves
  <2>2. AnswerKept
    <3>1. m.ins \cup {m.out} \in SUBSET Coins
      BY <1>4
    <3> QED BY <1>1, <1>4, <3>1, ChangedEffect DEF AnswerKept
  <2>3. txs' \subseteq txs
    BY <1>4
  <2> QED BY <1>1, <1>2, <1>5, <2>1, <2>2, <2>3, BehindAlone DEF FundsInv
<1> QED BY <1>7, <1>11, <1>12, <1>13, <1>14, <1>15, <1>16, <1>17 DEF FundsInv

\* A recovery has finalized it before.
LEMMA FinalizeAgainStep ==
  ASSUME Base, FundsInv, NEW i \in Calls, FinalizeAgain(i)
  PROVE  FundsInv'
<1>1. i # Boot /\ Boot \in Jobs /\ i \in Jobs /\ Types
  BY WorksJobs DEF Base
<1>2. /\ job[i].stage = "finalizing" /\ job[i].kind = "send" /\ \A t \in txs : t.by # i
      /\ UNCHANGED <<ledger, txs, cache, flag, cursor, fresh, sync>>
      /\ (To(i, "unflagging") /\ queue' = queue) \/ Ends(i)
  BY DEF FinalizeAgain, server, stored, FundsInv, LineInv, StagesFit, StageFits
<1>3. CASE Ends(i)
  BY <1>2, <1>3, CallEnds
<1>4. CASE To(i, "unflagging") /\ queue' = queue
  <2>1. /\ Alone(i) /\ job'[i].stage = "unflagging" /\ job'[i].kind = job[i].kind
        /\ job'[i].out = job[i].out /\ job'[i].picked = job[i].picked
        /\ job'[i].read = job[i].read
    BY <1>1, <1>4, ToEffect DEF Stage, KindsKept
  <2>2. Inside(i)
    BY <1>2, LockStages DEF FundsInv
  <2>3. LineInv'
    <3>1. StageFits(i)' /\ InLine(i)'
      BY <1>2, <2>1 DEF StageFits, InLine, LocksFirst, Running
    <3> QED BY <1>1, <1>4, <2>1, <2>2, <3>1, InsideStays
  <2>4. \A k \in Calls : job'[k].stage \in {"submitting", "finalizing"} => job'[k] = job[k]
    BY <2>1, AloneInLine
  <2>5. TxsApart'
    <3>1. ASSUME NEW t \in txs
          PROVE  job'[t.by].stage \in {"finalizing", "ended"}
      <4>1. t.by \in Calls /\ t.by # i /\ job[t.by].stage \in {"finalizing", "ended"}
        BY <1>1, <1>2, TxParts DEF FundsInv, TxsApart
      <4> QED BY <2>1, <4>1, AloneInLine
    <3> QED BY <1>2, <2>4, <3>1, TxsAround DEF FundsInv
  <2>6. BooksTruth'
    <3>1. BooksWhatIs(i)'
      BY <1>2, <2>1 DEF FundsInv, BooksTruth, BooksWhatIs, Done
    <3> QED BY <2>1, <2>2, <3>1, OthersBook
  <2>7. SyncCovers'
    BY <1>2, CacheMends DEF FundsInv
  <2>8. FlagHolds'
    BY <1>2, <2>4, FlagStays DEF FundsInv
  <2>9. RecoveryFinds'
    BY <1>1, <1>2, <2>1, FindsStay DEF FundsInv, Lasts, Alone
  <2>10. OwnIsEnough'
    BY <2>1, <2>2, OthersOut DEF OwnStages
  <2>11. CacheBehind'
    BY <1>1, <1>2, <2>1, BehindAlone DEF FundsInv, LedgerMoves, AnswerKept
  <2> QED BY <2>3, <2>5, <2>6, <2>7, <2>8, <2>9, <2>10, <2>11 DEF FundsInv
<1> QED BY <1>2, <1>3, <1>4

\* The flag is stored before the transaction is sent.
LEMMA SetFlagStep ==
  ASSUME Base, FundsInv, NEW i \in Calls, SetPendingTxFlag(i)
  PROVE  FundsInv'
<1>1. i # Boot /\ Boot \in Jobs /\ i \in Jobs /\ Types
  BY WorksJobs DEF Base
<1>2. /\ job[i].stage = "building" /\ job[i].kind = "send" /\ flag' = TRUE /\ queue' = queue
      /\ To(i, "submitting") /\ UNCHANGED <<ledger, txs, cache, cursor, fresh, sync>>
  BY DEF SetPendingTxFlag, server, FundsInv, LineInv, StagesFit, StageFits
<1>3. /\ Alone(i) /\ job'[i].stage = "submitting" /\ job'[i].kind = job[i].kind
      /\ job'[i].out = job[i].out /\ job'[i].own = job[i].own /\ job'[i].picked = job[i].picked
      /\ job'[i].read = job[i].read /\ job'[i].beside = job[i].beside
  BY <1>1, <1>2, ToEffect DEF Stage, KindsKept
<1>4. StageFits(i)'
  BY <1>2, <1>3 DEF FundsInv, LineInv, StagesFit, StageFits, LocksFirst
<1>5. InLine(i) /\ InLine(i)' /\ Inside(i)
  BY <1>2, <1>3 DEF InLine, Inside, LocksFirst, Running
<1>6. QueueIsExact'
  BY <1>1, <1>2, <1>3, <1>5, CallGoesOn
<1>7. Own(i)' => OwnHolds(i)'
  <2> SUFFICES ASSUME Own(i)', NEW c \in job[i].picked PROVE ledger[c] # "spent"
    BY <1>2, <1>3 DEF OwnHolds
  <2>1. OwnHolds(i)
    BY <1>3 DEF Own, LocksFirst, FundsInv, OwnIsEnough
  <2> QED BY <1>2, <2>1 DEF OwnHolds
<1>8. \A c \in job'[i].picked : c \in Coins /\ Known(c)
  BY <1>1, <1>2, <1>3, KnownParts DEF FundsInv
<1> QED BY <1>1, <1>2, <1>3, <1>4, <1>6, <1>7, <1>8, CallStep

\* No other call is between its submission and this: what is still pending was
\* interrupted before.
LEMMA ClearFlagStep ==
  ASSUME Base, FundsInv, NEW i \in Calls, ClearPendingTxFlag(i)
  PROVE  FundsInv'
<1>1. i # Boot /\ Boot \in Jobs /\ i \in Jobs /\ Types
  BY WorksJobs DEF Base
<1>2. /\ job[i].stage = "unflagging" /\ job[i].kind = "send"
      /\ txs' = {[t EXCEPT !.overtaken = TRUE] : t \in txs}
      /\ To(i, "booking") /\ queue' = queue
      /\ UNCHANGED <<ledger, cache, cursor, fresh, sync>>
  BY DEF ClearPendingTxFlag, FundsInv, LineInv, StagesFit, StageFits
<1>3. /\ Alone(i) /\ job'[i].stage = "booking" /\ job'[i].kind = job[i].kind
      /\ job'[i].out = job[i].out /\ job'[i].own = job[i].own /\ job'[i].picked = job[i].picked
      /\ job'[i].read = job[i].read
  BY <1>1, <1>2, ToEffect DEF Stage, KindsKept
<1>4. Inside(i)
  BY <1>2, LockStages DEF FundsInv
<1>5. LineInv'
  <2>1. StageFits(i)' /\ InLine(i)'
    BY <1>2, <1>3 DEF StageFits, InLine, LocksFirst, Running
  <2> QED BY <1>1, <1>2, <1>3, <1>4, <2>1, InsideStays
<1>6. ASSUME NEW t \in txs'
      PROVE  \E u \in txs : /\ t = [u EXCEPT !.overtaken = TRUE]
                            /\ t.ins = u.ins /\ t.out = u.out /\ t.by = u.by /\ t.overtaken
                            /\ u.by \in Calls
  <2>1. PICK u \in txs : t = [u EXCEPT !.overtaken = TRUE]
    BY <1>2
  <2>2. u \in Tx /\ u.by \in Calls
    BY <1>1, TxParts
  <2> QED BY <2>1, <2>2 DEF Tx
<1>7. \A k \in Calls : job[k].stage \in {"submitting", "finalizing"} => k = i
  BY <1>4, LockStages, Exclusive DEF FundsInv
<1>8. \A k \in Calls : job'[k].stage \notin {"submitting", "finalizing"}
  BY <1>2, <1>3, <1>7, AloneInLine
<1>9. TxsApart'
  <2>1. ASSUME NEW t \in txs'
        PROVE  /\ ledger[t.out] = "none"
               /\ \A c \in t.ins : ledger[c] \in {"preconfirmed", "settled"}
               /\ job'[t.by].stage \in {"finalizing", "ended"}
    <3>1. PICK u \in txs : t.ins = u.ins /\ t.out = u.out /\ t.by = u.by /\ u.by \in Calls
      BY <1>6
    <3>2. job[u.by].stage \in {"finalizing", "ended"}
      BY DEF FundsInv, TxsApart
    <3>3. job'[u.by] = job[u.by]
      BY <1>2, <1>3, <3>1, <3>2, AloneInLine
    <3> QED BY <3>1, <3>2, <3>3 DEF FundsInv, TxsApart
  <2>2. ASSUME NEW t \in txs', NEW v \in txs', t # v
        PROVE  t.out # v.out /\ t.by # v.by /\ t.ins \cap v.ins = {}
    <3>1. PICK u \in txs : t = [u EXCEPT !.overtaken = TRUE] /\ t.ins = u.ins /\ t.out = u.out
                           /\ t.by = u.by
      BY <1>6
    <3>2. PICK w \in txs : v = [w EXCEPT !.overtaken = TRUE] /\ v.ins = w.ins /\ v.out = w.out
                           /\ v.by = w.by
      BY <1>6
    <3>3. u # w
      BY <2>2, <3>1, <3>2
    <3> QED BY <3>1, <3>2, <3>3 DEF FundsInv, TxsApart
  <2>3. ledger' = ledger
    BY <1>2
  <2> QED BY <1>8, <2>1, <2>2, <2>3 DEF TxsApart
<1>10. BooksTruth'
  <2>0. \A t \in txs' : t.ins \cap job[i].out = {}
    BY <1>2, <1>6 DEF FundsInv, BooksTruth, BooksWhatIs, Done
  <2>1. BooksWhatIs(i)'
    BY <1>2, <1>3, <2>0 DEF FundsInv, BooksTruth, BooksWhatIs, Done
  <2> QED BY <1>3, <1>4, <2>1, OthersBook
<1>11. SyncCovers'
  BY <1>2, CacheMends DEF FundsInv
<1>a. \A t \in txs' : ~Lasts(t)'
  BY <1>6 DEF Lasts
<1>12. FlagHolds'
  BY <1>8, <1>a DEF FlagHolds
<1>13. RecoveryFinds'
  BY <1>1, <1>3, <1>a, FindsStay DEF FundsInv, Alone
<1>14. OwnIsEnough'
  BY <1>3, <1>4, OthersOut DEF OwnStages
<1>15. CacheBehind'
  <2>1. LedgerMoves /\ AnswerKept
    BY <1>2 DEF LedgerMoves, AnswerKept
  <2>2. /\ \A k \in Calls : job[k].stage \in {"building", "submitting"} =>
             \A c \in job[k].picked : c \in Coins /\ Known(c)
        /\ \A t \in txs : \A c \in t.ins : c \in Coins /\ Known(c)
    BY <1>1, KnownParts DEF FundsInv
  <2>3. \A k \in Calls : k = i \/ job'[k] = job[k]
    BY <1>3, AloneInLine
  <2>4. \A k \in Calls : job'[k].read \in {job[k].read, {}}
    BY <1>3, <2>3
  <2>5. \A k \in Calls : job'[k].stage \in {"building", "submitting"} =>
          \A c \in job'[k].picked : c \in Coins /\ Known(c)
    BY <1>3, <2>2, <2>3
  <2>6. \A t \in txs' : \A c \in t.ins : c \in Coins /\ Known(c)
    BY <1>6, <2>2
  <2> QED BY <1>1, <1>2, <2>1, <2>4, <2>5, <2>6, BehindStays DEF FundsInv
<1> QED BY <1>5, <1>9, <1>10, <1>11, <1>12, <1>13, <1>14, <1>15 DEF FundsInv

\* A batch spends what is free at the server, or the call ends.
LEMMA JoinBatchStep ==
  ASSUME Base, FundsInv, NEW i \in Calls, JoinBatch(i)
  PROVE  FundsInv'
<1>1. i # Boot /\ Boot \in Jobs /\ i \in Jobs /\ Types
  BY WorksJobs DEF Base
<1>2. /\ job[i].stage = "joining" /\ job[i].kind \in {"settle", "renew"} /\ job[i].out = {}
      /\ UNCHANGED <<txs, cache, flag, cursor>>
  BY DEF JoinBatch, stored, FundsInv, LineInv, StagesFit, StageFits
<1>3. CASE Ends(i) /\ UNCHANGED <<ledger, fresh, sync>>
  BY <1>1, <1>2, <1>3, CallEnds
<1>4. CASE /\ \A c \in job[i].picked : ledger[c] \in Unspent /\ c \notin Locked
           /\ \E c \in Outputs : /\ Spent(job[i].picked, c, "settled")
                                 /\ Changed(job[i].picked \cup {c})
           /\ To(i, "booking") /\ queue' = queue
  <2>1. PICK c \in Outputs : /\ Spent(job[i].picked, c, "settled")
                             /\ Changed(job[i].picked \cup {c})
    BY <1>4
  <2>2. /\ c \in Coins /\ ledger[c] = "none" /\ \A t \in txs : t.out # c
        /\ job[i].picked \subseteq Coins
    BY <1>1, <2>1, JobParts DEF Outputs
  <2>3. \A d \in Coins : ledger'[d] = IF d \in job[i].picked THEN "spent"
                                      ELSE IF d = c THEN "settled" ELSE ledger[d]
    BY <2>1 DEF Spent
  <2>4. /\ Alone(i) /\ job'[i].stage = "booking" /\ job'[i].kind = job[i].kind
        /\ job'[i].out = job[i].out /\ job'[i].picked = job[i].picked
        /\ job'[i].read = job[i].read
    BY <1>1, <1>4, ToEffect DEF Stage, KindsKept
  <2>5. Inside(i)
    BY <1>2, LockStages DEF FundsInv
  <2>6. LineInv'
    <3>1. StageFits(i)' /\ InLine(i)'
      BY <1>2, <2>4 DEF StageFits, InLine, LocksFirst, Running
    <3> QED BY <1>1, <1>4, <2>4, <2>5, <3>1, InsideStays
  <2>7. ASSUME NEW t \in txs
        PROVE  /\ t.by \in Calls /\ ledger'[t.out] = ledger[t.out]
               /\ \A d \in t.ins : ledger'[d] = ledger[d]
               /\ job'[t.by].stage \in {"finalizing", "ended"}
    <3>1. t.ins \subseteq Coins /\ t.out \in Coins /\ t.by \in Calls
      BY <1>1, TxParts
    <3>2. /\ ledger[t.out] = "none" /\ \A d \in t.ins : ledger[d] \in {"preconfirmed", "settled"}
          /\ job[t.by].stage \in {"finalizing", "ended"}
      BY DEF FundsInv, TxsApart
    <3>3. t.out \notin job[i].picked
      BY <1>4, <3>2 DEF Unspent
    <3>4. t.ins \cap job[i].picked = {}
      BY <1>4 DEF Locked
    <3>5. job'[t.by] = job[t.by]
      BY <1>2, <2>4, <3>1, <3>2, AloneInLine
    <3> QED BY <2>2, <2>3, <3>1, <3>2, <3>3, <3>4, <3>5
  <2>8. \A k \in Calls : job'[k].stage \in {"submitting", "finalizing"} => job'[k] = job[k]
    BY <2>4, AloneInLine
  <2>9. txs' = txs
    BY <1>2
  <2>10. TxsApart'
    BY <2>7, <2>8, <2>9, TxsAround DEF FundsInv
  <2>11. BooksTruth'
    <3>1. BooksWhatIs(i)'
      BY <1>2, <2>2, <2>3, <2>4 DEF BooksWhatIs, Done
    <3> QED BY <2>4, <2>5, <3>1, OthersBook
  <2>12. SyncCovers'
    <3>1. job[i].picked \cup {c} \in SUBSET Coins
      BY <2>2
    <3> QED BY <1>1, <1>2, <2>1, <2>3, <3>1, ChangedCovers DEF FundsInv
  <2>13. FlagHolds'
    BY <1>2, <2>7, <2>8, <2>9, FlagAround DEF FundsInv
  <2>14. RecoveryFinds'
    BY <1>1, <2>4, <2>7, <2>9, LastsAround, FindsStay DEF FundsInv, Alone
  <2>15. OwnIsEnough'
    BY <2>4, <2>5, OthersOut DEF OwnStages
  <2>16. CacheBehind'
    <3>1. LedgerMoves
      BY <2>2, <2>3 DEF LedgerMoves
    <3>2. AnswerKept
      <4>1. job[i].picked \cup {c} \in SUBSET Coins
        BY <2>2
      <4> QED BY <1>1, <2>1, <4>1, ChangedEffect DEF AnswerKept
    <3> QED BY <1>1, <1>2, <2>4, <3>1, <3>2, BehindAlone DEF FundsInv
  <2> QED BY <2>6, <2>10, <2>11, <2>12, <2>13, <2>14, <2>15, <2>16 DEF FundsInv
<1> QED BY <1>3, <1>4 DEF JoinBatch

\* What a call books is what is at the server.
LEMMA BooksStep ==
  ASSUME Base, FundsInv, NEW i \in Calls, UpdateDbAfterOffchainTx(i) \/ UpdateDbAfterSettle(i)
  PROVE  FundsInv'
<1>1. i # Boot /\ Boot \in Jobs /\ i \in Jobs /\ Types
  BY WorksJobs DEF Base
<1>2. PICK change \in {{}, job[i].out} : Books(i, job[i].picked, change)
  BY DEF UpdateDbAfterOffchainTx, UpdateDbAfterSettle
<1>3. /\ job[i].stage = "booking" /\ Ends(i)
      /\ UNCHANGED <<ledger, txs, flag, cursor, fresh, sync>>
  BY <1>2 DEF Books, server
<1>4. Alone(i) /\ job'[i].stage = "ended" /\ job'[i].read = {}
  BY <1>1, <1>3, EndsEffect
<1>5. Inside(i)
  BY <1>3, LockStages DEF FundsInv
<1>6. LineInv'
  BY <1>1, <1>3, EndsLine DEF FundsInv, LineInv
<1>7. \A k \in Calls : k = i \/ job'[k] = job[k]
  BY <1>4, AloneInLine
<1>8. TxsApart' /\ BooksTruth'
  <2>1. TxsApart'
    BY <1>3, <1>4, <1>7, TxsStay DEF FundsInv
  <2>2. BooksTruth'
    BY <1>3, <1>4, <1>7, BooksStay DEF FundsInv
  <2> QED BY <2>1, <2>2
<1>a. ASSUME NEW c \in Coins
      PROVE  cache'[c] # cache[c] => cache'[c] = ledger[c] /\ cache'[c] # "none"
  <2>1. c \in job[i].picked => ledger[c] = "spent"
    BY <1>3 DEF FundsInv, BooksTruth, BooksWhatIs, Done
  <2>2. c \in change => ledger[c] = "preconfirmed"
    BY <1>2, <1>3 DEF FundsInv, BooksTruth, BooksWhatIs, Done
  <2> QED BY <1>2, <2>1, <2>2 DEF Books
<1>9. SyncCovers'
  <2>1. \A c \in Coins : cache'[c] \in {cache[c], ledger[c]}
    BY <1>a
  <2> QED BY <1>3, <2>1, CacheMends DEF FundsInv
<1>10. FlagHolds'
  <2>1. \A k \in Calls : job'[k].stage \in {"submitting", "finalizing"} =>
                           flag' \/ job'[k] = job[k]
    BY <1>4, <1>7
  <2> QED BY <1>3, <2>1, FlagStays DEF FundsInv
<1>11. RecoveryFinds'
  BY <1>1, <1>3, <1>4, FindsStay DEF FundsInv, Lasts, Alone
<1>12. OwnIsEnough'
  BY <1>4, <1>5, OthersOut DEF OwnStages
<1>13. CacheBehind'
  BY <1>1, <1>3, <1>4, <1>a, BehindAlone DEF FundsInv, LedgerMoves, AnswerKept
<1> QED BY <1>6, <1>8, <1>9, <1>10, <1>11, <1>12, <1>13 DEF FundsInv

\* Every step of a call.
LEMMA WorksStep ==
  ASSUME Base, FundsInv, AllLocked, NEW i \in Calls, Works(i) \/ FinalizeFails(i)
  PROVE  FundsInv'
<1>2. CASE ClearSyncCursors(i)
  BY <1>2, CallEnds DEF ClearSyncCursors, server
<1>3. CASE PickNothing(i) \/ SubmitRefused(i) \/ FinalizeFails(i)
  BY <1>3, CallEnds DEF PickNothing, SubmitRefused, FinalizeFails, server, stored
<1> QED BY <1>2, <1>3, BeginStep, AcquireStep, SetFlagStep, PicksStep, SubmitStep, FinalizeStep,
           FinalizeAgainStep, ClearFlagStep, JoinBatchStep, BooksStep DEF Works

-----------------------------------------------------------------------------
(* Steps at the server, and of the synchronisation. *)

\* A step of the synchronisation: what it learns was so.
LEMMA BehindSync ==
  ASSUME Types, CacheBehind, UNCHANGED <<ledger, txs>>,
         \A c \in Coins : cache'[c] # cache[c] => cache'[c] # "none" /\ Behind(cache'[c], c),
         sync' # NoSync => \A c \in DOMAIN sync'.answer :
           /\ Behind(sync'.answer[c], c)
           /\ sync'.phase \in {"advancing", "reconciling"} /\ sync'.answer[c] # "none"
                => cache'[c] # "none",
         \A k \in Calls : \/ job'[k].read = job[k].read
                          \/ \A x \in job'[k].read : x[2] # "none" => cache'[x[1]] # "none",
         \A k \in Calls : job'[k].stage \in {"building", "submitting"} => job'[k] = job[k]
  PROVE  CacheBehind'
<1>1. \A c \in Coins : cache[c] # "none" => cache'[c] # "none"
  OBVIOUS
<1>2. ledger' = ledger /\ txs' = txs
  OBVIOUS
<1>3. \A c \in Coins : Behind(cache[c], c)'
  BY <1>2 DEF CacheBehind, Behind
<1>4. sync' # NoSync => \A c \in DOMAIN sync'.answer :
        /\ Behind(sync.answer[c], c)'
        /\ sync'.phase \in {"advancing", "reconciling"} /\ sync'.answer[c] # "none" => Known(c)'
  BY <1>2 DEF Behind, Known
<1>5. \A k \in Calls : \A x \in job'[k].read : x[2] # "none" => Known(x[1])'
  <2> SUFFICES ASSUME NEW k \in Calls, NEW x \in job'[k].read, x[2] # "none"
               PROVE  cache'[x[1]] # "none"
    BY DEF Known
  <2>1. CASE job'[k].read = job[k].read
    <3>1. x \in job[k].read /\ cache[x[1]] # "none"
      BY <2>1 DEF CacheBehind, Known
    <3>2. x[1] \in Coins
      BY <3>1, JobParts, CallIsJob DEF Reads
    <3> QED BY <1>1, <3>1, <3>2
  <2>2. CASE job'[k].read # job[k].read
    BY <2>2
  <2> QED BY <2>1, <2>2
<1>6. /\ \A k \in Calls : job[k].stage \in {"building", "submitting"} =>
           \A c \in job[k].picked : c \in Coins /\ Known(c)
      /\ \A t \in txs : \A c \in t.ins : c \in Coins /\ Known(c)
  BY KnownParts
<1>7. \A k \in Calls : job'[k].stage \in {"building", "submitting"} =>
        \A c \in job'[k].picked : Known(c)'
  BY <1>1, <1>6 DEF Known
<1>8. \A t \in txs' : \A c \in t.ins : Known(c)'
  BY <1>1, <1>2, <1>6 DEF Known
<1> QED BY <1>3, <1>4, <1>5, <1>7, <1>8 DEF CacheBehind

\* Nothing that the calls hold changes, and the cache and the answer do not.
LEMMA BehindCalls ==
  ASSUME Types, SyncCovers, CacheBehind, LedgerMoves, AnswerKept, cache' = cache,
         \A k \in Calls : job'[k].read \in {job[k].read, {}},
         \A k \in Calls : job'[k].stage \in {"building", "submitting"} =>
           job'[k].stage = job[k].stage /\ job'[k].picked = job[k].picked,
         \A u \in txs' : \E t \in txs : u.ins = t.ins
  PROVE  CacheBehind'
<1>1. /\ \A k \in Calls : job[k].stage \in {"building", "submitting"} =>
           \A c \in job[k].picked : c \in Coins /\ Known(c)
      /\ \A t \in txs : \A c \in t.ins : c \in Coins /\ Known(c)
  BY KnownParts
<1>2. \A k \in Calls : job'[k].stage \in {"building", "submitting"} =>
        \A c \in job'[k].picked : c \in Coins /\ Known(c)
  BY <1>1
<1>3. \A u \in txs' : \A c \in u.ins : c \in Coins /\ Known(c)
  BY <1>1
<1> QED BY <1>2, <1>3, BehindStays

\* A VTXO that arrives, or is swept, is in no transaction and in no booking.
LEMMA ServerStep ==
  ASSUME Base, FundsInv, NEW c \in Coins, Receive(c) \/ Sweep(c)
  PROVE  FundsInv'
<1>1. /\ ledger[c] \in {"none", "settled"} /\ Changed({c})
      /\ ledger' \in [Coins -> State] /\ ledger'[c] \in {"preconfirmed", "swept"}
      /\ \A d \in Coins \ {c} : ledger'[d] = ledger[d]
      /\ UNCHANGED <<txs, cache, flag, cursor, job, queue>>
      /\ Types
  BY DEF Receive, Sweep, stored, Base, Types, State
<1>2. ASSUME NEW t \in txs
      PROVE  /\ t.by \in Calls /\ t.out \in Coins /\ t.ins \subseteq Coins
             /\ t.out # c /\ c \notin t.ins
             /\ ledger[t.out] = "none"
             /\ job[t.by].stage \in {"finalizing", "ended"}
  <2>1. /\ ledger[t.out] = "none" /\ \A d \in t.ins : ledger[d] \in {"preconfirmed", "settled"}
        /\ job[t.by].stage \in {"finalizing", "ended"}
    BY DEF FundsInv, TxsApart
  <2>2. CASE Receive(c)
    BY <1>1, <2>1, <2>2, TxParts DEF Receive
  <2>3. CASE Sweep(c)
    BY <1>1, <2>1, <2>3, TxParts DEF Sweep, Locked
  <2> QED BY <2>2, <2>3
<1>3. ASSUME NEW t \in txs
      PROVE  /\ ledger'[t.out] = ledger[t.out] /\ \A d \in t.ins : ledger'[d] = ledger[d]
             /\ Lasts(t)' => Lasts(t)
  BY <1>1, <1>2 DEF Lasts
<1>4. LineInv'
  BY <1>1, CallsLine DEF FundsInv
<1>5. TxsApart'
  BY <1>1, <1>2, <1>3, TxsAround DEF FundsInv, TxsApart
<1>6. BooksTruth'
  <2> SUFFICES ASSUME NEW k \in Calls PROVE BooksWhatIs(k)'
    BY DEF BooksTruth
  <2>1. job'[k] = job[k] /\ job[k].picked \subseteq Coins /\ job[k].out \subseteq Coins
    BY <1>1, JobParts, CallIsJob
  <2>2. BooksWhatIs(k) /\ txs' = txs
    BY <1>1 DEF FundsInv, BooksTruth
  <2> QED BY <1>1, <2>1, <2>2 DEF BooksWhatIs, Done
<1>7. SyncCovers'
  BY <1>1, ChangedCovers DEF FundsInv
<1>8. FlagHolds'
  BY <1>1, <1>3, FlagAround DEF FundsInv
<1>9. /\ sync' = NoSync <=> sync = NoSync
      /\ sync # NoSync => sync'.since = sync.since \cup {c}
  BY <1>1, ChangedEffect
<1>10. RecoveryFinds'
  BY <1>1, <1>3, FindsStay DEF FundsInv
<1>12. CacheBehind'
  <2>1. ledger[c] = "none" \/ ledger'[c] = "swept"
    BY <1>1 DEF Receive, Sweep
  <2>3. LedgerMoves
    BY <1>1, <2>1 DEF LedgerMoves
  <2>2. AnswerKept
    BY <1>1, ChangedEffect DEF AnswerKept
  <2> QED BY <1>1, <2>2, <2>3, BehindCalls DEF FundsInv
<1>11. ASSUME NEW k \in Calls, Own(k)' PROVE OwnHolds(k)'
  <2>1. job'[k] = job[k] /\ cache' = cache /\ OwnHolds(k) /\ job[k].picked \subseteq Coins
    BY <1>1, <1>11, JobParts, CallIsJob DEF Own, LocksFirst, FundsInv, OwnIsEnough
  <2>2. \A d \in Coins : ledger'[d] = "spent" => ledger[d] = "spent" /\ d # c
    BY <1>1
  <2>3. sync' # NoSync => sync # NoSync /\ sync'.since = sync.since \cup {c}
                          /\ sync.since \subseteq Coins
    BY <1>1, <1>9 DEF Types, IsSync
  <2>4. job[k].stage \in {"syncing", "picking"} /\ sync' # NoSync =>
          \A d \in sync'.since : ledger'[d] # "spent"
    BY <1>1, <2>1, <2>2, <2>3 DEF OwnHolds
  <2>5. job[k].stage = "picking" =>
          /\ job[k].delta => \A d \in Coins : ledger'[d] = "spent" => cache[d] \notin Unspent
          /\ ~job[k].delta =>
               \A d \in Coins, s \in Unspent : <<d, s>> \in job[k].read => ledger'[d] # "spent"
    BY <2>1, <2>2 DEF OwnHolds
  <2>6. job[k].stage \in {"building", "submitting", "joining"} =>
          \A d \in job[k].picked : ledger'[d] # "spent"
    BY <2>1, <2>2 DEF OwnHolds
  <2> QED BY <2>1, <2>4, <2>5, <2>6 DEF OwnHolds
<1> QED BY <1>4, <1>5, <1>6, <1>7, <1>8, <1>10, <1>11, <1>12 DEF FundsInv, OwnIsEnough

\* A step that leaves the calls where they are.
LEMMA CallsStay ==
  ASSUME Base, FundsInv, UNCHANGED <<ledger, txs, flag, queue>>,
         \A k \in Calls : job'[k] = job[k]
  PROVE  LineInv' /\ TxsApart' /\ BooksTruth' /\ FlagHolds'
<1>1. LineInv'
  BY CallsLine DEF FundsInv
<1>2. TxsApart'
  BY TxsStay DEF FundsInv
<1>3. BooksTruth'
  BY BooksStay DEF FundsInv
<1>4. FlagHolds'
  BY FlagStays DEF FundsInv
<1> QED BY <1>1, <1>2, <1>3, <1>4

\* The answer is what the server had when the query was answered.
LEMMA FetchStep ==
  ASSUME Base, FundsInv, Fetch
  PROVE  FundsInv'
<1>1. /\ UNCHANGED <<ledger, txs, flag, queue, job, cache, cursor, fresh>>
      /\ sync.phase = "fetching"
  BY DEF Fetch, server, stored
<1>2. /\ sync # NoSync /\ sync' # NoSync
      /\ sync'.phase = "saving" /\ sync'.since = sync.since
      /\ sync'.bootstrap = sync.bootstrap
      /\ DOMAIN sync'.answer = IF sync.bootstrap THEN Coins ELSE fresh
      /\ \A c \in DOMAIN sync'.answer : sync'.answer[c] = ledger[c]
  BY FetchEffect DEF Base
<1>3. LineInv' /\ TxsApart' /\ BooksTruth' /\ FlagHolds'
  BY <1>1, CallsStay
<1>4. SyncCovers'
  <2>1. \A c \in Coins \ DOMAIN sync'.answer : Right(c)
    BY <1>1, <1>2 DEF FundsInv, SyncCovers
  <2> QED BY <1>1, <1>2, <2>1 DEF FundsInv, SyncCovers, Right
<1>5. RecoveryFinds'
  BY <1>1, FindsStay DEF FundsInv, Lasts
<1>6. OwnIsEnough'
  BY <1>1, <1>2 DEF FundsInv, OwnIsEnough, OwnHolds, Own, LocksFirst
<1>7. CacheBehind'
  <2>1. \A c \in DOMAIN sync'.answer : Behind(sync'.answer[c], c)
    BY <1>2 DEF Behind
  <2> QED BY <1>1, <1>2, <2>1, BehindSync DEF Base, FundsInv
<1> QED BY <1>3, <1>4, <1>5, <1>6, <1>7 DEF FundsInv

\* What is saved is what the server has, but for what changed meanwhile.
LEMMA SaveStep ==
  ASSUME Base, FundsInv, SaveFetched
  PROVE  FundsInv'
<1>1. /\ UNCHANGED <<ledger, txs, flag, queue, job, cursor, fresh>>
      /\ sync.phase = "saving"
  BY DEF SaveFetched, server
<1>2. /\ sync # NoSync /\ IsSync /\ sync' # NoSync
      /\ sync'.phase = "advancing" /\ sync'.since = sync.since
      /\ sync'.answer = sync.answer
      /\ \A c \in Coins : cache'[c] = IF c \in DOMAIN sync.answer /\ sync.answer[c] # "none"
                                      THEN sync.answer[c] ELSE cache[c]
  BY SaveEffect DEF Base
<1>3. LineInv' /\ TxsApart' /\ BooksTruth' /\ FlagHolds'
  BY <1>1, CallsStay
<1>4. /\ \A c \in DOMAIN sync.answer : /\ sync.answer[c] = ledger[c] \/ c \in sync.since
                                       /\ ledger[c] = "none" => sync.answer[c] = "none"
      /\ \A c \in Coins \ DOMAIN sync.answer : Right(c) \/ c \in sync.since
      /\ \A c \in Coins : ledger[c] = "none" => cache[c] = "none"
      /\ sync.since \subseteq fresh
  BY <1>1, <1>2 DEF FundsInv, SyncCovers
<1>5. SyncCovers'
  <2>1. \A c \in Coins : ledger[c] = "none" => cache'[c] = "none"
    BY <1>2, <1>4
  <2>2. \A c \in Coins : Right(c)' \/ c \in sync.since
    BY <1>1, <1>2, <1>4 DEF Right
  <2> QED BY <1>1, <1>2, <1>4, <2>1, <2>2 DEF SyncCovers
<1>6. RecoveryFinds'
  BY <1>1, FindsStay DEF FundsInv, Lasts
<1>8. CacheBehind'
  <2>1. \A c \in DOMAIN sync.answer : c \in Coins /\ Behind(sync.answer[c], c)
    BY <1>2 DEF IsSync, FundsInv, CacheBehind
  <2>2. \A c \in Coins : cache'[c] # cache[c] => cache'[c] # "none" /\ Behind(cache'[c], c)
    BY <1>2, <2>1
  <2>3. \A c \in DOMAIN sync'.answer :
          Behind(sync'.answer[c], c) /\ (sync'.answer[c] # "none" => cache'[c] # "none")
    BY <1>2, <2>1
  <2> QED BY <1>1, <2>2, <2>3, BehindSync DEF Base, FundsInv
<1>7. ASSUME NEW k \in Calls, Own(k)' PROVE OwnHolds(k)'
  <2>1. job'[k] = job[k] /\ ledger' = ledger /\ OwnHolds(k)
    BY <1>1, <1>7 DEF Own, LocksFirst, FundsInv, OwnIsEnough
  <2>2. ASSUME job[k].stage = "picking", job[k].delta, NEW c \in Coins, ledger[c] = "spent"
        PROVE  cache'[c] \notin Unspent
    <3>1. c \notin sync.since /\ cache[c] \notin Unspent
      BY <1>2, <2>1, <2>2 DEF OwnHolds
    <3> QED BY <1>2, <1>4, <2>2, <3>1 DEF Unspent
  <2> QED BY <1>2, <2>1, <2>2 DEF OwnHolds
<1> QED BY <1>3, <1>5, <1>6, <1>7, <1>8 DEF FundsInv, OwnIsEnough

\* Whoever waited goes on with the answer.
LEMMA AnsweredStep ==
  ASSUME Base, FundsInv, IsSync, sync # NoSync, NEW delta \in BOOLEAN,
         NEW read \in Reads, Answered(read, delta),
         UNCHANGED <<ledger, txs, flag, queue>>
  PROVE  LineInv' /\ TxsApart' /\ BooksTruth' /\ FlagHolds'
<1>1. /\ KindsKept /\ \A k \in Calls : k \in Jobs
      /\ \A k \in Jobs : job[k].stage # "syncing" => job'[k] = job[k]
      /\ \A k \in Jobs : job[k].stage = "syncing" =>
           job'[k].stage = "picking" /\ job'[k].out = job[k].out /\ job'[k].own = job[k].own
  BY AnsweredEffect, CallIsJob DEF Base, WaitersWait
<1>2. \A k \in Calls : job'[k] = job[k] \/
        (/\ job[k].stage = "syncing" /\ job'[k].stage = "picking"
         /\ job'[k].kind = job[k].kind /\ job'[k].out = job[k].out /\ job'[k].own = job[k].own)
  BY <1>1 DEF KindsKept
<1>3. QueueIsExact'
  <2>1. \A k \in Calls : /\ InLine(k)' <=> InLine(k)
                         /\ Inside(k)' => Inside(k)
    BY <1>2 DEF InLine, Inside, LocksFirst, Running
  <2> QED BY <2>1, LineKept DEF FundsInv, LineInv
<1>4. StagesFit'
  <2> SUFFICES ASSUME NEW k \in Calls PROVE StageFits(k)'
    BY DEF StagesFit
  <2> QED BY <1>2 DEF FundsInv, LineInv, StagesFit, StageFits, LocksFirst
<1>5. TxsApart'
  BY <1>2, TxsStay DEF FundsInv
<1>6. BooksTruth'
  BY <1>2, BooksStay DEF FundsInv
<1>7. FlagHolds'
  <2>1. \A k \in Calls : job'[k].stage \in {"submitting", "finalizing"} =>
                           flag' \/ job'[k] = job[k]
    BY <1>2
  <2> QED BY <2>1, FlagStays DEF FundsInv
<1> QED BY <1>3, <1>4, <1>5, <1>6, <1>7 DEF LineInv

\* The recovery is about to look, or goes on as it was.
LEMMA AnsweredFinds ==
  ASSUME Base, FundsInv, IsSync, sync # NoSync, NEW delta \in BOOLEAN,
         NEW read \in Reads, Answered(read, delta), UNCHANGED <<ledger, txs>>
  PROVE  RecoveryFinds'
<1>1. Boot \in Jobs
  BY DEF Jobs
<1>2. CASE job[Boot].stage = "syncing"
  <2>1. job'[Boot].stage = "picking"
    BY <1>1, <1>2, AnsweredEffect DEF Base, WaitersWait
  <2> QED BY <2>1 DEF RecoveryFinds
<1>3. CASE job[Boot].stage # "syncing"
  <2>1. job'[Boot] = job[Boot]
    BY <1>1, <1>3, AnsweredEffect DEF Base, WaitersWait
  <2> QED BY <2>1, FindsStay DEF FundsInv, Lasts
<1> QED BY <1>2, <1>3

\* The cursor moves to the start of the query: what changed since stays fresh.
LEMMA AdvanceStep ==
  ASSUME Base, FundsInv, AdvanceCursors
  PROVE  FundsInv'
<1>1. UNCHANGED <<ledger, txs, flag, queue, cache>>
  BY DEF AdvanceCursors, server
<1>2. /\ sync # NoSync /\ IsSync /\ sync.phase = "advancing" /\ fresh' = sync.since
  BY AdvanceEffect DEF Base
<1>3. /\ \A c \in DOMAIN sync.answer : sync.answer[c] = ledger[c] \/ c \in sync.since
      /\ \A c \in Coins : Right(c) \/ c \in sync.since
      /\ \A c \in Coins : ledger[c] = "none" => cache[c] = "none"
  BY <1>2 DEF FundsInv, SyncCovers
<1>4. CASE sync.bootstrap
  <2> DEFINE read == {<<c, sync.answer[c]>> : c \in DOMAIN sync.answer}
  <2>1. read \in Reads /\ Answered(read, FALSE)
    BY <1>4, AdvanceEffect DEF Base
  <2>2. \A c, s : <<c, s>> \in read => c \in DOMAIN sync.answer /\ s = sync.answer[c]
    OBVIOUS
  <2> HIDE DEF read
  <2>3. LineInv' /\ TxsApart' /\ BooksTruth' /\ FlagHolds'
    BY <1>1, <1>2, <2>1, AnsweredStep
  <2>4. /\ sync' = NoSync /\ \A k \in Calls : k \in Jobs
        /\ \A k \in Jobs : job[k].stage # "syncing" => job'[k] = job[k]
        /\ \A k \in Jobs : job[k].stage = "syncing" =>
             /\ job'[k].stage = "picking" /\ job'[k].own = job[k].own
             /\ job'[k].beside = job[k].beside /\ job'[k].read = read /\ job'[k].delta = FALSE
        /\ KindsKept
    BY <1>2, <2>1, AnsweredEffect, CallIsJob DEF Base, WaitersWait
  <2>5. SyncCovers'
    BY <1>1, <1>2, <1>3, <2>4 DEF SyncCovers, Right
  <2>6. RecoveryFinds'
    BY <1>1, <1>2, <2>1, AnsweredFinds
  <2>8. CacheBehind'
    <3>1. \A x \in read : x[2] # "none" => cache'[x[1]] # "none"
      <4> SUFFICES ASSUME NEW x \in read, x[2] # "none" PROVE cache'[x[1]] # "none"
        OBVIOUS
      <4>1. x = <<x[1], x[2]>>
        BY <2>1 DEF Reads
      <4>2. x[1] \in DOMAIN sync.answer /\ x[2] = sync.answer[x[1]]
        BY <2>2, <4>1
      <4> QED BY <1>1, <1>2, <4>2 DEF FundsInv, CacheBehind, Known
    <3>2. \A k \in Calls : \/ job'[k].read = job[k].read
                           \/ \A x \in job'[k].read : x[2] # "none" => cache'[x[1]] # "none"
      BY <2>4, <3>1
    <3>3. \A k \in Calls : job'[k].stage \in {"building", "submitting"} => job'[k] = job[k]
      BY <2>4
    <3>4. \A c \in Coins : cache'[c] = cache[c]
      BY <1>1
    <3> QED BY <1>1, <2>4, <3>2, <3>3, <3>4, BehindSync DEF Base, FundsInv
  <2>7. ASSUME NEW k \in Calls, Own(k)' PROVE OwnHolds(k)'
    <3>1. CASE job[k].stage = "syncing"
      <4>1. Own(k) /\ OwnHolds(k)
        BY <1>1, <2>4, <2>7, <3>1 DEF Own, LocksFirst, KindsKept, FundsInv, OwnIsEnough
      <4>2. \A c \in sync.since : ledger[c] # "spent"
        BY <1>2, <3>1, <4>1 DEF OwnHolds
      <4>3. \A c \in Coins, s \in Unspent : <<c, s>> \in read => ledger[c] # "spent"
        BY <1>3, <2>2, <4>2 DEF Unspent
      <4> QED BY <1>1, <2>4, <3>1, <4>3 DEF OwnHolds
    <3>2. CASE job[k].stage # "syncing"
      <4>1. job'[k] = job[k] /\ OwnHolds(k)
        BY <2>4, <2>7, <3>2 DEF Own, LocksFirst, FundsInv, OwnIsEnough
      <4> QED BY <1>1, <2>4, <4>1 DEF OwnHolds
    <3> QED BY <3>1, <3>2
  <2> QED BY <2>3, <2>5, <2>6, <2>7, <2>8 DEF FundsInv, OwnIsEnough
<1>5. CASE ~sync.bootstrap
  <2>1. /\ sync' # NoSync /\ job' = job
        /\ sync'.phase = "reconciling" /\ sync'.since = sync.since
        /\ sync'.answer = <<>> /\ DOMAIN sync'.answer = {}
    BY <1>5, AdvanceEffect DEF Base
  <2>2. LineInv' /\ TxsApart' /\ BooksTruth' /\ FlagHolds'
    BY <1>1, <2>1, CallsStay
  <2>3. SyncCovers'
    BY <1>1, <1>2, <1>3, <2>1 DEF SyncCovers, Right
  <2>4. RecoveryFinds'
    BY <1>1, <2>1, FindsStay DEF FundsInv, Lasts
  <2>5. OwnIsEnough'
    BY <1>1, <1>2, <2>1 DEF FundsInv, OwnIsEnough, OwnHolds, Own, LocksFirst
  <2>6. CacheBehind'
    BY <1>1, <2>1, BehindSync DEF Base, FundsInv
  <2> QED BY <2>2, <2>3, <2>4, <2>5, <2>6 DEF FundsInv
<1> QED BY <1>4, <1>5

\* The reconciliation puts right what it can, and undoes nothing.
LEMMA ReconcileStep ==
  ASSUME Base, FundsInv, Reconcile
  PROVE  FundsInv'
<1>1. UNCHANGED <<ledger, txs, flag, queue, cursor, fresh>>
  BY DEF Reconcile, server
<1>2. /\ sync # NoSync /\ IsSync /\ sync.phase = "reconciling" /\ Answered({}, TRUE)
      /\ \A c \in Coins : cache'[c] = IF cache[c] \in Unspent /\ ledger[c] \in Unspent
                                      THEN ledger[c] ELSE cache[c]
  BY ReconcileEffect DEF Base
<1>3. /\ \A c \in Coins : Right(c) \/ c \in sync.since
      /\ \A c \in Coins : Right(c) => Right(c)'
      /\ \A c \in Coins : ledger[c] = "none" => cache'[c] = "none"
  BY <1>1, <1>2 DEF FundsInv, SyncCovers, Right, Unspent
<1>4. {} \in Reads /\ TRUE \in BOOLEAN
  BY SomeValues
<1>5. LineInv' /\ TxsApart' /\ BooksTruth' /\ FlagHolds'
  BY <1>1, <1>2, <1>4, AnsweredStep
<1>6. /\ sync' = NoSync /\ \A k \in Calls : k \in Jobs
      /\ \A k \in Jobs : job[k].stage # "syncing" => job'[k] = job[k]
      /\ \A k \in Jobs : job[k].stage = "syncing" =>
           /\ job'[k].stage = "picking" /\ job'[k].own = job[k].own /\ job'[k].read = {}
           /\ job'[k].delta = TRUE /\ job'[k].beside = job[k].beside
      /\ KindsKept
  BY <1>2, <1>4, AnsweredEffect, CallIsJob DEF Base, WaitersWait
<1>7. SyncCovers'
  BY <1>1, <1>3, <1>6 DEF FundsInv, SyncCovers
<1>8. RecoveryFinds'
  BY <1>1, <1>2, <1>4, AnsweredFinds
<1>10. CacheBehind'
  <2>1. \A c \in Coins : cache'[c] # cache[c] => cache'[c] # "none" /\ Behind(cache'[c], c)
    BY <1>2 DEF Behind, Unspent
  <2>2. \A k \in Calls : \/ job'[k].read = job[k].read
                         \/ \A x \in job'[k].read : x[2] # "none" => cache'[x[1]] # "none"
    BY <1>6
  <2>3. \A k \in Calls : job'[k].stage \in {"building", "submitting"} => job'[k] = job[k]
    BY <1>6
  <2> QED BY <1>1, <1>6, <2>1, <2>2, <2>3, BehindSync DEF Base, FundsInv
<1>9. ASSUME NEW k \in Calls, Own(k)' PROVE OwnHolds(k)'
  <2>1. \A c \in Coins : ledger[c] = "spent" => cache'[c] = cache[c]
    BY <1>2 DEF Unspent
  <2>2. Own(k) /\ OwnHolds(k)
    BY <1>6, <1>9 DEF Own, LocksFirst, KindsKept, FundsInv, OwnIsEnough
  <2>3. CASE job[k].stage = "syncing"
    <3>1. \A c \in sync.since : ledger[c] # "spent"
      BY <1>2, <2>2, <2>3 DEF OwnHolds
    <3>2. \A c \in Coins : ledger[c] = "spent" => cache'[c] \notin Unspent
      BY <1>3, <2>1, <3>1 DEF Right, Unspent
    <3> QED BY <1>1, <1>6, <2>3, <3>2 DEF OwnHolds
  <2>4. CASE job[k].stage # "syncing"
    <3>1. job'[k] = job[k]
      BY <1>6, <2>4
    <3> QED BY <1>1, <1>6, <2>1, <2>2, <3>1 DEF OwnHolds
  <2> QED BY <2>3, <2>4
<1> QED BY <1>5, <1>7, <1>8, <1>9, <1>10 DEF FundsInv, OwnIsEnough

\* Of the calls that wait for a synchronisation, the one with the lock lets it go.
LEMMA SyncFailsStep ==
  ASSUME Base, FundsInv, SyncFails
  PROVE  FundsInv'
<1>1. UNCHANGED <<ledger, txs, flag, cursor, fresh, cache>>
  BY DEF SyncFails, server, stored
<1>2. /\ sync # NoSync /\ sync' = NoSync /\ KindsKept /\ \A k \in Calls : k \in Jobs
      /\ \A k \in Jobs : k \in sync.waiters <=> job[k].stage = "syncing"
      /\ \A k \in Jobs : job[k].stage # "syncing" => job'[k] = job[k]
      /\ \A k \in Jobs : job[k].stage = "syncing" =>
           /\ job'[k].stage = "ended" /\ job'[k].out = {} /\ job'[k].own = FALSE
           /\ job'[k].read = {}
      /\ queue \in Seq(Calls)
  BY SyncFailsEffect, CallIsJob DEF Base, Types, WaitersWait
<1>3. \A k \in Calls : job'[k] = job[k] \/
        (/\ job[k].stage = "syncing" /\ job'[k].stage = "ended"
         /\ job'[k].kind = job[k].kind /\ job'[k].out = {} /\ job'[k].own = FALSE)
  BY <1>2 DEF KindsKept
<1>4. \A k \in Calls : job[k].stage # "syncing" =>
                         (InLine(k)' <=> InLine(k)) /\ (Inside(k)' <=> Inside(k))
  BY <1>2 DEF InLine, Inside, LocksFirst, Running
<1>5. \A k \in Calls : job[k].stage = "syncing" => ~InLine(k)' /\ ~Inside(k)'
  BY <1>2 DEF InLine, Inside, Running
<1>6. \A k \in Calls : job[k].stage = "syncing" /\ InLine(k) => HoldsLock(k)
  BY LockStages DEF FundsInv, InLine
<1>7. QueueIsExact'
  <2>1. CASE \E h \in Calls : job[h].stage = "syncing" /\ InLine(h)
    <3>1. PICK h \in Calls : job[h].stage = "syncing" /\ InLine(h)
      BY <2>1
    <3>2. HoldsLock(h) /\ queue # <<>> /\ Head(queue) = h /\ h \in sync.waiters
      BY <1>2, <1>6, <3>1 DEF HoldsLock
    <3>3. Release(h)
      BY <3>2 DEF SyncFails, Release
    <3>4. \A k \in Calls \ {h} : (InLine(k)' <=> InLine(k)) /\ (Inside(k)' => Inside(k))
      <4> SUFFICES ASSUME NEW k \in Calls, k # h
                   PROVE  (InLine(k)' <=> InLine(k)) /\ (Inside(k)' => Inside(k))
        OBVIOUS
      <4>1. CASE job[k].stage = "syncing"
        <5>1. ~InLine(k)
          BY <1>6, <3>2, <4>1 DEF HoldsLock
        <5> QED BY <1>5, <4>1, <5>1
      <4> QED BY <1>4, <4>1
    <3> QED BY <1>5, <3>1, <3>2, <3>3, <3>4, LineLeaves DEF Base, FundsInv, LineInv
  <2>2. CASE ~\E h \in Calls : job[h].stage = "syncing" /\ InLine(h)
    <3>1. queue' = queue
      <4>1. ASSUME queue # <<>>, Head(queue) \in sync.waiters PROVE FALSE
        <5>1. Head(queue) \in Calls /\ 1 \in 1 .. Len(queue) /\ queue[1] = Head(queue)
          BY <1>2, <4>1
        <5>2. InLine(Head(queue))
          BY <5>1 DEF FundsInv, LineInv, QueueIsExact
        <5> QED BY <1>2, <2>2, <4>1, <5>1, <5>2
      <4> QED BY <4>1 DEF SyncFails
    <3>2. \A k \in Calls : (InLine(k)' <=> InLine(k)) /\ (Inside(k)' => Inside(k))
      BY <1>4, <1>5, <2>2
    <3> QED BY <3>1, <3>2, LineKept DEF FundsInv, LineInv
  <2> QED BY <2>1, <2>2
<1>8. StagesFit'
  <2> SUFFICES ASSUME NEW k \in Calls PROVE StageFits(k)'
    BY DEF StagesFit
  <2> QED BY <1>3 DEF FundsInv, LineInv, StagesFit, StageFits, LocksFirst
<1>9. TxsApart' /\ BooksTruth'
  <2>1. TxsApart'
    BY <1>1, <1>3, TxsStay DEF FundsInv
  <2>2. BooksTruth'
    BY <1>1, <1>3, BooksStay DEF FundsInv
  <2> QED BY <2>1, <2>2
<1>10. FlagHolds'
  <2>1. \A k \in Calls : job'[k].stage \in {"submitting", "finalizing"} =>
                           flag' \/ job'[k] = job[k]
    BY <1>3
  <2> QED BY <1>1, <2>1, FlagStays DEF FundsInv
<1>11. SyncCovers'
  BY <1>1, <1>2 DEF FundsInv, SyncCovers, Right
<1>12. RecoveryFinds'
  <2>1. CASE job[Boot].stage = "syncing"
    BY <1>2, <2>1 DEF RecoveryFinds, Jobs
  <2>2. CASE job[Boot].stage # "syncing"
    <3>1. job'[Boot] = job[Boot]
      BY <1>2, <2>2 DEF Jobs
    <3> QED BY <1>1, <3>1, FindsStay DEF FundsInv, Lasts
  <2> QED BY <2>1, <2>2
<1>14. CacheBehind'
  <2>1. \A k \in Calls : job'[k].read \in {job[k].read, {}}
    BY <1>2
  <2>2. \A k \in Calls : job'[k].stage \in {"building", "submitting"} => job'[k] = job[k]
    BY <1>2
  <2>3. LedgerMoves /\ AnswerKept
    BY <1>1, <1>2 DEF LedgerMoves, AnswerKept
  <2> QED BY <1>1, <2>1, <2>2, <2>3, BehindCalls DEF Base, FundsInv
<1>13. ASSUME NEW k \in Calls, Own(k)' PROVE OwnHolds(k)'
  <2>1. job'[k] = job[k]
    BY <1>3, <1>13 DEF Own
  <2>2. OwnHolds(k)
    BY <1>13, <2>1 DEF Own, LocksFirst, FundsInv, OwnIsEnough
  <2> QED BY <1>1, <1>2, <2>1, <2>2 DEF OwnHolds
<1> QED BY <1>7, <1>8, <1>9, <1>10, <1>11, <1>12, <1>13, <1>14 DEF FundsInv, LineInv, OwnIsEnough

-----------------------------------------------------------------------------
(* The recovery, and restarts. *)

\* The recovery has no turn in the queue.
LEMMA BootReleases ==
  ASSUME Types, Ends(Boot)
  PROVE  queue' = queue
<1>1. queue # <<>> => Head(queue) \in Calls /\ Head(queue) # Boot
  BY FundsAssumption DEF Types
<1> QED BY <1>1 DEF Ends, Release

\* A step of the recovery that changes nothing at the server.
LEMMA BootStep ==
  ASSUME Base, FundsInv, Alone(Boot), UNCHANGED <<ledger, txs, cache, fresh, cursor, sync, queue>>,
         FlagHolds', RecoveryFinds'
  PROVE  FundsInv'
<1>1. \A k \in Calls : job'[k] = job[k]
  BY CallIsJob, FundsAssumption DEF Alone
<1>2. LineInv' /\ TxsApart' /\ BooksTruth'
  <2>1. LineInv'
    BY <1>1, CallsLine DEF FundsInv
  <2>2. TxsApart'
    BY <1>1, TxsStay DEF FundsInv
  <2>3. BooksTruth'
    BY <1>1, BooksStay DEF FundsInv
  <2> QED BY <2>1, <2>2, <2>3
<1>3. SyncCovers'
  BY CacheMends DEF FundsInv
<1>4. OwnIsEnough'
  <2>1. ledger' = ledger /\ cache' = cache /\ sync' = sync
    OBVIOUS
  <2> QED BY <1>1, <2>1 DEF FundsInv, OwnIsEnough, OwnHolds, Own, LocksFirst
<1>5. CacheBehind'
  <2>1. LedgerMoves /\ AnswerKept
    BY DEF LedgerMoves, AnswerKept
  <2> QED BY <1>1, <2>1, BehindCalls DEF Base, FundsInv
<1> QED BY <1>2, <1>3, <1>4, <1>5 DEF FundsInv

\* What the recovery is about to ask about hits every transaction that lasts,
\* and the answer holds them.
LEMMA AsksStep ==
  ASSUME Base, FundsInv, HasPendingTx \/ GetPendingTxs
  PROVE  FundsInv'
<1>1. UNCHANGED <<ledger, txs, flag, cache, fresh, cursor, sync>> /\ Types
  BY DEF HasPendingTx, GetPendingTxs, server, stored, Base
<1>2. Boot \in Jobs /\ Boot \notin Calls
  BY FundsAssumption DEF Jobs
<1>3. ASSUME Alone(Boot), queue' = queue, RecoveryFinds'
      PROVE  FundsInv'
  <2>1. \A k \in Calls : job'[k] = job[k]
    BY <1>2, <1>3, CallIsJob DEF Alone
  <2>2. FlagHolds'
    BY <1>1, <2>1, FlagStays DEF FundsInv
  <2> QED BY <1>1, <1>3, <2>2, BootStep
<1>4. CASE Ends(Boot)
  <2>1. Alone(Boot) /\ job'[Boot].stage = "ended" /\ queue' = queue
    BY <1>1, <1>2, <1>4, EndsEffect, BootReleases
  <2>2. RecoveryFinds'
    BY <2>1 DEF RecoveryFinds
  <2> QED BY <1>3, <2>1, <2>2
<1>5. CASE HasPendingTx /\ flag /\ AskedAbout # {}
  <2>1. /\ Alone(Boot) /\ queue' = queue
        /\ job'[Boot].stage = "asking" /\ job'[Boot].picked = AskedAbout
    BY <1>1, <1>5, AsksEffect
  <2>2. ASSUME NEW t \in txs, Lasts(t) PROVE t.ins \cap AskedAbout # {}
    <3>1. PICK c \in t.ins : ledger[c] = "preconfirmed"
      BY <2>2 DEF Lasts
    <3>2. c \in Coins /\ cache[c] = "preconfirmed"
      BY <1>1, <3>1, TxParts DEF FundsInv, CacheBehind, Known, Behind
    <3>3. c \in AskedAbout
      BY <3>2 DEF AskedAbout
    <3> QED BY <3>3
  <2>3. RecoveryFinds'
    BY <1>1, <2>1, <2>2 DEF RecoveryFinds, Lasts
  <2> QED BY <1>3, <2>1, <2>3
<1>6. CASE GetPendingTxs /\ AnswersPending
  <2>1. /\ Alone(Boot) /\ job'[Boot].stage = "finishing" /\ job'[Boot].picked = Found
    BY <1>1, <1>6, PendingEffect
  <2>2. queue' = queue
    BY <1>6, <1>1, BootReleases DEF GetPendingTxs
  <2>3. RecoveryFinds'
    <3>1. \A t \in txs : Lasts(t) => t.out \in Found
      BY <1>6 DEF GetPendingTxs, FundsInv, RecoveryFinds, Found
    <3> QED BY <1>1, <2>1, <3>1 DEF RecoveryFinds, Lasts
  <2> QED BY <1>3, <2>1, <2>2, <2>3
<1>7. HasPendingTx => (flag /\ AskedAbout # {}) \/ Ends(Boot)
  BY Zenon DEF HasPendingTx
<1>8. GetPendingTxs => AnswersPending \/ Ends(Boot)
  BY Zenon DEF GetPendingTxs, AnswersPending, Found
<1> QED BY <1>4, <1>5, <1>6, <1>7, <1>8

\* One transaction is finalized, or none is left of it, or the flag is going to
\* be kept.
LEMMA FinishesStep ==
  ASSUME Base, FundsInv, FinalizePending
  PROVE  FundsInv'
<1>1. /\ UNCHANGED <<cache, flag, cursor, queue>> /\ Types /\ job[Boot].stage = "finishing"
      /\ \A k \in Calls : LocksFirst(k) /\ Running(k) => job[k].beside
  BY DEF FinalizePending, stored, Base, CallsKnow, Running
<1>2. Boot \in Jobs /\ Boot \notin Calls
  BY FundsAssumption DEF Jobs
<1>3. PICK c \in job[Boot].picked :
        /\ Alone(Boot)
        /\ job'[Boot].stage = "finishing" /\ job'[Boot].picked = job[Boot].picked \ {c}
        /\ \/ \E t \in txs : t.out = c /\ Finalized(t)
           \/ /\ UNCHANGED <<server, fresh, sync>>
              /\ job'[Boot].own => \A t \in txs : t.out # c
        /\ job'[Boot].own => job[Boot].own
  BY <1>1, FinishesOne
<1>4. \A k \in Calls : job'[k] = job[k]
  BY <1>2, <1>3, CallIsJob DEF Alone
<1>5. CASE UNCHANGED <<server, fresh, sync>> /\ (job'[Boot].own => \A t \in txs : t.out # c)
  <2>1. UNCHANGED <<ledger, txs, cache, fresh, cursor, sync, queue, flag>>
    BY <1>1, <1>5 DEF server
  <2>2. FlagHolds'
    BY <1>4, <2>1, FlagStays DEF FundsInv
  <2>3. ASSUME job'[Boot].own, NEW t \in txs, Lasts(t)
        PROVE  t.out \in job'[Boot].picked
    BY <1>1, <1>3, <1>5, <2>3 DEF FundsInv, RecoveryFinds
  <2>4. RecoveryFinds'
    BY <1>3, <2>1, <2>3 DEF RecoveryFinds, Lasts
  <2> QED BY <1>3, <2>1, <2>2, <2>4, BootStep
<1>6. ASSUME NEW m \in txs, m.out = c, Finalized(m)
      PROVE  FundsInv'
  <2>1. /\ m.ins \subseteq Coins /\ m.out \in Coins
        /\ txs' = txs \ {m} /\ Changed(m.ins \cup {m.out})
        /\ \A d \in Coins : ledger'[d] = IF d \in m.ins THEN "spent"
                                         ELSE IF d = m.out THEN "preconfirmed" ELSE ledger[d]
    BY <1>1, <1>6, FinalizedEffect
  <2>2. ledger[m.out] = "none" /\ \A d \in m.ins : ledger[d] \in {"preconfirmed", "settled"}
    BY <1>6 DEF FundsInv, TxsApart
  <2>3. ASSUME NEW t \in txs'
        PROVE  /\ t \in txs /\ t # m /\ t.out # m.out /\ t.ins \subseteq Coins
               /\ ledger'[t.out] = ledger[t.out]
               /\ \A d \in t.ins : ledger'[d] = ledger[d]
               /\ \A d \in t.ins : ledger[d] # "none"
               /\ job'[t.by].stage \in {"finalizing", "ended"}
               /\ Lasts(t)' => Lasts(t)
    <3>1. t \in txs /\ t # m /\ t.by \in Calls /\ t.ins \subseteq Coins /\ t.out \in Coins
      BY <1>1, <2>1, TxParts
    <3>2. /\ t.out # m.out /\ t.ins \cap m.ins = {}
          /\ ledger[t.out] = "none" /\ \A d \in t.ins : ledger[d] \in {"preconfirmed", "settled"}
          /\ job[t.by].stage \in {"finalizing", "ended"}
      BY <1>6, <3>1 DEF FundsInv, TxsApart
    <3>3. \A d \in t.ins : ledger'[d] = ledger[d]
      BY <2>1, <2>2, <3>1, <3>2
    <3> QED BY <1>4, <2>1, <2>2, <3>1, <3>2, <3>3 DEF Lasts
  <2>4. LineInv'
    BY <1>1, <1>4, CallsLine DEF FundsInv
  <2>5. txs' \subseteq txs
    BY <2>1
  <2>6. TxsApart'
    BY <1>4, <2>3, <2>5, TxsAround DEF FundsInv
  <2>7. BooksTruth'
    <3> SUFFICES ASSUME NEW k \in Calls, Done(k)' PROVE BooksWhatIs(k)'
      BY DEF BooksTruth, BooksWhatIs
    <3>1. job'[k] = job[k] /\ job[k].picked \subseteq Coins /\ job[k].out \subseteq Coins
      BY <1>1, <1>4, JobParts, CallIsJob
    <3>2. CASE Done(k)
      <4>1. /\ \A d \in job[k].picked : ledger[d] = "spent"
            /\ \A d \in job[k].out : ledger[d] = "preconfirmed" /\ d \notin m.ins
            /\ \A t \in txs : t.ins \cap job[k].out = {}
        BY <1>6, <3>2 DEF FundsInv, BooksTruth, BooksWhatIs
      <4> QED BY <2>1, <2>2, <2>5, <3>1, <4>1 DEF BooksWhatIs
    <3>3. CASE ~Done(k)
      <4>1. job[k].stage = "finalizing" /\ m.by = k
        BY <2>1, <3>1, <3>3 DEF Done
      <4>2. m.ins = job[k].picked /\ job[k].out = {m.out}
        BY <1>6, <4>1 DEF FundsInv, TxsApart
      <4>3. \A t \in txs' : m.out \notin t.ins
        BY <2>2, <2>3
      <4> QED BY <2>1, <2>2, <3>1, <4>2, <4>3 DEF BooksWhatIs
    <3> QED BY <3>2, <3>3
  <2>9. SyncCovers'
    <3>1. m.ins \cup {m.out} \in SUBSET Coins
      BY <2>1
    <3> QED BY <1>1, <2>1, <3>1, ChangedCovers DEF FundsInv
  <2>10. FlagHolds'
    BY <1>1, <1>4, <2>3, <2>5, FlagAround DEF FundsInv
  <2>11. RecoveryFinds'
    <3>1. job'[Boot].own => \A t \in txs' : Lasts(t)' => t.out \in job'[Boot].picked
      BY <1>1, <1>3, <1>6, <2>3 DEF FundsInv, RecoveryFinds
    <3> QED BY <1>3, <3>1 DEF RecoveryFinds
  <2>12. OwnIsEnough'
    <3> SUFFICES ASSUME NEW k \in Calls, Own(k)' PROVE OwnHolds(k)'
      BY DEF OwnIsEnough
    <3>1. job[k].stage \in {"idle", "ended"} /\ job'[k] = job[k]
      BY <1>1, <1>4 DEF Own, LocksFirst, Running
    <3> QED BY <3>1 DEF OwnHolds
  <2>13. CacheBehind'
    <3>1. LedgerMoves
      BY <2>1, <2>2 DEF LedgerMoves
    <3>2. AnswerKept
      <4>1. m.ins \cup {m.out} \in SUBSET Coins
        BY <2>1
      <4> QED BY <1>1, <2>1, <4>1, ChangedEffect DEF AnswerKept
    <3> QED BY <1>1, <1>4, <2>5, <3>1, <3>2, BehindCalls DEF FundsInv
  <2> QED BY <2>4, <2>6, <2>7, <2>9, <2>10, <2>11, <2>12, <2>13 DEF FundsInv
<1> QED BY <1>3, <1>5, <1>6

\* With every transaction it found finalized, none is left that needs the flag.
LEMMA RecoveryEndsStep ==
  ASSUME Base, FundsInv, FinalizePendingEnds
  PROVE  FundsInv'
<1>1. /\ UNCHANGED <<ledger, txs, cache, fresh, cursor, sync>> /\ Types
      /\ job[Boot].stage = "finishing" /\ job[Boot].picked = {} /\ Ends(Boot)
      /\ flag' = IF job[Boot].own THEN FALSE ELSE flag
  BY DEF FinalizePendingEnds, server, Base
<1>2. Boot \in Jobs /\ Boot \notin Calls
  BY FundsAssumption DEF Jobs
<1>3. Alone(Boot) /\ job'[Boot].stage = "ended" /\ queue' = queue
  BY <1>1, <1>2, EndsEffect, BootReleases
<1>4. \A k \in Calls : /\ job'[k] = job[k]
                       /\ job[k].stage \in {"submitting", "finalizing"} => job[k].beside
  <2>1. \A k \in Calls : LocksFirst(k) /\ Running(k) => job[k].beside
    BY <1>1 DEF Base, CallsKnow, Running
  <2>2. \A k \in Calls : job[k].stage \in {"submitting", "finalizing"} =>
                           LocksFirst(k) /\ Running(k)
    BY DEF FundsInv, LineInv, StagesFit, StageFits, LocksFirst, Running
  <2> QED BY <1>2, <1>3, <2>1, <2>2, CallIsJob DEF Alone
<1>5. FlagHolds'
  <2>1. ASSUME NEW t \in txs PROVE flag' \/ ~Lasts(t)
    <3>1. CASE job[Boot].own
      BY <1>1, <3>1 DEF FundsInv, RecoveryFinds
    <3>2. CASE ~job[Boot].own
      <4>1. flag' = flag
        BY <1>1, <3>2
      <4> QED BY <4>1 DEF FundsInv, FlagHolds
    <3> QED BY <3>1, <3>2
  <2> QED BY <1>1, <1>4, <2>1 DEF FlagHolds, Lasts
<1>6. RecoveryFinds'
  BY <1>3 DEF RecoveryFinds
<1> QED BY <1>1, <1>3, <1>5, <1>6, BootStep

\* A recovery begins: the calls beside it know it, and so do their transactions.
LEMMA StartStep ==
  ASSUME Base, FundsInv, StartRecovery
  PROVE  FundsInv'
<1>1. Types /\ Boot \in Jobs
  BY DEF Base, Jobs
<1>2. /\ UNCHANGED <<ledger, cache, flag, cursor, fresh, queue>> /\ Awaits(Boot)
      /\ job'[Boot].stage = "syncing"
      /\ \A k \in Calls : /\ job'[k].kind = job[k].kind /\ job'[k].stage = job[k].stage
                          /\ job'[k].picked = job[k].picked /\ job'[k].out = job[k].out
                          /\ job'[k].own = job[k].own /\ job'[k].read = job[k].read
                          /\ job'[k].beside = (k \in Spending)
  BY <1>1, StartsEffect DEF StartRecovery, stored
<1>3. ASSUME NEW u \in txs'
      PROVE  \E t \in txs : /\ u = Marked(t) /\ u.ins = t.ins /\ u.out = t.out /\ u.by = t.by
                            /\ u.overtaken = (t.overtaken \/ t.by \in Spending)
  BY <1>1, StartsEffect
<1>4. \A t \in txs : \E u \in txs' : u.by = t.by /\ u.ins = t.ins
  <2>1. \A t \in txs : Marked(t) \in txs' /\ Marked(t).by = t.by /\ Marked(t).ins = t.ins
    BY <1>1, StartsEffect
  <2> QED BY <2>1
<1>5. LineInv'
  BY <1>2, CallsLine DEF FundsInv
<1>6. TxsApart'
  <2>1. ASSUME NEW u \in txs'
        PROVE  /\ ledger'[u.out] = "none"
               /\ \A c \in u.ins : ledger'[c] \in {"preconfirmed", "settled"}
               /\ job'[u.by].stage \in {"finalizing", "ended"}
               /\ \A i \in Calls : job'[i].stage = "finalizing" /\ u.by = i =>
                    u.ins = job'[i].picked /\ job'[i].out = {u.out}
    <3>1. PICK t \in txs : u.ins = t.ins /\ u.out = t.out /\ u.by = t.by
      BY <1>3
    <3>2. t.by \in Calls /\ job'[t.by].stage = job[t.by].stage
      BY <1>1, <1>2, TxParts
    <3> QED BY <1>2, <3>1, <3>2 DEF FundsInv, TxsApart
  <2>2. ASSUME NEW u \in txs', NEW v \in txs', u # v
        PROVE  u.out # v.out /\ u.by # v.by /\ u.ins \cap v.ins = {}
    <3>1. PICK t \in txs : u = Marked(t) /\ u.ins = t.ins /\ u.out = t.out /\ u.by = t.by
      BY <1>3
    <3>2. PICK w \in txs : v = Marked(w) /\ v.ins = w.ins /\ v.out = w.out /\ v.by = w.by
      BY <1>3
    <3>3. t # w
      BY <2>2, <3>1, <3>2
    <3> QED BY <3>1, <3>2, <3>3 DEF FundsInv, TxsApart
  <2> QED BY <2>1, <2>2 DEF TxsApart
<1>7. BooksTruth'
  <2> SUFFICES ASSUME NEW k \in Calls, Done(k)' PROVE BooksWhatIs(k)'
    BY DEF BooksTruth, BooksWhatIs
  <2>1. Done(k)
    BY <1>2, <1>4 DEF Done
  <2>2. /\ \A c \in job[k].picked : ledger[c] = "spent"
        /\ \A c \in job[k].out : ledger[c] = "preconfirmed"
        /\ \A t \in txs : t.ins \cap job[k].out = {}
    BY <2>1 DEF FundsInv, BooksTruth, BooksWhatIs
  <2>3. \A u \in txs' : u.ins \cap job[k].out = {}
    BY <1>3, <2>2
  <2> QED BY <1>2, <2>2, <2>3 DEF BooksWhatIs
<1>8. SyncCovers' /\ AnswerKept
  BY <1>1, <1>2, AwaitsCovers DEF FundsInv
<1>9. CacheBehind'
  <2>1. LedgerMoves
    BY <1>2 DEF LedgerMoves
  <2>2. \A u \in txs' : \E t \in txs : u.ins = t.ins
    BY <1>3
  <2> QED BY <1>1, <1>2, <1>8, <2>1, <2>2, BehindCalls DEF FundsInv
<1>10. FlagHolds'
  <2>1. ASSUME NEW u \in txs' PROVE flag' \/ ~Lasts(u)'
    <3>1. PICK t \in txs : u.ins = t.ins /\ u.overtaken = (t.overtaken \/ t.by \in Spending)
      BY <1>3
    <3>2. Lasts(u)' => Lasts(t)
      BY <1>2, <3>1 DEF Lasts
    <3> QED BY <1>2, <3>2 DEF FundsInv, FlagHolds
  <2>2. \A k \in Calls : job[k].stage \in {"submitting", "finalizing"} => k \in Spending
    BY DEF Spending, FundsInv, LineInv, StagesFit, StageFits, LocksFirst, Running
  <2> QED BY <1>2, <2>1, <2>2 DEF FlagHolds
<1>11. RecoveryFinds'
  BY <1>2 DEF RecoveryFinds
<1>12. OwnIsEnough'
  <2> SUFFICES ASSUME NEW k \in Calls, Own(k)' PROVE OwnHolds(k)'
    BY DEF OwnIsEnough
  <2>1. job'[k].stage \in {"idle", "ended"}
    BY <1>2 DEF Own, LocksFirst, Spending, Running
  <2> QED BY <2>1 DEF OwnHolds
<1> QED BY <1>5, <1>6, <1>7, <1>8, <1>9, <1>10, <1>11, <1>12 DEF FundsInv

LEMMA RecoversStep ==
  ASSUME Base, FundsInv, StartRecovery \/ Recovers
  PROVE  FundsInv'
BY StartStep, AsksStep, FinishesStep, RecoveryEndsStep DEF Recovers

\* Whatever a call was doing, what is stored and what the server has go on
\* covering for it.
LEMMA CrashStep ==
  ASSUME Base, FundsInv, Crash
  PROVE  FundsInv'
<1>1. UNCHANGED <<ledger, txs, cache, flag, fresh, cursor>>
  BY DEF Crash, server, stored
<1>2. /\ sync' = NoSync /\ queue' = <<>> /\ KindsKept
      /\ job'[Boot].stage \in {"idle", "ended"}
      /\ \A k \in Calls : k \in Jobs
      /\ \A k \in Calls : \/ job[k].stage \in {"idle", "ended"} /\ job'[k] = job[k]
                          \/ /\ job[k].stage \notin {"idle", "ended"}
                             /\ job'[k].stage = "ended" /\ job'[k].picked = {}
                             /\ job'[k].out = {} /\ job'[k].own = FALSE
                             /\ job'[k].read = {}
  <2>1. Boot \in Jobs
    BY DEF Jobs
  <2> QED BY <2>1, CrashEffect, CallIsJob DEF Base
<1>3. \A k \in Calls : job'[k].stage \in {"idle", "ended"}
  BY <1>2
<1>4. QueueIsExact'
  <2>1. \A k \in Calls : ~InLine(k)' /\ ~Inside(k)'
    BY <1>3 DEF InLine, Inside, Running
  <2>2. \A n \in 1 .. Len(queue') : FALSE
    BY <1>2
  <2> QED BY <2>1, <2>2 DEF QueueIsExact
<1>5. StagesFit'
  <2> SUFFICES ASSUME NEW k \in Calls PROVE StageFits(k)'
    BY DEF StagesFit
  <2>1. CASE job'[k] = job[k]
    BY <2>1 DEF FundsInv, LineInv, StagesFit, StageFits, LocksFirst
  <2>2. CASE job'[k] # job[k]
    BY <1>2, <2>2 DEF StageFits, LocksFirst
  <2> QED BY <2>1, <2>2
<1>6. TxsApart'
  BY <1>1, <1>2, TxsStay DEF FundsInv
<1>7. BooksTruth'
  BY <1>3 DEF BooksTruth, BooksWhatIs, Done
<1>8. SyncCovers'
  BY <1>1, <1>2 DEF FundsInv, SyncCovers, Right
<1>9. FlagHolds'
  <2>1. \A k \in Calls : job'[k].stage \in {"submitting", "finalizing"} =>
                           flag' \/ job'[k] = job[k]
    BY <1>3
  <2> QED BY <1>1, <2>1, FlagStays DEF FundsInv
<1>10. RecoveryFinds'
  BY <1>2 DEF RecoveryFinds
<1>11. OwnIsEnough'
  BY <1>3 DEF OwnIsEnough, OwnHolds
<1>12. CacheBehind'
  <2>1. LedgerMoves /\ AnswerKept
    BY <1>1, <1>2 DEF LedgerMoves, AnswerKept
  <2>2. \A k \in Calls : job'[k].read \in {job[k].read, {}}
    BY <1>2
  <2> QED BY <1>1, <1>3, <2>1, <2>2, BehindCalls DEF Base, FundsInv
<1> QED BY <1>4, <1>5, <1>6, <1>7, <1>8, <1>9, <1>10, <1>11, <1>12 DEF FundsInv, LineInv

-----------------------------------------------------------------------------
(* The inductive invariant. *)

IInv == Base /\ (AllLocked => FundsInv)

LEMMA FundsInit == Init => FundsInv
<1> SUFFICES ASSUME Init PROVE FundsInv
  OBVIOUS
<1>1. /\ txs = {} /\ sync = NoSync /\ queue = <<>>
      /\ \A c \in Coins : cache[c] = "none"
      /\ fresh = Coins
  BY DEF Init
<1>2. PICK kind \in Kinds :
        job = [i \in Calls \cup {Boot} |-> Idle(IF i = Boot THEN "boot" ELSE kind[i])]
  BY DEF Init
<1>3. \A i \in Jobs : /\ job[i].stage = "idle" /\ job[i].own = FALSE /\ job[i].out = {}
                     /\ job[i].read = {}
  BY <1>2 DEF Jobs, Idle, Blank
<1>4. /\ job[Boot].stage = "idle"
      /\ \A i \in Calls : /\ job[i].stage = "idle" /\ job[i].own = FALSE /\ job[i].out = {}
                          /\ job[i].read = {}
  BY <1>3 DEF Jobs
<1>5. LineInv
  <2>1. \A n \in 1 .. Len(queue) : FALSE
    BY <1>1
  <2>2. QueueIsExact
    BY <1>4, <2>1 DEF QueueIsExact, InLine, Inside, Running
  <2>3. StagesFit
    BY <1>4 DEF StagesFit, StageFits
  <2> QED BY <2>2, <2>3 DEF LineInv
<1>6. TxsApart
  BY <1>1, <1>4 DEF TxsApart
<1>7. BooksTruth /\ FlagHolds /\ RecoveryFinds /\ OwnIsEnough
  BY <1>1, <1>4 DEF BooksTruth, BooksWhatIs, Done, FlagHolds, RecoveryFinds, OwnIsEnough, OwnHolds
<1>8. SyncCovers
  BY <1>1 DEF SyncCovers
<1>9. CacheBehind
  BY <1>1, <1>4 DEF CacheBehind, Behind
<1> QED BY <1>5, <1>6, <1>7, <1>8, <1>9 DEF FundsInv

LEMMA FundsStep ==
  ASSUME Base, FundsInv, AllLocked, [Next]_vars
  PROVE  FundsInv'
<1>1. CASE Synchronises
  BY <1>1, FetchStep, SaveStep, AdvanceStep, ReconcileStep DEF Synchronises
<1>2. CASE \E i \in Calls : Works(i) \/ FinalizeFails(i)
  BY <1>2, WorksStep
<1>3. CASE UNCHANGED vars
  <2>1. UNCHANGED <<ledger, txs, cache, flag, cursor, fresh, sync, job, queue>>
    BY <1>3 DEF vars
  <2>2. LineInv' /\ TxsApart' /\ BooksTruth' /\ FlagHolds'
    BY <2>1, CallsStay
  <2>3. SyncCovers'
    BY <2>1, CacheMends DEF FundsInv
  <2>4. RecoveryFinds'
    BY <2>1, FindsStay DEF FundsInv, Lasts
  <2>5. OwnIsEnough'
    BY <2>1 DEF FundsInv, OwnIsEnough, OwnHolds, Own, LocksFirst
  <2>6. CacheBehind'
    BY <2>1 DEF FundsInv, CacheBehind, Behind, Known
  <2> QED BY <2>2, <2>3, <2>4, <2>5, <2>6 DEF FundsInv
<1> QED BY <1>1, <1>2, <1>3, ServerStep, SyncFailsStep, RecoversStep, CrashStep DEF Next

LEMMA Inductive == Spec => []IInv
<1>1. Init => IInv
  BY BaseInit, FundsInit DEF IInv
<1>2. IInv /\ [Next]_vars => IInv'
  <2> SUFFICES ASSUME IInv, [Next]_vars PROVE IInv'
    OBVIOUS
  <2>1. Base' /\ KindsKept
    BY BaseStep DEF IInv
  <2>2. AllLocked' => AllLocked
    BY <2>1, CallIsJob DEF AllLocked, KindsKept
  <2> QED BY <2>1, <2>2, FundsStep DEF IInv
<1> QED BY <1>1, <1>2, PTL DEF Spec

\* Without asset operations: the stored flag covers a transaction that the server
\* holds unfinished, when no other call has cleared the flag since it was sent, no
\* recovery ran beside the call that sent it, and one of its inputs is a VTXO
\* that the recovery asks about.  The order of setPendingTxFlag, submitTx,
\* finalizeTx and clearPendingTxFlag (wallet.ts), and a recovery that keeps the
\* flag when it failed, stand a stop of the program between any two steps.
THEOREM FlagCovers == Spec => []FlagCoversPending
<1>1. IInv => FlagCoversPending
  <2> SUFFICES ASSUME Base, FundsInv, NEW t \in txs, ~flag, ~t.overtaken, NEW c \in t.ins
               PROVE  ledger[c] # "preconfirmed"
    BY DEF IInv, FlagCoversPending
  <2> QED BY DEF FundsInv, FlagHolds, Lasts
<1> QED BY <1>1, Inductive, PTL

\* What the repository has wrong about a VTXO, the next query of the
\* synchronisation returns: the cursor never passes a change that was not saved.
THEOREM CacheRepairable == Spec => []Repairable
<1>1. IInv => Repairable
  BY DEF IInv, Repairable, FundsInv, SyncCovers, Right
<1> QED BY <1>1, Inductive, PTL

\* Without asset operations: a send or a settlement that synchronised for itself,
\* holding the lock, never submits or settles a VTXO that is spent, unless a
\* recovery has run beside it.
THEOREM OwnSyncIsEnough == Spec => []OwnSyncSuffices
<1>1. IInv => OwnSyncSuffices
  <2> SUFFICES ASSUME FundsInv, NEW i \in Calls, LocksFirst(i), job[i].own, ~job[i].beside,
                      job[i].stage \in {"building", "submitting", "joining"},
                      NEW c \in job[i].picked
               PROVE  ledger[c] # "spent"
    BY DEF IInv, OwnSyncSuffices
  <2> QED BY DEF FundsInv, OwnIsEnough, OwnHolds, Own
<1> QED BY <1>1, Inductive, PTL

=============================================================================
