------------------------- MODULE ContractSyncProofs -------------------------
(***************************************************************************)
(* CursorCovers for any number of scripts, VTXOs, requests side by side,    *)
(* transactions and failures: the overlap of the windows of requests that   *)
(* are under way together is enough for the cursors never to pass a change  *)
(* the repository lacks.  On it rests NotifiedIsCached: what listeners hear *)
(* of is in the repository, through polls and updates handled late.         *)
(***************************************************************************)
EXTENDS ContractSync, TLAPS

-----------------------------------------------------------------------------
(* The inductive invariant.  CursorCovers speaks of the repository only;     *)
(* what keeps it so are facts about every request under way, and about any   *)
(* two of them, because one may overwrite what the other has just saved.     *)

Stale(v) == cache[Of[v]][v] # ledger[v]

\* The requests that answer with all that the cursor asks for, and may move it.
Covering(j) == j.why \notin {"list", "connection_reset"}

\* What the proof needs to know of the types.
IsJob(j) ==
    /\ j = [why |-> j.why, scripts |-> j.scripts, about |-> j.about, stage |-> j.stage,
            since |-> j.since, answer |-> j.answer]
    /\ j.stage \in {"fetching", "saved"}
    /\ DOMAIN j.answer \subseteq Vtxos
    /\ \A v \in DOMAIN j.answer : j.answer[v] \in State
    /\ j.why = "wallet" => j.scripts \subseteq {Mine}

Types ==
    /\ \A j \in jobs : IsJob(j)
    /\ ledger \in [Vtxos -> State]
    /\ cache \in [Scripts -> [Vtxos -> State]]

\* Nothing is stored, or answered, of a VTXO that does not exist yet.
NothingBefore ==
    /\ \A v \in Vtxos : ledger[v] = None => cache[Of[v]][v] = None
    /\ \A j \in jobs : \A v \in DOMAIN j.answer : ledger[v] # None

\* An answer that has become old is no secret to any request, whichever of
\* the two began first: it will fetch the VTXO again, or its successor will.
OldAnswersKnown ==
    \A j, k \in jobs : k.stage = "fetching" =>
        \A v \in DOMAIN k.answer : k.answer[v] # ledger[v] => v \in j.since

OldAnswersFresh ==
    \A k \in jobs : k.stage = "fetching" =>
        \A v \in DOMAIN k.answer : k.answer[v] # ledger[v] /\ Of[v] \in cursor => v \in fresh

\* What a request left out of its answer was right in the repository, or has
\* changed since it began.
LeftOutIsRight ==
    \A j \in jobs : j.stage = "fetching" /\ Covering(j) =>
        \A v \in Vtxos : Of[v] \in j.scripts /\ v \notin DOMAIN j.answer /\ Stale(v) => v \in j.since

\* After its save the same holds of all its VTXOs.
SavedIsRight ==
    \A j \in jobs : j.stage = "saved" /\ Covering(j) =>
        \A v \in Vtxos : Of[v] \in j.scripts /\ Stale(v) => v \in j.since

CursorInv ==
    /\ Types /\ NothingBefore /\ CursorCovers
    /\ OldAnswersKnown /\ OldAnswersFresh /\ LeftOutIsRight /\ SavedIsRight

-----------------------------------------------------------------------------
(* Steps that leave the repository, the cursors and the indexer alone, or    *)
(* begin and end requests.                                                   *)

\* A request that begins now.
LEMMA NewJob ==
  ASSUME NEW why, NEW S, NEW about, why = "wallet" => S \subseteq {Mine}
  PROVE  LET n == Job(why, S, about) IN
         /\ IsJob(n) /\ n.stage = "fetching" /\ n.why = why /\ n.scripts = S
         /\ n.since = Window
         /\ DOMAIN n.answer = Asked(why, S)
         /\ \A v \in Asked(why, S) : n.answer[v] = ledger[v]
<1>1. Asked(why, S) \subseteq Vtxos
  BY DEF Asked
<1>2. \A v \in Asked(why, S) : ledger[v] \in State
  BY DEF Asked, State
<1> QED BY <1>1, <1>2 DEF Job, IsJob

\* A request that begins, other than the second one of the initialisation.
Begins(n) ==
    \E why, S, about :
        n = Job(why, S, about) /\ why # "frontier" /\ (why = "wallet" => S \subseteq {Mine})

\* Requests end, and others begin; cursors may be dropped.
LEMMA JobsBegin ==
  ASSUME CursorInv, NEW N, \A n \in N : Begins(n),
         jobs' \subseteq jobs \cup N, ledger' = ledger, cache' = cache,
         cursor' \subseteq cursor, fresh \subseteq fresh'
  PROVE  CursorInv'
<1> USE SyncAssumption DEF CursorInv
<1>1. ASSUME NEW n \in N
      PROVE  /\ IsJob(n) /\ n.stage = "fetching" /\ n.since = Window
             /\ \A v \in DOMAIN n.answer : n.answer[v] = ledger[v] /\ ledger[v] # None
             /\ Covering(n) => \A v \in Vtxos :
                  Of[v] \in n.scripts /\ v \notin DOMAIN n.answer => ~Stale(v)
  <2>1. PICK why, S, about : n = Job(why, S, about) /\ why # "frontier"
                             /\ (why = "wallet" => S \subseteq {Mine})
    BY DEF Begins
  <2>2. /\ IsJob(n) /\ n.stage = "fetching" /\ n.why = why /\ n.scripts = S
        /\ n.since = Window /\ DOMAIN n.answer = Asked(why, S)
        /\ \A v \in Asked(why, S) : n.answer[v] = ledger[v]
    BY <2>1, NewJob
  <2>3. \A v \in Asked(why, S) : ledger[v] # None
    BY DEF Asked, None
  <2>4. ASSUME Covering(n), NEW v \in Vtxos, Of[v] \in S, v \notin Asked(why, S)
        PROVE  ~Stale(v)
    <3>1. why \notin {"list", "frontier"}
      BY <2>1, <2>2, <2>4 DEF Covering
    <3>2. CASE Of[v] \in ByCursor(why, S) /\ v \notin fresh
      BY <3>2 DEF ByCursor, CursorCovers, Stale
    <3>3. CASE ledger[v] \notin {"unspent", "spent"}
      BY <3>3 DEF Types, State, NothingBefore, Stale
    <3> QED BY <3>1, <3>2, <3>3, <2>4 DEF Asked
  <2> QED BY <2>2, <2>3, <2>4
<1>2. \A n \in N : \A k \in jobs : k.since \subseteq n.since
  BY <1>1 DEF Window
<1>3. Types'
  BY <1>1 DEF Types, IsJob
<1>4. NothingBefore'
  BY <1>1 DEF NothingBefore
<1>5. CursorCovers'
  BY DEF CursorCovers
<1>6. OldAnswersKnown'
  <2> SUFFICES ASSUME NEW j \in jobs', NEW k \in jobs', k.stage = "fetching",
                      NEW v \in DOMAIN k.answer, k.answer[v] # ledger[v]
               PROVE  v \in j.since
    BY DEF OldAnswersKnown
  <2>1. k \in jobs
    BY <1>1
  <2>2. v \in k.since
    BY <2>1 DEF OldAnswersKnown
  <2>3. CASE j \in jobs
    BY <2>1, <2>3 DEF OldAnswersKnown
  <2> QED BY <2>1, <2>2, <2>3, <1>2
<1>7. OldAnswersFresh'
  BY <1>1 DEF OldAnswersFresh
<1>8. LeftOutIsRight'
  BY <1>1 DEF LeftOutIsRight, Stale, Covering
<1>9. SavedIsRight'
  BY <1>1 DEF SavedIsRight, Stale, Covering
<1> QED BY <1>3, <1>4, <1>5, <1>6, <1>7, <1>8, <1>9

\* Nothing of it changes, but for requests that end.
LEMMA JobsEnd ==
  ASSUME CursorInv, jobs' \subseteq jobs, UNCHANGED <<ledger, cache, cursor, fresh>>
  PROVE  CursorInv'
<1> DEFINE N == {}
<1>1. /\ jobs' \subseteq jobs \cup N /\ ledger' = ledger /\ cache' = cache
      /\ cursor' \subseteq cursor /\ fresh \subseteq fresh'
  OBVIOUS
<1>2. \A n \in N : Begins(n)
  OBVIOUS
<1> HIDE DEF N
<1> QED BY <1>1, <1>2, JobsBegin

\* Cursors move to the start of a request whose answer is saved, which ends.
LEMMA CursorMoves ==
  ASSUME CursorInv, NEW j \in jobs, j.stage = "saved", Advanced(j),
         jobs' \subseteq jobs, UNCHANGED <<ledger, cache>>
  PROVE  CursorInv'
<1> USE SyncAssumption DEF CursorInv
<1>1. CASE UNCHANGED <<cursor, fresh>>
  BY <1>1, JobsEnd
<1>2. CASE ~UNCHANGED <<cursor, fresh>>
  <2>1. /\ Covering(j) /\ cursor' = cursor \cup j.scripts
        /\ fresh' = {v \in fresh : Of[v] \notin j.scripts} \cup {v \in j.since : Of[v] \in j.scripts}
    BY <1>2 DEF Advanced, AdvanceSyncCursors, Covering
  <2>2. CursorCovers'
    <3> SUFFICES ASSUME NEW v \in Vtxos, Of[v] \in cursor', Stale(v) PROVE v \in fresh'
      BY DEF CursorCovers, Stale
    <3>1. CASE Of[v] \in j.scripts
      BY <2>1, <3>1 DEF SavedIsRight
    <3>2. CASE Of[v] \notin j.scripts
      BY <2>1, <3>2 DEF CursorCovers, Stale
    <3> QED BY <3>1, <3>2
  <2>3. OldAnswersFresh'
    <3> SUFFICES ASSUME NEW k \in jobs', k.stage = "fetching", NEW v \in DOMAIN k.answer,
                        k.answer[v] # ledger[v], Of[v] \in cursor'
                 PROVE  v \in fresh'
      BY DEF OldAnswersFresh
    <3>1. k \in jobs /\ v \in j.since
      BY DEF OldAnswersKnown
    <3>2. CASE Of[v] \in j.scripts
      BY <2>1, <3>1, <3>2
    <3>3. CASE Of[v] \notin j.scripts
      BY <2>1, <3>1, <3>3 DEF OldAnswersFresh
    <3> QED BY <3>2, <3>3
  <2>4. Types' /\ NothingBefore'
    BY DEF Types, NothingBefore, IsJob
  <2>5. OldAnswersKnown'
    BY DEF OldAnswersKnown
  <2>6. LeftOutIsRight' /\ SavedIsRight'
    BY DEF LeftOutIsRight, SavedIsRight, Stale, Covering
  <2> QED BY <2>2, <2>3, <2>4, <2>5, <2>6
<1> QED BY <1>1, <1>2

\* initialize: the second request asks for what is unspent only; the first has
\* just brought the rest.
LEMMA FrontierBegins ==
  ASSUME CursorInv, NEW j \in jobs, InitSynced(j)
  PROVE  CursorInv'
<1> DEFINE n == Job("frontier", j.scripts, {})
<1> USE SyncAssumption
<1>1. /\ j.stage = "saved" /\ j.why = "init" /\ Advanced(j)
      /\ jobs' = (jobs \ {j}) \cup {n} /\ UNCHANGED <<ledger, cache>>
  BY DEF InitSynced, Finish, server
<1>2. /\ IsJob(n) /\ n.stage = "fetching" /\ n.why = "frontier" /\ n.scripts = j.scripts
      /\ n.since = Window /\ DOMAIN n.answer = Asked("frontier", j.scripts)
      /\ \A v \in DOMAIN n.answer : n.answer[v] = ledger[v]
  BY NewJob
<1> HIDE DEF n
<1>3. /\ cursor' = cursor \cup j.scripts
      /\ fresh' = {v \in fresh : Of[v] \notin j.scripts} \cup {v \in j.since : Of[v] \in j.scripts}
  BY <1>1 DEF Advanced, AdvanceSyncCursors
<1>4. \A k \in jobs : k.since \subseteq n.since
  BY <1>2 DEF Window
<1>5. \A v \in Vtxos : Of[v] \in j.scripts /\ Stale(v) => v \in j.since
  BY <1>1 DEF CursorInv, SavedIsRight, Covering
<1>6. Types' /\ NothingBefore'
  BY <1>1, <1>2 DEF CursorInv, Types, NothingBefore, IsJob, Asked, None
<1>7. CursorCovers'
  BY <1>1, <1>3, <1>5 DEF CursorInv, CursorCovers, Stale
<1>8. OldAnswersKnown'
  <2> SUFFICES ASSUME NEW i \in jobs', NEW k \in jobs', k.stage = "fetching",
                      NEW v \in DOMAIN k.answer, k.answer[v] # ledger[v]
               PROVE  v \in i.since
    BY <1>1 DEF OldAnswersKnown
  <2>1. k \in jobs /\ v \in k.since
    BY <1>1, <1>2 DEF CursorInv, OldAnswersKnown
  <2> QED BY <2>1, <1>1, <1>4 DEF CursorInv, OldAnswersKnown
<1>9. OldAnswersFresh'
  <2> SUFFICES ASSUME NEW k \in jobs', k.stage = "fetching", NEW v \in DOMAIN k.answer,
                      k.answer[v] # ledger[v], Of[v] \in cursor'
               PROVE  v \in fresh'
    BY <1>1 DEF OldAnswersFresh
  <2>1. k \in jobs /\ v \in j.since
    BY <1>1, <1>2 DEF CursorInv, OldAnswersKnown
  <2> QED BY <2>1, <1>3 DEF CursorInv, OldAnswersFresh
<1>10. LeftOutIsRight'
  BY <1>1, <1>2, <1>4, <1>5 DEF CursorInv, LeftOutIsRight, Stale, Covering
<1>11. SavedIsRight'
  BY <1>1, <1>2 DEF CursorInv, SavedIsRight, Stale, Covering
<1> QED BY <1>6, <1>7, <1>8, <1>9, <1>10, <1>11 DEF CursorInv

-----------------------------------------------------------------------------
(* The two steps that change the repository's VTXOs, or the indexer's. *)

\* An answer is saved, possibly over a newer one.
LEMMA AnswerSaved ==
  ASSUME CursorInv, NEW j \in jobs, SaveVtxos(j)
  PROVE  CursorInv'
<1> DEFINE n == [j EXCEPT !.stage = "saved"]
<1> USE SyncAssumption
<1>1. /\ j.stage = "fetching" /\ jobs' = (jobs \ {j}) \cup {n}
      /\ cache' = [s \in Scripts |-> [v \in Vtxos |->
                    IF v \in DOMAIN j.answer /\ Address(j, Of[v]) = s THEN j.answer[v] ELSE cache[s][v]]]
      /\ UNCHANGED <<ledger, cursor, fresh>>
  BY DEF SaveVtxos, server
<1>2. /\ n.stage = "saved" /\ n.why = j.why /\ n.scripts = j.scripts /\ n.since = j.since
      /\ n.answer = j.answer /\ IsJob(n)
  BY DEF CursorInv, Types, IsJob
<1>3. \A v \in Vtxos : Of[v] \in Scripts
  OBVIOUS
<1>4. \A v \in Vtxos : cache'[Of[v]][v] \in {cache[Of[v]][v]} \cup
                          (IF v \in DOMAIN j.answer THEN {j.answer[v]} ELSE {})
  BY <1>1, <1>3
<1>5. \A v \in DOMAIN j.answer : Of[v] \in j.scripts => cache'[Of[v]][v] = j.answer[v]
  <2> SUFFICES ASSUME NEW v \in DOMAIN j.answer, Of[v] \in j.scripts
               PROVE  cache'[Of[v]][v] = j.answer[v]
    OBVIOUS
  <2>1. v \in Vtxos /\ (j.why = "wallet" => Of[v] = Mine)
    BY DEF CursorInv, Types, IsJob
  <2>2. Address(j, Of[v]) = Of[v]
    BY <2>1 DEF Address
  <2> QED BY <2>1, <2>2, <1>1, <1>3
<1> HIDE DEF n
<1>6. \A v \in DOMAIN j.answer : j.answer[v] # ledger[v] => \A k \in jobs : v \in k.since
  BY <1>1 DEF CursorInv, OldAnswersKnown
<1>7. \A v \in Vtxos : Stale(v)' => Stale(v) \/ (v \in DOMAIN j.answer /\ j.answer[v] # ledger[v])
  BY <1>1, <1>4 DEF Stale
<1>8. Types'
  <2>1. cache' \in [Scripts -> [Vtxos -> State]]
    BY <1>1 DEF CursorInv, Types, IsJob
  <2> QED BY <2>1, <1>1, <1>2 DEF CursorInv, Types, IsJob
<1>9. NothingBefore'
  BY <1>1, <1>2, <1>4 DEF CursorInv, NothingBefore
<1>10. CursorCovers'
  BY <1>1, <1>7 DEF CursorInv, CursorCovers, OldAnswersFresh, Stale
<1>11. OldAnswersKnown' /\ OldAnswersFresh'
  BY <1>1, <1>2 DEF CursorInv, OldAnswersKnown, OldAnswersFresh
<1>12. LeftOutIsRight'
  BY <1>1, <1>2, <1>6, <1>7 DEF CursorInv, LeftOutIsRight, Covering
<1>13. SavedIsRight'
  <2> SUFFICES ASSUME NEW k \in jobs', k.stage = "saved", Covering(k),
                      NEW v \in Vtxos, Of[v] \in k.scripts, Stale(v)'
               PROVE  v \in k.since
    BY DEF SavedIsRight, Covering
  <2>1. CASE k = n
    <3>1. CASE v \in DOMAIN j.answer
      BY <2>1, <3>1, <1>1, <1>2, <1>5, <1>6 DEF Stale
    <3>2. CASE v \notin DOMAIN j.answer
      BY <2>1, <3>2, <1>1, <1>2, <1>7 DEF CursorInv, LeftOutIsRight, Covering
    <3> QED BY <3>1, <3>2
  <2>2. CASE k # n
    BY <2>2, <1>1, <1>6, <1>7 DEF CursorInv, SavedIsRight
  <2> QED BY <2>1, <2>2
<1> QED BY <1>8, <1>9, <1>10, <1>11, <1>12, <1>13 DEF CursorInv

\* What a transaction changes is fresh, and no news to any request under way.
LEMMA TransactionHappens ==
  ASSUME CursorInv, NEW ins \in SUBSET Vtxos, NEW outs \in SUBSET Vtxos, Transact(ins, outs)
  PROVE  CursorInv'
<1> DEFINE after(j) == [j EXCEPT !.since = @ \cup ins \cup outs]
<1> USE SyncAssumption
<1>1. /\ ledger' = [v \in Vtxos |-> IF v \in ins THEN "spent"
                                    ELSE IF v \in outs THEN "unspent" ELSE ledger[v]]
      /\ fresh' = fresh \cup ins \cup outs /\ jobs' = {after(j) : j \in jobs}
      /\ UNCHANGED <<cache, cursor>>
  BY DEF Transact
<1>2. ASSUME NEW j \in jobs
      PROVE  /\ IsJob(after(j)) /\ after(j).stage = j.stage /\ after(j).why = j.why
             /\ after(j).scripts = j.scripts /\ after(j).answer = j.answer
             /\ after(j).since = j.since \cup ins \cup outs
  <2>1. IsJob(j)
    BY DEF CursorInv, Types
  <2>2. after(j) = [why |-> j.why, scripts |-> j.scripts, about |-> j.about, stage |-> j.stage,
                    since |-> j.since \cup ins \cup outs, answer |-> j.answer]
    <3>1. after(j) = [j EXCEPT !.since = j.since \cup ins \cup outs]
      OBVIOUS
    <3> HIDE DEF after
    <3> QED BY <2>1, <3>1 DEF IsJob
  <2> HIDE DEF after
  <2> QED BY <2>1, <2>2 DEF IsJob
<1> HIDE DEF after
<1>3. \A v \in Vtxos : v \notin ins \cup outs => ledger'[v] = ledger[v]
  BY <1>1
<1>4. \A v \in Vtxos : ledger'[v] = None => v \notin ins \cup outs
  BY <1>1 DEF None
<1>5. \A v \in Vtxos : v \notin ins \cup outs => (Stale(v)' <=> Stale(v))
  BY <1>1, <1>3 DEF Stale
<1>6. Types'
  <2>1. ledger' \in [Vtxos -> State]
    BY <1>1 DEF CursorInv, Types, State
  <2> QED BY <2>1, <1>1, <1>2 DEF CursorInv, Types
<1>7. NothingBefore'
  <2>1. \A v \in Vtxos : ledger'[v] = None => ledger[v] = None
    BY <1>3, <1>4
  <2>2. \A j \in jobs : DOMAIN j.answer \subseteq Vtxos
    BY DEF CursorInv, Types, IsJob
  <2> QED BY <2>1, <2>2, <1>1, <1>2 DEF CursorInv, NothingBefore
<1>8. CursorCovers'
  BY <1>1, <1>5 DEF CursorInv, CursorCovers, Stale
<1>9. OldAnswersKnown'
  <2> SUFFICES ASSUME NEW j \in jobs, NEW k \in jobs, k.stage = "fetching",
                      NEW v \in DOMAIN k.answer, k.answer[v] # ledger'[v]
               PROVE  v \in after(j).since
    BY <1>1, <1>2 DEF OldAnswersKnown
  <2>1. v \in Vtxos
    BY DEF CursorInv, Types, IsJob
  <2> QED BY <2>1, <1>2, <1>3 DEF CursorInv, OldAnswersKnown
<1>10. OldAnswersFresh'
  <2> SUFFICES ASSUME NEW k \in jobs, k.stage = "fetching", NEW v \in DOMAIN k.answer,
                      k.answer[v] # ledger'[v], Of[v] \in cursor
               PROVE  v \in fresh'
    BY <1>1, <1>2 DEF OldAnswersFresh
  <2>1. v \in Vtxos
    BY DEF CursorInv, Types, IsJob
  <2> QED BY <2>1, <1>1, <1>3 DEF CursorInv, OldAnswersFresh
<1>11. LeftOutIsRight'
  <2> SUFFICES ASSUME NEW j \in jobs, j.stage = "fetching", Covering(j), NEW v \in Vtxos,
                      Of[v] \in j.scripts, v \notin DOMAIN j.answer, Stale(v)'
               PROVE  v \in after(j).since
    BY <1>1, <1>2 DEF LeftOutIsRight, Covering
  <2> QED BY <1>2, <1>5 DEF CursorInv, LeftOutIsRight
<1>12. SavedIsRight'
  <2> SUFFICES ASSUME NEW j \in jobs, j.stage = "saved", Covering(j), NEW v \in Vtxos,
                      Of[v] \in j.scripts, Stale(v)'
               PROVE  v \in after(j).since
    BY <1>1, <1>2 DEF SavedIsRight, Covering
  <2> QED BY <1>2, <1>5 DEF CursorInv, SavedIsRight
<1> QED BY <1>6, <1>7, <1>8, <1>9, <1>10, <1>11, <1>12 DEF CursorInv

-----------------------------------------------------------------------------
(* Every step. *)

\* Events begin a request each, and contracts found expired one that asks nothing.
LEMMA EventsBegin ==
  ASSUME CursorInv, NEW events, \A e \in events : e.type \in {"vtxo_received", "vtxo_spent"},
         Emit(events), UNCHANGED <<ledger, cache, cursor, fresh>>
  PROVE  CursorInv'
<1>1. CASE jobs' = jobs
  BY <1>1, JobsEnd
<1>2. CASE jobs' # jobs
  <2>1. PICK S : jobs' = jobs \cup ({Job(e.type, {e.script}, e.vtxos) : e \in events}
                                    \cup {Job("contract_expired", {s}, {}) : s \in S})
    BY <1>2 DEF Emit
  <2> DEFINE N == {Job(e.type, {e.script}, e.vtxos) : e \in events}
                  \cup {Job("contract_expired", {s}, {}) : s \in S}
  <2>2. \A n \in N : Begins(n)
    <3>1. ASSUME NEW e \in events PROVE Begins(Job(e.type, {e.script}, e.vtxos))
      <4>1. e.type # "frontier" /\ e.type # "wallet"
        OBVIOUS
      <4> QED BY <4>1 DEF Begins
    <3>2. ASSUME NEW s \in S PROVE Begins(Job("contract_expired", {s}, {}))
      BY DEF Begins
    <3> QED BY <3>1, <3>2
  <2> HIDE DEF N
  <2> QED BY <2>1, <2>2, JobsBegin DEF N
<1> QED BY <1>1, <1>2

\* One request begins.
LEMMA OneBegins ==
  ASSUME CursorInv, NEW why, NEW S, NEW about, why # "frontier",
         why = "wallet" => S \subseteq {Mine},
         jobs' = jobs \cup {Job(why, S, about)}, ledger' = ledger, cache' = cache,
         cursor' \subseteq cursor, fresh \subseteq fresh'
  PROVE  CursorInv'
<1> DEFINE N == {Job(why, S, about)}
<1>1. Begins(Job(why, S, about))
  BY DEF Begins
<1>2. jobs' \subseteq jobs \cup N /\ \A n \in N : Begins(n)
  BY <1>1
<1> HIDE DEF N
<1> QED BY <1>2, JobsBegin

\* The events of a poll or of an update are of the two types.
LEMMA ChangesTyped ==
  ASSUME NEW change, NEW type \in {"vtxo_received", "vtxo_spent"}
  PROVE  \A e \in Changes(type, change) : e.type \in {"vtxo_received", "vtxo_spent"}
BY DEF Changes, Event

\* Every step keeps what CursorCovers rests on.
LEMMA CursorStep ==
  ASSUME WalletScripts \subseteq {Mine}
  PROVE  CursorInv /\ [Next]_vars => CursorInv'
<1> SUFFICES ASSUME CursorInv, [Next]_vars PROVE CursorInv'
  OBVIOUS
<1>1. ASSUME UNCHANGED <<ledger, cache, cursor, fresh, jobs>> PROVE CursorInv'
  BY <1>1, JobsEnd
<1>2. ASSUME Reset, UNCHANGED <<ledger, cache, cursor, fresh>> PROVE CursorInv'
  <2>1. CASE HasCallback
    BY <1>2, <2>1, OneBegins DEF Reset, ResetJobs
  <2>2. CASE ~HasCallback
    BY <1>2, <2>2, <1>1 DEF Reset, ResetJobs
  <2> QED BY <2>1, <2>2
<1>3. CASE World
  <2>1. ASSUME NEW ins \in SUBSET Vtxos, NEW outs \in SUBSET Vtxos, Transact(ins, outs)
        PROVE  CursorInv'
    BY <2>1, TransactionHappens
  <2>2. ASSUME NEW i \in Ids, Forget(i) PROVE CursorInv'
    BY <2>2, <1>1 DEF Forget, repo
  <2>3. ASSUME NEW j \in jobs, JobFails(j) PROVE CursorInv'
    BY <2>3, JobsEnd DEF JobFails, Finish, server, repo
  <2> QED BY <1>3, <2>1, <2>2, <2>3 DEF World
<1>4. CASE Program
  <2>1. CASE Create
    BY <2>1, OneBegins DEF Create, server, repo
  <2>2. CASE SyncVtxos
    <3> DEFINE S == {Mine} \cup (IF life \in {"off", "loading"} THEN {}
                                 ELSE WalletScripts \cap Contracts)
    <3>1. jobs' = jobs \cup {Job("wallet", S, {})} /\ UNCHANGED <<ledger, cache, cursor, fresh>>
      BY <2>2 DEF SyncVtxos, server, repo
    <3>2. S \subseteq {Mine}
      OBVIOUS
    <3> HIDE DEF S
    <3> QED BY <3>1, <3>2, OneBegins
  <2>3. CASE GetContractsWithVtxos
    BY <2>3, OneBegins DEF GetContractsWithVtxos, server, repo
  <2>4. CASE Dispose
    BY <2>4, <1>1 DEF Dispose, repo
  <2>5. ASSUME NEW S \in SUBSET Scripts, RefreshVtxos(S) PROVE CursorInv'
    <3>1. /\ jobs' = jobs \cup {Job("refresh", S \cap Contracts, {})}
          /\ ledger' = ledger /\ cache' = cache
          /\ cursor' \subseteq cursor /\ fresh \subseteq fresh'
      BY <2>5 DEF RefreshVtxos, server
    <3> QED BY <3>1, OneBegins
  <2>6. ASSUME NEW s \in Scripts, CreateContract(s) PROVE CursorInv'
    BY <2>6, OneBegins DEF CreateContract, server
  <2>7. ASSUME NEW s \in Scripts, NEW to, SetContractState(s, to) \/ DeleteContract(s)
        PROVE  CursorInv'
    BY <2>7, <1>1 DEF SetContractState, DeleteContract, server
  <2> QED BY <1>4, <2>1, <2>2, <2>3, <2>4, <2>5, <2>6, <2>7 DEF Program
<1>5. CASE JobStep
  <2> SUFFICES ASSUME NEW j \in jobs,
                      \/ SaveVtxos(j) \/ HandledContractEvent(j) \/ ContractExpired(j)
                      \/ WalletSynced(j) \/ Returned(j) \/ InitSynced(j) \/ Initialized(j)
                      \/ AddContract(j)
               PROVE  CursorInv'
    BY <1>5 DEF JobStep
  <2>1. CASE SaveVtxos(j)
    BY <2>1, AnswerSaved
  <2>2. CASE HandledContractEvent(j) \/ WalletSynced(j) \/ Returned(j)
    BY <2>2, CursorMoves DEF HandledContractEvent, WalletSynced, Returned, Finish, server
  <2>3. CASE ContractExpired(j) \/ Initialized(j)
    BY <2>3, JobsEnd DEF ContractExpired, Initialized, Finish, server
  <2>4. CASE InitSynced(j)
    BY <2>4, FrontierBegins
  <2>5. CASE AddContract(j)
    BY <2>5, CursorMoves DEF AddContract, Finish, server
  <2> QED BY <2>1, <2>2, <2>3, <2>4, <2>5
<1>6. ASSUME NEW b, UpdateStep(b) PROVE CursorInv'
  <2> SUFFICES ASSUME NEW u, \/ Connected(u) \/ CallSubscribed(u) \/ StaleId(u)
                             \/ ConnectFailed(u) \/ CallNotSubscribed(u)
               PROVE  CursorInv'
    BY <1>6 DEF UpdateStep
  <2>1. CASE Connected(u) \/ CallSubscribed(u) \/ CallNotSubscribed(u)
    BY <2>1, <1>1 DEF Connected, CallSubscribed, CallNotSubscribed, server, repo
  <2>2. CASE StaleId(u)
    BY <2>2, <1>1 DEF StaleId, repo
  <2>3. CASE ConnectFailed(u)
    BY <2>3, <1>2 DEF ConnectFailed, server, repo
  <2> QED BY <2>1, <2>2, <2>3
<1>7. ASSUME NEW p, PollContracts(p), UNCHANGED <<ledger, cache, cursor, fresh>> PROVE CursorInv'
  <2>1. PICK events : (\A e \in events : e.type \in {"vtxo_received", "vtxo_spent"}) /\ Emit(events)
    BY <1>7, ChangesTyped DEF PollContracts
  <2> QED BY <1>7, <2>1, EventsBegin
<1>8. ASSUME NEW b, PollStep(b) PROVE CursorInv'
  <2> SUFFICES ASSUME NEW p, TimerPolled(p) \/ ConnectPolled(p) \/ AddPolled(p)
               PROVE  CursorInv'
    BY <1>8 DEF PollStep
  <2> QED BY <1>7 DEF TimerPolled, ConnectPolled, AddPolled, server, repo
<1>9. CASE StreamStep
  <2>1. CASE HandleSubscriptionUpdate
    <3>1. PICK events : (\A e \in events : e.type \in {"vtxo_received", "vtxo_spent"})
                        /\ Emit(events)
      BY <2>1, ChangesTyped DEF HandleSubscriptionUpdate
    <3> QED BY <2>1, <3>1, EventsBegin DEF HandleSubscriptionUpdate, server, repo
  <2>2. CASE StreamFails
    BY <2>2, <1>2 DEF StreamFails, server, repo
  <2>3. CASE StreamEnds
    BY <2>3, <1>1 DEF StreamEnds, server, repo
  <2> QED BY <1>9, <2>1, <2>2, <2>3 DEF StreamStep
<1>10. CASE CallStep \/ FailsafePoll \/ Reconnect \/ Stopped
  BY <1>10, <1>1 DEF CallStep, UpdateContract, FailsafePoll, Reconnect, Stopped, server, repo
<1>11. CASE UNCHANGED vars
  BY <1>11, <1>1 DEF vars, server, repo
<1> QED BY <1>3, <1>4, <1>5, <1>6, <1>8, <1>9, <1>10, <1>11 DEF Next

\* A contract that is loaded with a cursor has what the indexer had then.
LEMMA CursorInit == Init => CursorInv
<1> SUFFICES ASSUME Init PROVE CursorInv
  OBVIOUS
<1> USE SyncAssumption
<1>1. jobs = {} /\ Types
  <2>1. ledger \in [Vtxos -> State] /\ jobs = {}
    BY DEF Init
  <2>2. cache \in [Scripts -> [Vtxos -> State]]
    BY <2>1 DEF Init, State
  <2> QED BY <2>1, <2>2 DEF Types
<1>2. \A v \in Vtxos : cache[Of[v]][v] = IF Of[v] \in Contracts THEN ledger[v] ELSE None
  BY DEF Init
<1>3. NothingBefore /\ CursorCovers
  BY <1>1, <1>2 DEF Init, NothingBefore, CursorCovers
<1> QED BY <1>1, <1>3
        DEF CursorInv, OldAnswersKnown, OldAnswersFresh, LeftOutIsRight, SavedIsRight

\* Where the wallet synchronises one script only (the VTXOs of a second one are
\* saved under another address, see Address), no cursor ever passes a change that
\* the repository lacks.
THEOREM CursorsCover ==
  ASSUME WalletScripts \subseteq {Mine}
  PROVE  Spec => []CursorCovers
<1>1. CursorInv /\ [Next]_vars => CursorInv'
  BY CursorStep
<1>2. CursorInv => CursorCovers
  BY DEF CursorInv
<1> QED BY CursorInit, <1>1, <1>2, PTL DEF Spec
-----------------------------------------------------------------------------
(* What a listener hears of.  NotifiedIsCached speaks of the step in which a *)
(* request for an event comes to its end; that it finds the repository       *)
(* filled rests on what was true when the event arose, which may be several  *)
(* requests, polls and updates earlier.                                      *)

Updates == [new : SUBSET Vtxos, spent : SUBSET Vtxos, scripts : SUBSET Scripts]

\* The stream tells of VTXOs that exist, also when its update is handled late.
WireTrue ==
    /\ wire \in Seq(Updates)
    /\ \A i \in 1 .. Len(wire) : \A v \in wire[i].new : ledger[v] # None

\* What a poll read in the repository is there still, when it compares.
ReadsStay ==
    \A p \in polls : \A s \in p.scripts : \A v \in p.read[s] :
        v \in Vtxos /\ (s \in Scripts => cache[s][v] # None)

AnswersTell ==
    \A j \in jobs : \A v \in DOMAIN j.answer : j.answer[v] # None

\* Requests that are under way together have seen the same transactions since:
\* two that differ do not become one when another transaction happens.
SameWindow ==
    \A i, j \in jobs : i.since = j.since

\* A VTXO a request will tell of is in the repository or in its answer.
ToldIsKept ==
    \A j \in jobs : j.why = "vtxo_received" =>
        \A v \in j.about :
            /\ v \in Vtxos
            /\ Of[v] \in j.scripts => \/ cache[Of[v]][v] # None
                                      \/ j.stage = "fetching" /\ v \in DOMAIN j.answer

NewsInv ==
    /\ lost \in Nat /\ WireTrue /\ ReadsStay
    /\ AnswersTell /\ SameWindow /\ ToldIsKept

\* A request that begins, for VTXOs that exist.
Tells(n) ==
    \E why, S, about :
        /\ n = Job(why, S, about)
        /\ why = "vtxo_received" =>
              \A v \in about : v \in Vtxos /\ (Of[v] \in S => ledger[v] # None \/ cache[Of[v]][v] # None)

\* How the variables move in a step that changes no VTXO.
LostMoves == lost' = lost \/ lost' = lost + 1
WireMoves == wire' = wire \/ wire' = <<>> \/ (wire # <<>> /\ wire' = Tail(wire))
PollsMove == \E by, S : polls' \subseteq polls \cup {PollRead(by, S)}
JobsMove  == \E N : jobs' \subseteq jobs \cup N /\ \A n \in N : Tells(n)

\* The stream loses its head, or all of it.
LEMMA WireShortens ==
  ASSUME WireTrue, WireMoves, ledger' = ledger
  PROVE  WireTrue'
<1>1. CASE wire' = wire
  BY <1>1 DEF WireTrue
<1>2. CASE wire' = <<>>
  BY <1>2 DEF WireTrue
<1>3. CASE wire # <<>> /\ wire' = Tail(wire)
  <2>1. wire \in Seq(Updates) /\ wire' \in Seq(Updates)
    BY <1>3 DEF WireTrue
  <2>2. Len(wire') = Len(wire) - 1 /\ \A i \in 1 .. Len(wire') : wire'[i] = wire[i + 1]
    BY <1>3, <2>1
  <2>3. \A i \in 1 .. Len(wire') : i + 1 \in 1 .. Len(wire)
    BY <2>1, <2>2
  <2> QED BY <2>1, <2>2, <2>3 DEF WireTrue
<1> QED BY <1>1, <1>2, <1>3 DEF WireMoves

\* Requests begin and end.
LEMMA NewsBegin ==
  ASSUME CursorInv, AnswersTell, SameWindow, ToldIsKept, JobsMove,
         UNCHANGED <<ledger, cache>>
  PROVE  AnswersTell' /\ SameWindow' /\ ToldIsKept'
<1> USE SyncAssumption
<1>1. PICK N : jobs' \subseteq jobs \cup N /\ \A n \in N : Tells(n)
  BY DEF JobsMove
<1>2. ASSUME NEW n \in N
      PROVE  /\ n.since = Window /\ n.stage = "fetching"
             /\ \A v \in DOMAIN n.answer : n.answer[v] # None
             /\ n.why = "vtxo_received" => \A v \in n.about :
                  /\ v \in Vtxos
                  /\ Of[v] \in n.scripts => cache[Of[v]][v] # None \/ v \in DOMAIN n.answer
  <2>1. PICK why, S, about :
           /\ n = Job(why, S, about)
           /\ why = "vtxo_received" =>
                 \A v \in about : v \in Vtxos /\ (Of[v] \in S => ledger[v] # None \/ cache[Of[v]][v] # None)
    BY <1>1 DEF Tells
  <2>2. /\ n.why = why /\ n.scripts = S /\ n.about = about /\ n.since = Window
        /\ n.stage = "fetching" /\ DOMAIN n.answer = Asked(why, S)
        /\ \A v \in Asked(why, S) : n.answer[v] = ledger[v]
    BY <2>1 DEF Job
  <2>3. \A v \in Asked(why, S) : ledger[v] # None
    BY DEF Asked, None
  <2>4. ASSUME why = "vtxo_received", NEW v \in about, Of[v] \in S, cache[Of[v]][v] = None
        PROVE  v \in Asked(why, S)
    <3>1. v \in Vtxos /\ ledger[v] # None /\ ledger[v] \in {"unspent", "spent"}
      BY <2>1, <2>4 DEF CursorInv, Types, State
    <3>2. Of[v] \in ByCursor(why, S) => v \in fresh
      BY <2>4, <3>1 DEF ByCursor, CursorInv, CursorCovers
    <3> QED BY <2>4, <3>1, <3>2 DEF Asked
  <2>5. ASSUME n.why = "vtxo_received", NEW v \in n.about
        PROVE  /\ v \in Vtxos
               /\ Of[v] \in n.scripts => cache[Of[v]][v] # None \/ v \in DOMAIN n.answer
    BY <2>1, <2>2, <2>4, <2>5
  <2> QED BY <2>2, <2>3, <2>5
<1>3. AnswersTell'
  BY <1>1, <1>2 DEF AnswersTell
<1>4. \A j \in jobs : j.since = Window
  BY DEF SameWindow, Window
<1>5. SameWindow'
  BY <1>1, <1>2, <1>4 DEF SameWindow
<1>6. ToldIsKept'
  BY <1>1, <1>2 DEF ToldIsKept
<1> QED BY <1>3, <1>5, <1>6

\* A step that changes no VTXO, neither the indexer's nor the repository's.
LEMMA NewsMove ==
  ASSUME CursorInv, NewsInv, UNCHANGED <<ledger, cache>>,
         LostMoves, WireMoves, PollsMove, JobsMove
  PROVE  NewsInv'
<1>1. lost' \in Nat
  BY DEF NewsInv, LostMoves
<1>2. WireTrue'
  BY WireShortens DEF NewsInv
<1>3. ReadsStay'
  <2>1. PICK by, S : polls' \subseteq polls \cup {PollRead(by, S)}
    BY DEF PollsMove
  <2>2. \A s \in PollRead(by, S).scripts : \A v \in PollRead(by, S).read[s] :
            v \in Vtxos /\ cache[s][v] # None
    BY DEF PollRead, None
  <2> QED BY <2>1, <2>2 DEF NewsInv, ReadsStay
<1>4. AnswersTell' /\ SameWindow' /\ ToldIsKept'
  BY NewsBegin DEF NewsInv
<1> QED BY <1>1, <1>2, <1>3, <1>4 DEF NewsInv

\* An answer that is saved replaces nothing by None.
LEMMA NewsSaved ==
  ASSUME CursorInv, NewsInv, NEW j \in jobs, SaveVtxos(j)
  PROVE  NewsInv'
<1> DEFINE n == [j EXCEPT !.stage = "saved"]
<1> USE SyncAssumption
<1>1. /\ j.stage = "fetching" /\ jobs' = (jobs \ {j}) \cup {n}
      /\ cache' = [s \in Scripts |-> [v \in Vtxos |->
                    IF v \in DOMAIN j.answer /\ Address(j, Of[v]) = s THEN j.answer[v] ELSE cache[s][v]]]
      /\ UNCHANGED <<ledger, wire, polls, lost>>
  BY DEF SaveVtxos, server, link
<1>2. /\ n.stage = "saved" /\ n.why = j.why /\ n.scripts = j.scripts /\ n.since = j.since
      /\ n.answer = j.answer /\ n.about = j.about
  BY DEF CursorInv, Types, IsJob
<1> HIDE DEF n
<1>3. \A v \in DOMAIN j.answer : j.answer[v] # None
  BY DEF NewsInv, AnswersTell
<1>4. \A s \in Scripts, v \in Vtxos : cache[s][v] # None => cache'[s][v] # None
  BY <1>1, <1>3
<1>5. ReadsStay'
  BY <1>1, <1>4 DEF NewsInv, ReadsStay
<1>6. WireTrue'
  BY <1>1 DEF NewsInv, WireTrue
<1>7. AnswersTell' /\ SameWindow'
  BY <1>1, <1>2, <1>3 DEF NewsInv, AnswersTell, SameWindow
<1>8. ToldIsKept'
  <2> SUFFICES ASSUME NEW k \in jobs', k.why = "vtxo_received", NEW v \in k.about
               PROVE  /\ v \in Vtxos
                      /\ Of[v] \in k.scripts => \/ cache'[Of[v]][v] # None
                                                \/ k.stage = "fetching" /\ v \in DOMAIN k.answer
    BY DEF ToldIsKept
  <2>1. CASE k = n
    <3>1. /\ v \in Vtxos /\ Of[v] \in Scripts /\ Address(j, Of[v]) = Of[v]
          /\ Of[v] \in j.scripts => cache[Of[v]][v] # None \/ v \in DOMAIN j.answer
      BY <2>1, <1>1, <1>2 DEF NewsInv, ToldIsKept, Address
    <3>2. v \in DOMAIN j.answer => cache'[Of[v]][v] = j.answer[v]
      BY <3>1, <1>1
    <3> QED BY <2>1, <3>1, <3>2, <1>2, <1>3, <1>4
  <2>2. CASE k # n
    BY <2>2, <1>1, <1>4 DEF NewsInv, ToldIsKept
  <2> QED BY <2>1, <2>2
<1> QED BY <1>1, <1>5, <1>6, <1>7, <1>8 DEF NewsInv

\* A transaction is told to the stream, and to no request or poll.
LEMMA NewsTransacted ==
  ASSUME CursorInv, NewsInv, NEW ins \in SUBSET Vtxos, NEW outs \in SUBSET Vtxos,
         Transact(ins, outs)
  PROVE  NewsInv'
<1> DEFINE after(j) == [j EXCEPT !.since = @ \cup ins \cup outs]
           scripts == {Of[v] : v \in ins \cup outs}
           told == [new |-> outs, spent |-> ins, scripts |-> subs[loopId] \cap scripts]
<1> USE SyncAssumption
<1>1. /\ ledger' = [v \in Vtxos |-> IF v \in ins THEN "spent"
                                    ELSE IF v \in outs THEN "unspent" ELSE ledger[v]]
      /\ jobs' = {after(j) : j \in jobs}
      /\ wire' = IF phase = "listening" /\ subs[loopId] \cap scripts # {}
                 THEN Append(wire, told) ELSE wire
      /\ UNCHANGED <<cache, polls, lost>>
  BY DEF Transact
<1>2. ASSUME NEW j \in jobs
      PROVE  /\ after(j).stage = j.stage /\ after(j).why = j.why /\ after(j).about = j.about
             /\ after(j).scripts = j.scripts /\ after(j).answer = j.answer
             /\ after(j).since = j.since \cup ins \cup outs
  BY DEF CursorInv, Types, IsJob
<1> HIDE DEF after
<1>3. WireTrue'
  <2>1. \A v \in Vtxos : ledger[v] # None \/ v \in outs => ledger'[v] # None
    BY <1>1 DEF None
  <2>2. wire \in Seq(Updates) /\ \A i \in 1 .. Len(wire) : wire[i] \in Updates
    BY DEF NewsInv, WireTrue
  <2>3. \A i \in 1 .. Len(wire) : \A v \in wire[i].new : ledger'[v] # None
    BY <2>1, <2>2 DEF NewsInv, WireTrue, Updates
  <2>4. CASE wire' = wire
    BY <2>2, <2>3, <2>4 DEF WireTrue
  <2>5. CASE wire' = Append(wire, told)
    <3>1. told \in Updates
      BY DEF Updates
    <3> HIDE DEF told
    <3>2. wire' \in Seq(Updates) /\ Len(wire') = Len(wire) + 1
      BY <2>2, <2>5, <3>1
    <3>3. \A i \in 1 .. Len(wire') :
             IF i = Len(wire) + 1 THEN wire'[i] = told ELSE i \in 1 .. Len(wire) /\ wire'[i] = wire[i]
      BY <2>2, <2>5, <3>1, <3>2
    <3>4. told.new = outs
      BY DEF told
    <3> QED BY <2>1, <2>3, <3>2, <3>3, <3>4 DEF WireTrue
  <2> QED BY <1>1, <2>4, <2>5
<1>4. ReadsStay'
  BY <1>1 DEF NewsInv, ReadsStay
<1>5. AnswersTell'
  BY <1>1, <1>2 DEF NewsInv, AnswersTell
<1>6. SameWindow'
  <2> SUFFICES ASSUME NEW i \in jobs, NEW j \in jobs PROVE after(i).since = after(j).since
    BY <1>1 DEF SameWindow
  <2> QED BY <1>2 DEF NewsInv, SameWindow
<1>7. ToldIsKept'
  <2> SUFFICES ASSUME NEW j \in jobs, j.why = "vtxo_received", NEW v \in j.about
               PROVE  /\ v \in Vtxos
                      /\ Of[v] \in j.scripts => \/ cache[Of[v]][v] # None
                                                \/ j.stage = "fetching" /\ v \in DOMAIN j.answer
    BY <1>1, <1>2 DEF ToldIsKept
  <2> QED BY DEF NewsInv, ToldIsKept
<1> QED BY <1>1, <1>3, <1>4, <1>5, <1>6, <1>7 DEF NewsInv

\* Requests, polls and updates of the subscription lose a request or none.
LEMMA UpdatesLose ==
  ASSUME NEW by, NEW want
  PROVE  /\ UpdateSubscription(by, want) => LostMoves
         /\ \A id, again, others : Subscribe(by, want, id, again, others) => LostMoves
BY DEF UpdateSubscription, Subscribe, MayLose, LostMoves

\* Requests may end.
LEMMA NoneTells ==
  ASSUME jobs' \subseteq jobs
  PROVE  JobsMove
<1> DEFINE N == {}
<1>1. jobs' \subseteq jobs \cup N /\ \A n \in N : Tells(n)
  OBVIOUS
<1> HIDE DEF N
<1> QED BY <1>1 DEF JobsMove

\* One request begins, and one may end.
LEMMA OneTells ==
  ASSUME NEW why, NEW S, NEW about, why # "vtxo_received",
         jobs' \subseteq jobs \cup {Job(why, S, about)}
  PROVE  JobsMove
<1>1. Tells(Job(why, S, about))
  BY DEF Tells
<1> DEFINE N == {Job(why, S, about)}
<1>2. jobs' \subseteq jobs \cup N /\ \A n \in N : Tells(n)
  BY <1>1
<1> HIDE DEF N
<1> QED BY <1>2 DEF JobsMove

\* A poll reads, or none.
LEMMA OneReads ==
  ASSUME NEW by, NEW S, polls' \subseteq polls \cup {PollRead(by, S)}
  PROVE  PollsMove
BY DEF PollsMove

\* Events tell of VTXOs that exist.
LEMMA EventsTell ==
  ASSUME NEW events, Emit(events),
         \A e \in events : e.type = "vtxo_received" =>
            \A v \in e.vtxos : v \in Vtxos /\ (Of[v] = e.script => ledger[v] # None \/ cache[Of[v]][v] # None)
  PROVE  JobsMove
<1>1. CASE jobs' = jobs
  BY <1>1, NoneTells
<1>2. CASE jobs' # jobs
  <2>1. PICK S : jobs' = jobs \cup ({Job(e.type, {e.script}, e.vtxos) : e \in events}
                                    \cup {Job("contract_expired", {s}, {}) : s \in S})
    BY <1>2 DEF Emit
  <2> DEFINE N == {Job(e.type, {e.script}, e.vtxos) : e \in events}
                  \cup {Job("contract_expired", {s}, {}) : s \in S}
  <2>2. \A n \in N : Tells(n)
    <3>1. ASSUME NEW e \in events PROVE Tells(Job(e.type, {e.script}, e.vtxos))
      BY DEF Tells
    <3>2. ASSUME NEW s \in S PROVE Tells(Job("contract_expired", {s}, {}))
      BY DEF Tells
    <3> QED BY <3>1, <3>2
  <2> HIDE DEF N
  <2> QED BY <2>1, <2>2 DEF JobsMove, N
<1> QED BY <1>1, <1>2

\* An event tells of what has changed for its script.
LEMMA ChangesOf ==
  ASSUME NEW type, NEW change, NEW e \in Changes(type, change)
  PROVE  e.type = type /\ e.script \in DOMAIN change /\ e.vtxos = change[e.script]
BY DEF Changes, Event

\* What a poll finds new was read in the repository.
LEMMA PollTells ==
  ASSUME NewsInv, NEW p \in polls, PollContracts(p)
  PROVE  JobsMove
<1> DEFINE new == [s \in p.scripts |-> p.read[s] \ known[s]]
           gone == [s \in p.scripts |-> known[s] \ p.read[s]]
           events == Changes("vtxo_received", new) \cup Changes("vtxo_spent", gone)
<1> USE SyncAssumption
<1>1. Emit(events)
  BY DEF PollContracts
<1>2. ASSUME NEW e \in events, e.type = "vtxo_received", NEW v \in e.vtxos
      PROVE  v \in Vtxos /\ (Of[v] = e.script => ledger[v] # None \/ cache[Of[v]][v] # None)
  <2>1. e \in Changes("vtxo_received", new) \/ e \in Changes("vtxo_spent", gone)
    OBVIOUS
  <2> HIDE DEF new, gone
  <2>2. e \in Changes("vtxo_received", new)
    BY <1>2, <2>1, ChangesOf
  <2>3. e.script \in DOMAIN new /\ v \in new[e.script]
    BY <2>2, ChangesOf
  <2>4. e.script \in p.scripts /\ v \in p.read[e.script]
    BY <2>3 DEF new
  <2> QED BY <2>4 DEF NewsInv, ReadsStay
<1> HIDE DEF events
<1> QED BY <1>1, <1>2, EventsTell

\* What an update tells of is at the indexer.
LEMMA UpdateTells ==
  ASSUME NewsInv, HandleSubscriptionUpdate
  PROVE  JobsMove
<1> DEFINE u == Head(wire)
           events == Changes("vtxo_received", [s \in u.scripts |-> u.new])
                     \cup Changes("vtxo_spent", [s \in u.scripts |-> u.spent])
<1>1. Emit(events)
  BY DEF HandleSubscriptionUpdate
<1>2. u \in Updates /\ \A v \in u.new : ledger[v] # None
  <2>1. wire \in Seq(Updates) /\ wire # <<>>
    BY DEF HandleSubscriptionUpdate, NewsInv, WireTrue
  <2>2. 1 \in 1 .. Len(wire) /\ u = wire[1]
    BY <2>1
  <2> QED BY <2>1, <2>2 DEF NewsInv, WireTrue
<1> HIDE DEF u
<1>3. ASSUME NEW e \in events, e.type = "vtxo_received", NEW v \in e.vtxos
      PROVE  v \in Vtxos /\ (Of[v] = e.script => ledger[v] # None \/ cache[Of[v]][v] # None)
  <2>1. \/ e \in Changes("vtxo_received", [s \in u.scripts |-> u.new])
        \/ e \in Changes("vtxo_spent", [s \in u.scripts |-> u.spent])
    OBVIOUS
  <2>2. v \in u.new
    BY <1>3, <2>1, ChangesOf
  <2> QED BY <2>2, <1>2 DEF Updates
<1> HIDE DEF events
<1> QED BY <1>1, <1>3, EventsTell

\* Every step that changes a VTXO is one of two.
LEMMA NewsStep ==
  CursorInv /\ NewsInv /\ [Next]_vars => NewsInv'
<1> SUFFICES ASSUME CursorInv, NewsInv, [Next]_vars PROVE NewsInv'
  OBVIOUS
<1> DEFINE Still == UNCHANGED <<ledger, cache>>
<1>1. polls' \subseteq polls => PollsMove
  BY OneReads
<1>2. ASSUME Still, LostMoves, WireMoves, polls' \subseteq polls, jobs' \subseteq jobs PROVE NewsInv'
  BY <1>1, <1>2, NoneTells, NewsMove
<1>3. ASSUME Reset PROVE JobsMove /\ WireMoves
  BY <1>3, OneTells, NoneTells DEF Reset, ResetJobs, WireMoves
<1>4. CASE World
  <2>1. ASSUME NEW ins \in SUBSET Vtxos, NEW outs \in SUBSET Vtxos, Transact(ins, outs)
        PROVE  NewsInv'
    BY <2>1, NewsTransacted
  <2>2. ASSUME NEW i \in Ids, Forget(i) PROVE NewsInv'
    BY <2>2, <1>2 DEF Forget, repo, link, MayLose, LostMoves, WireMoves
  <2>3. ASSUME NEW j \in jobs, JobFails(j) PROVE NewsInv'
    BY <2>3, <1>2 DEF JobFails, Finish, server, repo, link, MayLose, LostMoves, WireMoves
  <2> QED BY <1>4, <2>1, <2>2, <2>3 DEF World
<1>5. CASE Program
  <2>1. ASSUME NEW why, NEW S, why # "vtxo_received", jobs' = jobs \cup {Job(why, S, {})},
               Still, UNCHANGED <<wire, polls, lost>>
        PROVE  NewsInv'
    BY <2>1, <1>1, OneTells, NewsMove DEF LostMoves, WireMoves
  <2>2. CASE Create
    BY <2>1, <2>2 DEF Create, server, repo, link
  <2>3. CASE SyncVtxos
    BY <2>1, <2>3 DEF SyncVtxos, server, repo, link
  <2>4. CASE GetContractsWithVtxos
    BY <2>1, <2>4 DEF GetContractsWithVtxos, server, repo, link
  <2>5. CASE Dispose
    BY <1>2, <2>5 DEF Dispose, repo, LostMoves, WireMoves
  <2>6. ASSUME NEW S, RefreshVtxos(S) PROVE NewsInv'
    BY <2>1, <2>6 DEF RefreshVtxos, server, link
  <2>7. ASSUME NEW s, CreateContract(s) PROVE NewsInv'
    BY <2>1, <2>7 DEF CreateContract, server, link
  <2>8. ASSUME NEW s, NEW to, SetContractState(s, to) \/ DeleteContract(s) PROVE NewsInv'
    BY <1>2, <2>8 DEF SetContractState, DeleteContract, server, link, LostMoves, WireMoves
  <2> QED BY <1>5, <2>2, <2>3, <2>4, <2>5, <2>6, <2>7, <2>8 DEF Program
<1>6. CASE JobStep
  <2> SUFFICES ASSUME NEW j \in jobs,
                      \/ SaveVtxos(j) \/ HandledContractEvent(j) \/ ContractExpired(j)
                      \/ WalletSynced(j) \/ Returned(j) \/ InitSynced(j) \/ Initialized(j)
                      \/ AddContract(j)
               PROVE  NewsInv'
    BY <1>6 DEF JobStep
  <2>1. CASE SaveVtxos(j)
    BY <2>1, NewsSaved
  <2>2. CASE HandledContractEvent(j) \/ WalletSynced(j) \/ Returned(j) \/ ContractExpired(j)
    BY <2>2, <1>2 DEF HandledContractEvent, WalletSynced, Returned, ContractExpired, Finish,
                      server, link, LostMoves, WireMoves
  <2>3. CASE InitSynced(j)
    <3>1. jobs' \subseteq jobs \cup {Job("frontier", j.scripts, {})}
      BY <2>3 DEF InitSynced, Finish
    <3>2. JobsMove
      BY <3>1, OneTells
    <3> QED BY <2>3, <3>2, <1>1, NewsMove DEF InitSynced, server, link, LostMoves, WireMoves
  <2>4. CASE Initialized(j)
    <3>1. LostMoves
      BY <2>4, UpdatesLose DEF Initialized
    <3> QED BY <2>4, <3>1, <1>2 DEF Initialized, Finish, WireMoves
  <2>5. CASE AddContract(j)
    <3>1. PollsMove
      BY <2>5, <1>1, OneReads DEF AddContract
    <3>2. JobsMove
      BY <2>5, NoneTells DEF AddContract, Finish
    <3> QED BY <2>5, <3>1, <3>2, NewsMove DEF AddContract, server, link, LostMoves, WireMoves
  <2> QED BY <2>1, <2>2, <2>3, <2>4, <2>5
<1>7. ASSUME NEW b, UpdateStep(b) PROVE NewsInv'
  <2> SUFFICES ASSUME NEW u, \/ Connected(u) \/ CallSubscribed(u) \/ StaleId(u)
                             \/ ConnectFailed(u) \/ CallNotSubscribed(u)
               PROVE  NewsInv'
    BY <1>7 DEF UpdateStep
  <2>1. CASE Connected(u)
    <3>1. PollsMove /\ WireMoves
      BY <2>1, <1>1, OneReads DEF Connected, Listen, WireMoves
    <3> QED BY <2>1, <3>1, NoneTells, NewsMove DEF Connected, server, repo, LostMoves
  <2>2. CASE CallSubscribed(u) \/ CallNotSubscribed(u)
    BY <2>2, <1>2 DEF CallSubscribed, CallNotSubscribed, server, repo, link, LostMoves, WireMoves
  <2>3. CASE StaleId(u)
    <3>1. LostMoves
      BY <2>3, UpdatesLose DEF StaleId
    <3> QED BY <2>3, <3>1, <1>2 DEF StaleId, repo, WireMoves
  <2>4. CASE ConnectFailed(u)
    BY <2>4, <1>1, <1>3, NewsMove DEF ConnectFailed, server, repo, LostMoves
  <2> QED BY <2>1, <2>2, <2>3, <2>4
<1>8. ASSUME NEW b, PollStep(b) PROVE NewsInv'
  <2> SUFFICES ASSUME NEW p \in polls, TimerPolled(p) \/ ConnectPolled(p) \/ AddPolled(p)
               PROVE  NewsInv'
    BY <1>8 DEF PollStep
  <2>1. PollContracts(p) /\ polls' \subseteq polls /\ Still
    BY DEF TimerPolled, ConnectPolled, AddPolled, server, repo
  <2>2. LostMoves
    BY UpdatesLose DEF TimerPolled, ConnectPolled, AddPolled, LostMoves
  <2>3. WireMoves
    BY DEF TimerPolled, ConnectPolled, AddPolled, Listen, link, WireMoves
  <2> QED BY <2>1, <2>2, <2>3, <1>1, PollTells, NewsMove
<1>9. CASE StreamStep
  <2>1. CASE HandleSubscriptionUpdate
    <3>1. Still /\ LostMoves /\ WireMoves /\ polls' \subseteq polls
      BY <2>1 DEF HandleSubscriptionUpdate, server, repo, LostMoves, WireMoves
    <3> QED BY <2>1, <3>1, <1>1, UpdateTells, NewsMove
  <2>2. CASE StreamFails
    <3>1. LostMoves
      BY <2>2 DEF StreamFails, MayEnd, MayLose, LostMoves
    <3> QED BY <2>2, <3>1, <1>1, <1>3, NewsMove DEF StreamFails, server, repo
  <2>3. CASE StreamEnds
    <3>1. LostMoves
      BY <2>3 DEF StreamEnds, MayEnd, MayLose, LostMoves
    <3> QED BY <2>3, <3>1, <1>2 DEF StreamEnds, server, repo, WireMoves
  <2> QED BY <1>9, <2>1, <2>2, <2>3 DEF StreamStep
<1>10. CASE CallStep
  <2> SUFFICES ASSUME NEW s, UpdateContract(s) PROVE NewsInv'
    BY <1>10 DEF CallStep
  <2>1. LostMoves
    BY UpdatesLose DEF UpdateContract, LostMoves
  <2> QED BY <2>1, <1>2 DEF UpdateContract, repo, link, WireMoves
<1>11. CASE FailsafePoll
  BY <1>11, OneReads, NoneTells, NewsMove
     DEF FailsafePoll, server, repo, link, LostMoves, WireMoves
<1>12. CASE Reconnect
  <2>1. LostMoves
    BY <1>12, UpdatesLose DEF Reconnect
  <2> QED BY <1>12, <2>1, <1>2 DEF Reconnect, repo, WireMoves
<1>13. CASE Stopped \/ UNCHANGED vars
  BY <1>13, <1>2 DEF Stopped, vars, server, repo, link, LostMoves, WireMoves
<1> QED BY <1>4, <1>5, <1>6, <1>7, <1>8, <1>9, <1>10, <1>11, <1>12, <1>13 DEF Next

\* At first nothing is under way.
LEMMA NewsInit == Init => NewsInv
BY SyncAssumption
   DEF Init, NewsInv, WireTrue, ReadsStay, AnswersTell, SameWindow, ToldIsKept

\* A transaction ends no request: each goes on, with a longer window.
LEMMA NoneEndsByTransaction ==
  ASSUME CursorInv, NewsInv, NEW ins, NEW outs, Transact(ins, outs)
  PROVE  Ended("vtxo_received") = {}
<1> DEFINE after(j) == [j EXCEPT !.since = @ \cup ins \cup outs]
<1> SUFFICES ASSUME NEW j \in Ended("vtxo_received") PROVE FALSE
  OBVIOUS
<1>1. j \in jobs /\ j \notin jobs' /\ j.why = "vtxo_received"
      /\ \A k \in jobs' \ jobs : k.why # "vtxo_received"
  BY DEF Ended
<1>2. after(j) \in jobs' /\ IsJob(j)
  BY <1>1 DEF Transact, CursorInv, Types
<1>3. after(j).why = j.why /\ after(j) = [j EXCEPT !.since = after(j).since]
  BY <1>2 DEF IsJob
<1>4. after(j) \in jobs
  BY <1>1, <1>2, <1>3
<1>5. after(j).since = j.since
  BY <1>1, <1>4 DEF NewsInv, SameWindow
<1> HIDE DEF after
<1>6. after(j) = j
  BY <1>2, <1>3, <1>5 DEF IsJob
<1> QED BY <1>1, <1>2, <1>6

\* The step in which a request for an event comes to its end.
LEMMA NotifiedStep ==
  ASSUME CursorInv, NewsInv, [Next]_vars,
         NEW j \in Ended("vtxo_received"), NEW v \in j.about, Of[v] \in j.scripts
  PROVE  cache'[Of[v]][v] # None
<1>1. /\ j \in jobs /\ j \notin jobs' /\ j.why = "vtxo_received" /\ lost' = lost
      /\ \A k \in jobs' \ jobs : k.why # "vtxo_received"
  BY DEF Ended
<1>2. /\ v \in Vtxos
      /\ cache[Of[v]][v] # None \/ (j.stage = "fetching" /\ v \in DOMAIN j.answer)
  BY <1>1 DEF NewsInv, ToldIsKept
<1>3. CASE World
  <2>1. CASE \E ins, outs \in SUBSET Vtxos : Transact(ins, outs)
    BY <2>1, NoneEndsByTransaction
  <2>2. ASSUME NEW i \in Ids, Forget(i) PROVE FALSE
    BY <1>1, <2>2 DEF Forget
  <2>3. ASSUME NEW k \in jobs, JobFails(k) PROVE FALSE
    BY <1>1, <2>3 DEF JobFails, MayLose, NewsInv
  <2> QED BY <1>3, <2>1, <2>2, <2>3 DEF World
<1>4. CASE JobStep
  <2> SUFFICES ASSUME NEW k \in jobs,
                      \/ SaveVtxos(k) \/ HandledContractEvent(k) \/ ContractExpired(k)
                      \/ WalletSynced(k) \/ Returned(k) \/ InitSynced(k) \/ Initialized(k)
                      \/ AddContract(k)
               PROVE  cache'[Of[v]][v] # None
    BY <1>4 DEF JobStep
  <2>1. k = j
    BY <1>1 DEF SaveVtxos, HandledContractEvent, ContractExpired, WalletSynced, Returned,
                InitSynced, Initialized, AddContract, Finish
  <2>2. CASE HandledContractEvent(k)
    BY <1>2, <2>1, <2>2 DEF HandledContractEvent
  <2>3. CASE SaveVtxos(k)
    \* Its successor has been under way before, or is a new request for the same event.
    <3> DEFINE n == [j EXCEPT !.stage = "saved"]
    <3>1. /\ n.why = "vtxo_received" /\ n.stage = "saved" /\ n.about = j.about
          /\ n.scripts = j.scripts
      BY <1>1 DEF CursorInv, Types, IsJob
    <3>2. n \in jobs'
      BY <2>1, <2>3 DEF SaveVtxos
    <3>3. n \in jobs
      BY <1>1, <3>1, <3>2
    <3> HIDE DEF n
    <3>4. cache[Of[v]][v] # None
      BY <3>1, <3>3 DEF NewsInv, ToldIsKept
    <3>5. v \in DOMAIN j.answer => j.answer[v] # None
      BY <1>1 DEF NewsInv, AnswersTell
    <3>6. Of[v] \in Scripts
      BY <1>2, SyncAssumption
    <3> QED BY <1>2, <2>1, <2>3, <3>4, <3>5, <3>6 DEF SaveVtxos
  <2> QED BY <1>1, <2>1, <2>2, <2>3
          DEF ContractExpired, WalletSynced, Returned, InitSynced, Initialized, AddContract
<1>5. CASE Program
  BY <1>1, <1>5 DEF Program, Create, SyncVtxos, GetContractsWithVtxos, Dispose, RefreshVtxos,
                    CreateContract, DeleteContract, SetContractState
<1>6. ASSUME NEW b, UpdateStep(b) \/ PollStep(b) PROVE FALSE
  BY <1>1, <1>6 DEF UpdateStep, PollStep, Connected, CallSubscribed, StaleId, ConnectFailed,
                    CallNotSubscribed, TimerPolled, ConnectPolled, AddPolled, PollContracts,
                    Emit, Reset
<1>7. CASE StreamStep
  BY <1>1, <1>7 DEF StreamStep, HandleSubscriptionUpdate, StreamFails, StreamEnds, Emit, Reset
<1>8. CASE CallStep \/ FailsafePoll \/ Reconnect \/ Stopped \/ UNCHANGED vars
  BY <1>1, <1>8 DEF CallStep, UpdateContract, FailsafePoll, Reconnect, Stopped, vars
<1> QED BY <1>3, <1>4, <1>5, <1>6, <1>7, <1>8 DEF Next

\* A listener that is told of a VTXO finds it in the repository, for any number of
\* scripts, VTXOs, requests, polls, updates and failures, however late the event is
\* handled, where the wallet synchronises one script only (see CursorsCover).
THEOREM ToldIsCached ==
  ASSUME WalletScripts \subseteq {Mine}
  PROVE  Spec => NotifiedIsCached
<1>1. CursorInv /\ [Next]_vars => CursorInv'
  BY CursorStep
<1>2. CursorInv /\ NewsInv /\ [Next]_vars =>
        [\A j \in Ended("vtxo_received") : \A v \in j.about :
           Of[v] \in j.scripts => cache'[Of[v]][v] # None]_vars
  BY NotifiedStep
<1> QED BY CursorInit, NewsInit, <1>1, NewsStep, <1>2, PTL DEF Spec, NotifiedIsCached
=============================================================================
