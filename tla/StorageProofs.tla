--------------------------- MODULE StorageProofs ---------------------------
(***************************************************************************)
(* Theorems about Storage, for any stores, requests, contents, calls under   *)
(* way, failures, ends of the process and disposals.                         *)
(***************************************************************************)
EXTENDS Storage, FiniteSetTheorems, TLAPS

-----------------------------------------------------------------------------
(* Queries.  Every content of a table is answered alike by the four stores.  *)

\* Each store narrows by an index first, or not at all, and then filters.
LEMMA ContractsAgree ==
  ASSUME NEW rows, NEW f, Listless(f)
  PROVE  {MemoryContracts(rows, f), IndexedDBContracts(rows, f), SQLiteContracts(rows, f),
          RealmContracts(rows, f)} = {{r \in rows : Matches(f, r)}}
<1>1. MemoryContracts(rows, f) = {r \in rows : Matches(f, r)}
  BY DEF MemoryContracts
<1>2. IndexedDBContracts(rows, f) = {r \in rows : Matches(f, r)}
  <2>1. CASE f.ids # None
    BY <2>1 DEF IndexedDBContracts, Matches, Has
  <2>2. CASE f.ids = None /\ f.states # None
    BY <2>2 DEF IndexedDBContracts, Matches, Has
  <2>3. CASE f.ids = None /\ f.states = None /\ f.kinds # None
    BY <2>3 DEF IndexedDBContracts, Matches, Has
  <2>4. CASE f.ids = None /\ f.states = None /\ f.kinds = None
    BY <2>4 DEF IndexedDBContracts
  <2> QED BY <2>1, <2>2, <2>3, <2>4
<1>3. /\ Condition(f.ids) = f.ids /\ Condition(f.states) = f.states
      /\ Condition(f.kinds) = f.kinds
  BY DEF Listless, Condition
<1>4. /\ SQLiteContracts(rows, f) = {r \in rows : Matches(f, r)}
      /\ RealmContracts(rows, f) = {r \in rows : Matches(f, r)}
  BY <1>3 DEF SQLiteContracts, RealmContracts, Matches
<1> QED BY <1>1, <1>2, <1>4

LEMMA SwapsAgree ==
  ASSUME NEW rows, NEW f, f.order \in {None, "asc", "desc"}
  PROVE  {MemorySwaps(rows, f), IndexedDBSwaps(rows, f), SQLiteSwaps(rows, f), RealmSwaps(rows, f)}
           = {[rows |-> {r \in rows : Matches(f, r)}, order |-> f.order]}
<1>1. \A default : Sorted(f, default) = f.order
  BY ConstantsAssumption DEF Sorted
<1>2. MemorySwaps(rows, f) = [rows |-> {r \in rows : Matches(f, r)}, order |-> f.order]
  BY <1>1 DEF MemorySwaps
<1>3. IndexedDBSwaps(rows, f) = [rows |-> {r \in rows : Matches(f, r)}, order |-> f.order]
  <2> DEFINE found == CASE f.ids # None -> {r \in rows : r.id \in f.ids}
                 [] f.ids = None /\ f.kinds # None -> UNION {{r \in rows : KindOf[r.id] = k} : k \in f.kinds}
                 [] f.ids = None /\ f.kinds = None /\ f.states # None ->
                      UNION {{r \in rows : r.val = s} : s \in f.states}
                 [] OTHER -> rows
  <2>1. {r \in found : Matches(f, r)} = {r \in rows : Matches(f, r)}
    <3>1. CASE f.ids # None
      BY <3>1 DEF Matches, Has
    <3>2. CASE f.ids = None /\ f.kinds # None
      BY <3>2 DEF Matches, Has
    <3>3. CASE f.ids = None /\ f.kinds = None /\ f.states # None
      BY <3>3 DEF Matches, Has
    <3>4. CASE f.ids = None /\ f.kinds = None /\ f.states = None
      BY <3>4
    <3> QED BY <3>1, <3>2, <3>3, <3>4
  <2> HIDE DEF found
  <2>2. IndexedDBSwaps(rows, f) = [rows |-> {r \in found : Matches(f, r)},
                                   order |-> Sorted(f, IF Fields(f) = {} THEN "asc" ELSE "desc")]
    BY DEF IndexedDBSwaps, found
  <2> QED BY <1>1, <2>1, <2>2
<1>4. (IF Listless(f) THEN {r \in rows : Matches(f, r)} ELSE {}) = {r \in rows : Matches(f, r)}
  <2>1. CASE Listless(f)
    BY <2>1
  <2>2. CASE ~Listless(f)
    <3>1. \A r : ~Matches(f, r)
      BY <2>2, ConstantsAssumption DEF Listless, Matches, Has
    <3> QED BY <2>2, <3>1
  <2> QED BY <2>1, <2>2
<1>5. /\ SQLiteSwaps(rows, f) = [rows |-> {r \in rows : Matches(f, r)}, order |-> f.order]
      /\ RealmSwaps(rows, f) = [rows |-> {r \in rows : Matches(f, r)}, order |-> f.order]
  BY <1>1, <1>4 DEF SQLiteSwaps, RealmSwaps
<1> QED BY <1>2, <1>3, <1>5

\* A query without empty lists, or of swaps with a direction, is answered alike by
\* the four stores, whatever they hold. (getContracts, getAllSwaps)
THEOREM QueriesAgree == Spec => []AnswersAgree
<1>1. AnswersAgree
  <2>1. \A f \in ContractQueries : Listless(f) =>
          LET rows == disk["contracts"]  right == {r \in rows : Matches(f, r)}
          IN  {MemoryContracts(rows, f), IndexedDBContracts(rows, f), SQLiteContracts(rows, f),
               RealmContracts(rows, f)} = {right}
    BY ContractsAgree
  <2>2. \A f \in SwapQueries :
          LET rows == disk["swaps"]  right == [rows |-> {r \in rows : Matches(f, r)}, order |-> f.order]
          IN  {MemorySwaps(rows, f), IndexedDBSwaps(rows, f), SQLiteSwaps(rows, f),
               RealmSwaps(rows, f)} = {right}
    <3>1. \A f \in SwapQueries : f.order \in {None, "asc", "desc"}
      BY DEF SwapQueries
    <3> QED BY <3>1, SwapsAgree
  <2> QED BY <2>1, <2>2 DEF AnswersAgree
<1> QED BY <1>1, PTL

-----------------------------------------------------------------------------
(* Types: the connection each repository has, and the calls under way.       *)

IsCall(c) == /\ c = [req |-> c.req, stage |-> c.stage, conn |-> c.conn, left |-> c.left]
             /\ c.stage \in {"opening", "running", "committing"}
             /\ c.req.table \in Tables

Outcomes == {[stage |-> "ok"], [stage |-> "failed"]}

Disposals == [repo : Repos, closes : {None} \cup Connections, number : Nat]
Entries == [conn : {None} \cup Connections, users : Nat]

Typed ==
  /\ backend \in {"indexedDB", "sqlite", "realm", "memory"}
  /\ calls = [s \in Slots |-> calls[s]]
  /\ \A s \in Slots : calls[s] \in {None} \cup Outcomes \/ IsCall(calls[s])
  /\ backend = "indexedDB" => \A s \in Slots : Stage(s) = "opening" => calls[s].conn \in Connections
  /\ handle \in [Repos -> {None} \cup Connections]
  /\ disposing \subseteq Disposals
  /\ db \in [Databases -> Entries]
  /\ opening \subseteq Connections
  /\ disposals \in Nat /\ fails \in Nat
  /\ backend # "indexedDB" =>
       /\ uncommitted = {} /\ opening = {}
       /\ \A r \in Repos : handle[r] = None

\* The calls that await a database, and the repositories that hold it.
Awaiting(d) == {s \in Slots : Stage(s) = "opening" /\ DatabaseOf(RepoOf(calls[s].req.table)) = d}
Holding(d) == {r \in Repos : handle[r] # None /\ ~BeingDisposed(r) /\ DatabaseOf(r) = d}

-----------------------------------------------------------------------------
LEMMA Repositories ==
  /\ \A t : RepoOf(t) \in Repos
  /\ \A r : DatabaseOf(r) \in Databases
BY DEF RepoOf, Repos, DatabaseOf, Databases

LEMMA SlotsFinite == IsFiniteSet(Slots)
<1>1. Groups = {<<l.table, l.row.address>> : l \in Legacy}
  BY DEF Groups
<1> DEFINE f == [l \in Legacy |-> <<l.table, l.row.address>>]
<1>2. f \in Surjection(Legacy, Groups)
  BY <1>1 DEF Surjection
<1>3. IsFiniteSet(Groups)
  BY <1>2, ConstantsAssumption, FS_Surjection
<1> QED BY <1>3, ConstantsAssumption, FS_Union DEF Slots

\* A call that is entered, and one that ends.
LEMMA CallEntered ==
  ASSUME NEW q, NEW stage \in {"opening", "running"}, NEW conn, q.table \in Tables
  PROVE  IsCall(At(q, stage, conn)) /\ At(q, stage, conn).stage = stage /\ At(q, stage, conn).req = q
         /\ At(q, stage, conn).left = Steps(q) /\ At(q, stage, conn).conn = conn
BY DEF IsCall, At

LEMMA CallEnded ==
  ASSUME NEW s, NEW ok \in BOOLEAN
  PROVE  EndOf(s, ok) \in {None} \cup Outcomes
BY DEF EndOf, Outcomes

\* One with other steps left, and one that goes on.
LEMMA CallHasLeft ==
  ASSUME NEW c, IsCall(c), NEW left
  PROVE  [c EXCEPT !.left = left] = [req |-> c.req, stage |-> c.stage, conn |-> c.conn, left |-> left]
<1>1. PICK q, st, cn, l : c = [req |-> q, stage |-> st, conn |-> cn, left |-> l]
  BY DEF IsCall
<1>2. c.req = q /\ c.stage = st /\ c.conn = cn
  BY <1>1
<1> QED BY <1>1, <1>2

LEMMA CallGoesOn ==
  ASSUME NEW c, IsCall(c), NEW stage \in {"running", "committing"}, NEW conn, NEW left
  PROVE  /\ [c EXCEPT !.left = left] = [req |-> c.req, stage |-> c.stage, conn |-> c.conn, left |-> left]
         /\ [c EXCEPT !.stage = stage] = [req |-> c.req, stage |-> stage, conn |-> c.conn, left |-> c.left]
         /\ [c EXCEPT !.stage = stage, !.conn = conn]
              = [req |-> c.req, stage |-> stage, conn |-> conn, left |-> c.left]
         /\ [c EXCEPT !.left = left, !.stage = stage]
              = [req |-> c.req, stage |-> stage, conn |-> c.conn, left |-> left]
<1>1. PICK q, st, cn, l : c = [req |-> q, stage |-> st, conn |-> cn, left |-> l]
  BY DEF IsCall
<1>2. c.req = q /\ c.stage = st /\ c.conn = cn /\ c.left = l
  BY <1>1
<1>3. [c EXCEPT !.left = left] = [req |-> q, stage |-> st, conn |-> cn, left |-> left]
  BY <1>1
<1>4. [c EXCEPT !.stage = stage] = [req |-> q, stage |-> stage, conn |-> cn, left |-> l]
  BY <1>1
<1>5. [c EXCEPT !.stage = stage, !.conn = conn]
        = [req |-> q, stage |-> stage, conn |-> conn, left |-> l]
  <2>1. [c EXCEPT !.stage = stage, !.conn = conn] = [[c EXCEPT !.stage = stage] EXCEPT !.conn = conn]
    OBVIOUS
  <2>2. [[req |-> q, stage |-> stage, conn |-> cn, left |-> l] EXCEPT !.conn = conn]
          = [req |-> q, stage |-> stage, conn |-> conn, left |-> l]
    OBVIOUS
  <2> QED BY <1>4, <2>1, <2>2, Zenon
<1>6. [c EXCEPT !.left = left, !.stage = stage]
        = [req |-> q, stage |-> stage, conn |-> cn, left |-> left]
  <2>1. [c EXCEPT !.left = left, !.stage = stage] = [[c EXCEPT !.left = left] EXCEPT !.stage = stage]
    OBVIOUS
  <2>2. [[req |-> q, stage |-> st, conn |-> cn, left |-> left] EXCEPT !.stage = stage]
          = [req |-> q, stage |-> stage, conn |-> cn, left |-> left]
    OBVIOUS
  <2> QED BY <1>3, <2>1, <2>2, Zenon
<1> QED BY <1>2, <1>3, <1>4, <1>5, <1>6

LEMMA StageIs ==
  \A c, q, stage, conn, left :
    c = [req |-> q, stage |-> stage, conn |-> conn, left |-> left] =>
      c.req = q /\ c.stage = stage /\ c.left = left
OBVIOUS

\* A slot whose call has not ended holds one.
LEMMA StageOfCall ==
  ASSUME Typed, NEW s \in Slots, Stage(s) \in {"opening", "running", "committing"}
  PROVE  IsCall(calls[s]) /\ calls[s].stage = Stage(s) /\ calls[s].req.table \in Tables
BY DEF Typed, Stage, Outcomes, IsCall

\* It waits for its commit.
Late(s) == backend = "indexedDB" /\ ~ResolvesEarly(calls[s].req)

\* What becomes of the call of a slot.
Entered(s) ==
  /\ calls[s] = None /\ (Ask(s) \/ (s \in Groups /\ SaveLegacy(s)))
  /\ \E q, conn : \E stage \in {"opening", "running"} :
       q.table \in Tables /\ calls'[s] = At(q, stage, conn)
       /\ (stage = "opening" => /\ handle[RepoOf(q.table)] = None
                                /\ backend = "indexedDB" => conn \in Connections)

Resumed(s) ==
  /\ IsCall(calls[s]) /\ Stage(s) = "opening"
  /\ \E conn : calls'[s] = [req |-> calls[s].req, stage |-> "running", conn |-> conn, left |-> calls[s].left]

WentOn(s) ==
  /\ IsCall(calls[s]) /\ Stage(s) = "running"
  /\ \E left : \E stage \in {"running", "committing"} :
       /\ calls'[s] = [req |-> calls[s].req, stage |-> stage, conn |-> calls[s].conn, left |-> left]
       /\ Late(s) /\ Len(calls[s].left) = 1 => stage = "committing"

Ended(s) == calls'[s] \in {None} \cup Outcomes

CallsFollow ==
  /\ calls' = [s \in Slots |-> calls'[s]]
  /\ \A s \in Slots : calls'[s] = calls[s] \/ Entered(s) \/ Resumed(s) \/ WentOn(s) \/ Ended(s)

LEMMA EntersWhat ==
  ASSUME NEW s, Ask(s) \/ (s \in Groups /\ SaveLegacy(s))
  PROVE  \E q : q.table \in Tables /\ Enter(s, q) /\ s \in Slots
<1>1. CASE Ask(s)
  <2>1. PICK q \in Requests : Enter(s, q)
    BY <1>1 DEF Ask
  <2> QED BY <1>1, <2>1, ConstantsAssumption DEF Ask, Slots
<1>2. CASE s \in Groups /\ SaveLegacy(s)
  <2>1. PICK l \in Legacy : s = <<l.table, l.row.address>>
    BY <1>2 DEF Groups
  <2>2. Copy(s).table = l.table
    BY <2>1 DEF Copy
  <2> QED BY <1>2, <2>2, ConstantsAssumption DEF SaveLegacy, Slots
<1> QED BY <1>1, <1>2

LEMMA FreshTyped ==
  ASSUME Typed, NEW d \in Databases
  PROVE  Fresh(d) \in Connections /\ \E n \in 0 .. disposals + fails : Fresh(d) = <<d, n>>
BY DEF Typed, Fresh, Connections

LEMMA ChangeOfCall ==
  ASSUME Typed, NEW s \in Slots, Change(s)
  PROVE  /\ Stage(s) = "running" /\ IsCall(calls[s])
         /\ calls' = [calls EXCEPT ![s] = calls'[s]]
         /\ Len(calls[s].left) = 1 /\ ~Late(s) => calls'[s] = EndOf(s, TRUE)
         /\ Len(calls[s].left) = 1 /\ Late(s) =>
              calls'[s] = [req |-> calls[s].req, stage |-> "committing", conn |-> calls[s].conn, left |-> <<>>]
         /\ Len(calls[s].left) # 1 =>
              calls'[s] = [req |-> calls[s].req, stage |-> "running", conn |-> calls[s].conn,
                           left |-> Tail(calls[s].left)]
<1> DEFINE c == calls[s]
           last == Len(c.left) = 1
           late == backend = "indexedDB" /\ ~ResolvesEarly(c.req)
           then == CASE last /\ ~late -> EndOf(s, TRUE)
                     [] last /\ late -> [c EXCEPT !.left = <<>>, !.stage = "committing"]
                     [] OTHER -> [c EXCEPT !.left = Tail(c.left)]
<1>1. Stage(s) = "running" /\ IsCall(c) /\ c.stage = "running"
  BY StageOfCall DEF Change, MayRun
<1>2. calls' = [calls EXCEPT ![s] = then]
  BY Zenon DEF Change
<1>3. calls = [x \in Slots |-> calls[x]]
  BY DEF Typed
<1>4. Late(s) <=> late
  BY DEF Late
<1> HIDE DEF c
<1>5. \A left : [c EXCEPT !.left = left, !.stage = "committing"]
                  = [req |-> c.req, stage |-> "committing", conn |-> c.conn, left |-> left]
  BY <1>1, CallGoesOn
<1>6. \A left : [c EXCEPT !.left = left]
                  = [req |-> c.req, stage |-> "running", conn |-> c.conn, left |-> left]
  BY <1>1, CallHasLeft
<1>7. /\ last /\ ~late => then = EndOf(s, TRUE)
      /\ last /\ late => then = [req |-> c.req, stage |-> "committing", conn |-> c.conn, left |-> <<>>]
      /\ ~last => then = [req |-> c.req, stage |-> "running", conn |-> c.conn, left |-> Tail(c.left)]
  BY <1>5, <1>6
<1> HIDE DEF then, late
<1>8. calls'[s] = then
  BY <1>2, <1>3
<1> QED BY <1>1, <1>2, <1>4, <1>7, <1>8 DEF c

LEMMA CallsStep ==
  ASSUME Typed, [Next]_vars
  PROVE  CallsFollow
<1> USE DEF clients
<1>1. calls = [s \in Slots |-> calls[s]]
  BY DEF Typed
<1>2. ASSUME UNCHANGED calls
      PROVE  CallsFollow
  BY <1>1, <1>2 DEF CallsFollow
<1>3. ASSUME NEW s \in Slots, NEW c, calls' = [calls EXCEPT ![s] = c],
             calls'[s] = c => Entered(s) \/ Resumed(s) \/ WentOn(s) \/ Ended(s)
      PROVE  CallsFollow
  BY <1>1, <1>3 DEF CallsFollow
<1>4. ASSUME NEW s, Ask(s) \/ (s \in Groups /\ SaveLegacy(s))
      PROVE  CallsFollow
  <2>1. PICK q : q.table \in Tables /\ Enter(s, q) /\ s \in Slots
    BY <1>4, EntersWhat
  <2>2. calls[s] = None
    BY <2>1 DEF Enter, Idle
  <2>3. CASE EnterSQLite(s, q) /\ backend = "sqlite"
    <3>1. handle[RepoOf(q.table)] = None
      BY <2>3, Repositories DEF Typed
    <3>2. \/ calls' = [calls EXCEPT ![s] = At(q, "running", None)]
          \/ calls' = [calls EXCEPT ![s] = At(q, "opening", None)]
          \/ calls' = [calls EXCEPT ![s] = EndOf(s, FALSE)]
      BY <2>3 DEF EnterSQLite
    <3>3. EndOf(s, FALSE) \in {None} \cup Outcomes
      BY CallEnded
    <3>4. CASE calls' = [calls EXCEPT ![s] = EndOf(s, FALSE)]
      BY <1>3, <2>1, <3>3, <3>4 DEF Ended
    <3>5. CASE calls' = [calls EXCEPT ![s] = At(q, "running", None)]
      BY <1>3, <1>4, <2>1, <2>2, <3>5 DEF Entered
    <3>6. CASE calls' = [calls EXCEPT ![s] = At(q, "opening", None)]
      BY <1>3, <1>4, <2>1, <2>2, <2>3, <3>1, <3>6 DEF Entered
    <3> QED BY <3>2, <3>4, <3>5, <3>6
  <2>4. CASE EnterIndexedDB(s, q)
    <3> DEFINE d == DatabaseOf(RepoOf(q.table))
               conn == IF db[d].conn = None THEN Fresh(d) ELSE db[d].conn
    <3>1. \/ calls' = [calls EXCEPT ![s] = At(q, "running", handle[RepoOf(q.table)])]
          \/ calls' = [calls EXCEPT ![s] = At(q, "opening", conn)] /\ handle[RepoOf(q.table)] = None
      BY <2>4 DEF EnterIndexedDB
    <3>2. conn \in Connections
      BY Repositories, FreshTyped DEF Typed, Entries
    <3> HIDE DEF conn
    <3>3. CASE calls' = [calls EXCEPT ![s] = At(q, "running", handle[RepoOf(q.table)])]
      BY <1>3, <1>4, <2>1, <2>2, <3>3 DEF Entered
    <3>4. CASE calls' = [calls EXCEPT ![s] = At(q, "opening", conn)] /\ handle[RepoOf(q.table)] = None
      BY <1>3, <1>4, <2>1, <2>2, <3>2, <3>4 DEF Entered
    <3> QED BY <3>1, <3>3, <3>4
  <2>5. CASE calls' = [calls EXCEPT ![s] = At(q, "running", None)]
    BY <1>3, <1>4, <2>1, <2>2, <2>5 DEF Entered
  <2> QED BY <2>1, <2>3, <2>4, <2>5 DEF Enter
<1>5. ASSUME NEW r \in Repos, TablesCreated(r)
      PROVE  CallsFollow
  <2>1. \A s \in Slots : Stage(s) = "opening" =>
          [calls[s] EXCEPT !.stage = "running"]
            = [req |-> calls[s].req, stage |-> "running", conn |-> calls[s].conn, left |-> calls[s].left]
          /\ IsCall(calls[s])
    BY StageOfCall, CallGoesOn
  <2>2. calls' = [s \in Slots |-> IF Stage(s) = "opening" /\ RepoOf(calls[s].req.table) = r
                                  THEN [calls[s] EXCEPT !.stage = "running"] ELSE calls[s]]
    BY <1>5 DEF TablesCreated
  <2>3. \A s \in Slots : calls'[s] = calls[s] \/ Resumed(s)
    BY <2>1, <2>2 DEF Resumed
  <2> QED BY <2>2, <2>3 DEF CallsFollow
<1>6. CASE \/ \E r \in Repos : TablesFail(r)
           \/ \E c \in opening : OpenFails(c)
           \/ Kill
  <2>1. calls' = [s \in Slots |-> calls'[s]] /\ \A s \in Slots : calls'[s] = calls[s] \/ calls'[s] = None
                                   \/ \E ok \in BOOLEAN : calls'[s] = EndOf(s, ok)
    BY <1>6 DEF TablesFail, OpenFails, Kill, Survives
  <2> QED BY <2>1, CallEnded DEF CallsFollow, Ended
<1>7. ASSUME NEW s \in Slots, Resume(s)
      PROVE  CallsFollow
  <2> DEFINE c == [calls[s] EXCEPT !.stage = "running"]
  <2>1. Stage(s) = "opening" /\ calls' = [calls EXCEPT ![s] = c]
    BY <1>7 DEF Resume
  <2>2. c = [req |-> calls[s].req, stage |-> "running", conn |-> calls[s].conn, left |-> calls[s].left]
        /\ IsCall(calls[s])
    BY <2>1, StageOfCall, CallGoesOn
  <2> HIDE DEF c
  <2> QED BY <1>3, <2>1, <2>2 DEF Resumed
<1>8. ASSUME NEW s \in Slots, Change(s)
      PROVE  CallsFollow
  <2>1. Stage(s) = "running" /\ IsCall(calls[s]) /\ calls' = [calls EXCEPT ![s] = calls'[s]]
    BY <1>8, ChangeOfCall
  <2>2. EndOf(s, TRUE) \in {None} \cup Outcomes
    BY CallEnded
  <2>3. CASE Len(calls[s].left) = 1 /\ ~Late(s)
    <3>1. Ended(s)
      BY <1>8, <2>2, <2>3, ChangeOfCall DEF Ended
    <3> QED BY <1>3, <2>1, <3>1
  <2>4. CASE ~(Len(calls[s].left) = 1 /\ ~Late(s))
    <3>1. WentOn(s)
      BY <1>8, <2>1, <2>4, ChangeOfCall DEF WentOn
    <3> QED BY <1>3, <2>1, <3>1
  <2> QED BY <2>3, <2>4
<1>9. ASSUME NEW s \in Slots, Answer(s) \/ Refuse(s)
      PROVE  CallsFollow
  <2>1. PICK ok \in BOOLEAN : calls' = [calls EXCEPT ![s] = EndOf(s, ok)]
    BY <1>9 DEF Answer, Refuse
  <2>2. EndOf(s, ok) \in {None} \cup Outcomes
    BY CallEnded
  <2> QED BY <1>3, <2>1, <2>2 DEF Ended
<1>10. ASSUME NEW u \in uncommitted, Commit(u) \/ Abort(u)
       PROVE  CallsFollow
  <2>1. CASE UNCHANGED calls
    BY <1>2, <2>1
  <2>2. CASE calls' # calls
    <3>1. PICK ok \in BOOLEAN : calls' = [calls EXCEPT ![u.waits] = EndOf(u.waits, ok)]
      BY <1>10, <2>2 DEF Commit, Abort
    <3>2. u.waits \in Slots
      BY <1>1, <2>2, <3>1
    <3>3. EndOf(u.waits, ok) \in {None} \cup Outcomes
      BY CallEnded
    <3> QED BY <1>3, <3>1, <3>2, <3>3 DEF Ended
  <2> QED BY <2>1, <2>2
<1>11. CASE \/ \E r \in Repos : Dispose(r)
            \/ \E p \in disposing : Disposed(p)
            \/ \E c \in opening : Opened(c)
            \/ CheckMark \/ MarkStarted \/ ReadLegacy \/ MarkDone \/ CopyFails
            \/ UNCHANGED vars
  <2>1. UNCHANGED calls
    BY <1>11 DEF Dispose, Disposed, Opened, CheckMark, MarkStarted, ReadLegacy, MarkDone, CopyFails, vars
  <2> QED BY <1>2, <2>1
<1>12. ASSUME NEW s \in Slots, Ask(s)
       PROVE  CallsFollow
  BY <1>4, <1>12
<1>13. ASSUME NEW s \in Groups, SaveLegacy(s)
       PROVE  CallsFollow
  BY <1>4, <1>13
<1> QED BY <1>5, <1>6, <1>7, <1>8, <1>9, <1>10, <1>11, <1>12, <1>13 DEF Next

\* Only a call that enters begins to await.
LEMMA AwaitsOn ==
  ASSUME Typed, [Next]_vars, NEW s \in Slots, Stage(s)' = "opening"
  PROVE  Entered(s) \/ (calls'[s] = calls[s] /\ Stage(s) = "opening")
<1>1. calls'[s] # None /\ calls'[s].stage = "opening"
  BY DEF Stage
<1>2. ~Resumed(s)
  <2>1. ASSUME Resumed(s)
        PROVE  calls'[s].stage = "running"
    <3>1. PICK conn : calls'[s] = [req |-> calls[s].req, stage |-> "running", conn |-> conn,
                                   left |-> calls[s].left]
      BY <2>1, Zenon DEF Resumed
    <3> QED BY <3>1, StageIs
  <2> QED BY <1>1, <2>1
<1>3. ~WentOn(s)
  <2>1. ASSUME WentOn(s)
        PROVE  calls'[s].stage \in {"running", "committing"}
    <3>1. PICK left : \E stage \in {"running", "committing"} :
            calls'[s] = [req |-> calls[s].req, stage |-> stage, conn |-> calls[s].conn, left |-> left]
      BY <2>1, Zenon DEF WentOn
    <3> QED BY <3>1, StageIs
  <2> QED BY <1>1, <2>1
<1>4. ~Ended(s)
  BY <1>1 DEF Ended, Outcomes
<1> QED BY <1>1, <1>2, <1>3, <1>4, CallsStep DEF CallsFollow, Stage

LEMMA CallsTyped ==
  ASSUME Typed, [Next]_vars
  PROVE  /\ calls' = [s \in Slots |-> calls'[s]]
         /\ \A s \in Slots : calls'[s] \in {None} \cup Outcomes \/ IsCall(calls'[s])
         /\ backend = "indexedDB" => \A s \in Slots : Stage(s)' = "opening" => calls'[s].conn \in Connections
<1>1. CallsFollow
  BY CallsStep
<1>2. ASSUME NEW s \in Slots
      PROVE  calls'[s] \in {None} \cup Outcomes \/ IsCall(calls'[s])
  <2>1. CASE calls'[s] = calls[s]
    BY <1>2, <2>1 DEF Typed
  <2>2. CASE Entered(s)
    BY <2>2, CallEntered DEF Entered
  <2>3. CASE Resumed(s) \/ WentOn(s)
    <3>1. \A q, stage, conn, left :
            q.table \in Tables /\ stage \in {"opening", "running", "committing"} =>
              IsCall([req |-> q, stage |-> stage, conn |-> conn, left |-> left])
      BY DEF IsCall
    <3>2. calls[s].req.table \in Tables
      BY <2>3 DEF Resumed, WentOn, IsCall
    <3> QED BY <2>3, <3>1, <3>2 DEF Resumed, WentOn
  <2>4. CASE Ended(s)
    BY <2>4 DEF Ended
  <2> QED BY <1>1, <1>2, <2>1, <2>2, <2>3, <2>4 DEF CallsFollow
<1>3. ASSUME backend = "indexedDB", NEW s \in Slots, Stage(s)' = "opening"
      PROVE  calls'[s].conn \in Connections
  <2>1. CASE Entered(s)
    <3>1. PICK q, conn : \E stage \in {"opening", "running"} :
            /\ q.table \in Tables /\ calls'[s] = At(q, stage, conn)
            /\ (stage = "opening" => conn \in Connections)
      BY <1>3, <2>1 DEF Entered
    <3>2. calls'[s].stage = "opening"
      BY <1>3 DEF Stage
    <3> QED BY <3>1, <3>2, CallEntered
  <2>2. CASE calls'[s] = calls[s] /\ Stage(s) = "opening"
    BY <1>3, <2>2 DEF Typed
  <2> QED BY <1>3, <2>1, <2>2, AwaitsOn
<1> QED BY <1>1, <1>2, <1>3 DEF CallsFollow

LEMMA FailsGrow ==
  ASSUME Typed, [Next]_vars
  PROVE  fails' \in Nat /\ fails' >= fails
<1> USE DEF clients
<1>1. fails \in Nat
  BY DEF Typed
<1>2. CASE ReadLegacy
  <2>1. PICK lost \in SUBSET Groups : fails' = fails + Cardinality(lost)
    BY <1>2 DEF ReadLegacy
  <2>2. Groups \subseteq Slots
    BY DEF Slots
  <2>3. Cardinality(lost) \in Nat
    BY <2>1, <2>2, SlotsFinite, FS_Subset, FS_CardinalityType
  <2> QED BY <1>1, <2>1, <2>3
<1>3. CASE ~ReadLegacy
  <2>1. fails' = fails \/ fails' = fails + 1
    BY <1>3 DEF Next, vars, Ask, SaveLegacy, Enter, Resume, Change, Answer, Refuse, TablesCreated, TablesFail,
         Dispose, Disposed, Opened, OpenFails, Commit, Abort, CheckMark, MarkStarted, MarkDone, CopyFails, Kill,
         Fails, NoFailure
  <2> QED BY <1>1, <2>1
<1> QED BY <1>2, <1>3

LEMMA TypeStep ==
  ASSUME Typed, [Next]_vars
  PROVE  Typed'
<1> USE DEF clients
<1>1. /\ backend \in {"indexedDB", "sqlite", "realm", "memory"}
      /\ handle \in [Repos -> {None} \cup Connections]
      /\ disposing \subseteq Disposals
      /\ db \in [Databases -> Entries]
      /\ opening \subseteq Connections
      /\ disposals \in Nat
      /\ backend # "indexedDB" =>
           /\ uncommitted = {} /\ opening = {}
           /\ \A r \in Repos : handle[r] = None
  BY DEF Typed
<1> DEFINE Rest ==
      /\ backend' = backend
      /\ handle' \in [Repos -> {None} \cup Connections]
      /\ disposing' \subseteq Disposals
      /\ db' \in [Databases -> Entries]
      /\ opening' \subseteq Connections
      /\ disposals' \in Nat
      /\ backend # "indexedDB" =>
           /\ uncommitted' = {} /\ opening' = {}
           /\ \A r \in Repos : handle'[r] = None
<1>2. ASSUME UNCHANGED <<backend, handle, disposing, db, opening, disposals>>,
             backend # "indexedDB" => uncommitted' = {}
      PROVE  Rest
  BY <1>1, <1>2
<1>3. NoEntry \in Entries
  BY DEF NoEntry, Entries
<1>4. \A d \in Databases : /\ db[d].users \in Nat /\ db[d].conn \in {None} \cup Connections
                           /\ db[d] = [conn |-> db[d].conn, users |-> db[d].users]
  BY <1>1 DEF Entries
<1>5. ASSUME NEW s, Ask(s) \/ (s \in Groups /\ SaveLegacy(s))
      PROVE  Rest
  <2>1. PICK q : q.table \in Tables /\ Enter(s, q)
    BY <1>5, EntersWhat
  <2>2. CASE UNCHANGED <<handle, db, opening>>
    BY <1>1, <2>1, <2>2 DEF Enter
  <2>3. CASE backend = "indexedDB" /\ EnterIndexedDB(s, q)
    <3> DEFINE d == DatabaseOf(RepoOf(q.table))
               conn == IF db[d].conn = None THEN Fresh(d) ELSE db[d].conn
    <3>1. d \in Databases /\ conn \in Connections
      BY <1>4, Repositories, FreshTyped
    <3>2. /\ db' = db \/ db' = [db EXCEPT ![d] = [conn |-> conn, users |-> db[d].users + 1]]
          /\ opening' = opening \/ opening' = opening \cup {conn}
      BY <2>3, Zenon DEF EnterIndexedDB
    <3> HIDE DEF d, conn
    <3>3. [conn |-> conn, users |-> db[d].users + 1] \in Entries
      <4>1. db[d].users \in Nat
        BY <1>4, <3>1
      <4>2. db[d].users + 1 \in Nat
        BY <4>1
      <4> QED BY <3>1, <4>2 DEF Entries
    <3>4. db' \in [Databases -> Entries]
      BY <1>1, <3>1, <3>2, <3>3
    <3>5. handle' = handle
      BY <2>3 DEF EnterIndexedDB
    <3> QED BY <1>1, <2>1, <2>3, <3>1, <3>2, <3>4, <3>5 DEF Enter
  <2> QED BY <2>1, <2>2, <2>3 DEF Enter, EnterSQLite
<1>6. ASSUME NEW r \in Repos, TablesCreated(r) \/ TablesFail(r)
      PROVE  Rest
  BY <1>1, <1>2, <1>6 DEF TablesCreated, TablesFail
<1>7. ASSUME NEW c \in opening, Opened(c)
      PROVE  Rest
  BY <1>1, <1>7 DEF Opened
<1>8. ASSUME NEW c \in opening, OpenFails(c)
      PROVE  Rest
  <2>1. db' = [db EXCEPT ![c[1]] = NoEntry]
    BY <1>8 DEF OpenFails
  <2>2. db' \in [Databases -> Entries]
    BY <1>1, <1>3, <2>1
  <2> QED BY <1>1, <1>8, <2>2 DEF OpenFails
<1>9. ASSUME NEW s \in Slots, Resume(s)
      PROVE  Rest
  <2> DEFINE r == RepoOf(calls[s].req.table)
             c == calls[s].conn
  <2>1. r \in Repos
    BY Repositories
  <2>2. handle' = [handle EXCEPT ![r] = c] /\ backend = "indexedDB" /\ Stage(s) = "opening"
        /\ UNCHANGED <<backend, disposing, db, opening, disposals>>
    BY <1>9 DEF Resume
  <2>3. c \in Connections
    BY <2>2 DEF Typed
  <2> HIDE DEF r, c
  <2>4. handle' \in [Repos -> {None} \cup Connections]
    BY <1>1, <2>1, <2>2, <2>3
  <2> QED BY <1>1, <2>2, <2>4
<1>10. ASSUME NEW s \in Slots, Change(s) \/ Answer(s) \/ Refuse(s)
       PROVE  Rest
  BY <1>1, <1>2, <1>10 DEF Change, Answer, Refuse
<1>11. ASSUME NEW u \in uncommitted, Commit(u) \/ Abort(u)
       PROVE  Rest
  BY <1>1, <1>2, <1>11 DEF Commit, Abort
<1>12. ASSUME NEW r \in Repos, Dispose(r)
       PROVE  Rest
  <2> DEFINE d == DatabaseOf(r)
             entry == Released(d)
             closes == IF Closing(d) THEN db[d].conn ELSE None
  <2>1. d \in Databases
    BY Repositories
  <2>2. /\ disposals' = disposals + 1 /\ backend = "indexedDB" /\ UNCHANGED <<backend, handle, opening>>
        /\ db' = [db EXCEPT ![d] = entry]
        /\ disposing' = disposing \cup {[repo |-> r, closes |-> closes, number |-> disposals]}
    BY <1>12, Zenon DEF Dispose
  <2>3. entry \in Entries
    <3>1. CASE db[d].conn = None
      BY <1>1, <2>1, <3>1 DEF Released, Closing
    <3>2. CASE Closing(d)
      BY <1>3, <3>2 DEF Released, Closing
    <3>3. CASE db[d].conn # None /\ ~Closing(d)
      <4>1. entry = [conn |-> db[d].conn, users |-> db[d].users - 1]
        BY <3>3 DEF Released
      <4>2. ~(db[d].users <= 1)
        BY <3>3 DEF Closing, LastUser
      <4> HIDE DEF entry, d
      <4>3. db[d].users \in Nat /\ db[d].conn \in {None} \cup Connections
        BY <1>4, <2>1
      <4>4. db[d].users - 1 \in Nat
        BY <4>2, <4>3
      <4> QED BY <4>1, <4>3, <4>4 DEF Entries
    <3> QED BY <3>1, <3>2, <3>3
  <2>4. closes \in {None} \cup Connections
    BY <1>4, <2>1
  <2> HIDE DEF d, entry, closes
  <2>5. db' \in [Databases -> Entries]
    BY <1>1, <2>1, <2>2, <2>3
  <2>6. disposing' \subseteq Disposals
    BY <1>1, <2>2, <2>4 DEF Disposals
  <2> QED BY <1>1, <2>2, <2>5, <2>6
<1>13. ASSUME NEW p \in disposing, Disposed(p)
       PROVE  Rest
  <2>1. p.repo \in Repos
    BY <1>1 DEF Disposals
  <2> QED BY <1>1, <1>13, <2>1 DEF Disposed
<1>14. ASSUME Kill
       PROVE  Rest
  BY <1>1, <1>3, <1>14 DEF Kill
<1>15. ASSUME CheckMark \/ MarkStarted \/ ReadLegacy \/ MarkDone \/ CopyFails \/ UNCHANGED vars
       PROVE  Rest
  BY <1>1, <1>2, <1>15 DEF CheckMark, MarkStarted, ReadLegacy, MarkDone, CopyFails, vars
<1> HIDE DEF Rest
<1>16. Rest
  BY <1>5, <1>6, <1>7, <1>8, <1>9, <1>10, <1>11, <1>12, <1>13, <1>14, <1>15 DEF Next
<1> QED BY <1>1, <1>16, CallsTyped, FailsGrow DEF Rest, Typed

-----------------------------------------------------------------------------
(* Connections.  Who awaits or holds a database is counted among its users,   *)
(* so that it is closed only by the last of them; until a repository of it is *)
(* disposed of again before its first disposal has ended.                     *)

Counted(d) == Cardinality(Awaiting(d)) + Cardinality(Holding(d)) <= db[d].users

\* Everybody has the cached connection, which nobody is about to close.
Shares(d) ==
  /\ \A s \in Awaiting(d) : calls[s].conn = db[d].conn
  /\ \A r \in Holding(d) : handle[r] = db[d].conn /\ db[d].conn \notin opening
  /\ db[d].conn # None => db[d].conn \in opening \cup live
  /\ \A c \in opening : c[1] = d => c = db[d].conn
  /\ \A p \in disposing : DatabaseOf(p.repo) = d /\ p.closes # None => p.closes # db[d].conn

\* Connections have new numbers: what a disposal closes is not cached again.
Numbered ==
  /\ \A d \in Databases : db[d].conn # None =>
       \E n \in Nat : n <= disposals + fails /\ db[d].conn = <<d, n>>
  /\ \A p \in disposing : p.closes # None =>
       \E n \in Nat : n < disposals + fails /\ p.closes = <<DatabaseOf(p.repo), n>>

Connected == backend = "indexedDB" =>
  Numbered /\ \A d \in Databases \ overlapped : Counted(d) /\ Shares(d)

LEMMA CountsFinite ==
  ASSUME NEW d
  PROVE  /\ IsFiniteSet(Awaiting(d)) /\ IsFiniteSet(Holding(d))
         /\ Cardinality(Awaiting(d)) \in Nat /\ Cardinality(Holding(d)) \in Nat
<1>1. Awaiting(d) \subseteq Slots /\ Holding(d) \subseteq Repos
  BY DEF Awaiting, Holding
<1>2. IsFiniteSet(Repos)
  <2>1. IsFiniteSet({"wallet"})
    BY FS_Singleton
  <2>2. IsFiniteSet({"wallet"} \cup {"contract"})
    BY <2>1, FS_AddElement
  <2>3. IsFiniteSet(({"wallet"} \cup {"contract"}) \cup {"swap"})
    BY <2>2, FS_AddElement
  <2>4. Repos = ({"wallet"} \cup {"contract"}) \cup {"swap"}
    BY DEF Repos
  <2> QED BY <2>3, <2>4
<1> QED BY <1>1, <1>2, SlotsFinite, FS_Subset, FS_CardinalityType

\* Only a call that enters begins to await.
LEMMA AwaitingShrinks ==
  ASSUME Typed, [Next]_vars, NEW d
  PROVE  /\ Awaiting(d)' \subseteq Awaiting(d) \cup {s \in Slots : Entered(s)}
         /\ \A s \in Awaiting(d)' : Entered(s) \/ calls'[s] = calls[s]
<1> SUFFICES ASSUME NEW s \in Slots, Stage(s)' = "opening", ~Entered(s),
                    DatabaseOf(RepoOf(calls'[s].req.table)) = d
             PROVE  s \in Awaiting(d) /\ calls'[s] = calls[s]
  BY DEF Awaiting
<1>1. calls'[s] = calls[s] /\ Stage(s) = "opening"
  BY AwaitsOn
<1> QED BY <1>1 DEF Awaiting

LEMMA NumbersGrow ==
  ASSUME Typed, [Next]_vars, disposals' >= disposals, disposals' \in Nat
  PROVE  /\ disposals + fails \in Nat /\ disposals' + fails' \in Nat
         /\ disposals + fails <= disposals' + fails'
BY FailsGrow DEF Typed

\* A step that enters no call, and leaves alone what a database is.
LEMMA ConnectionFrame ==
  ASSUME Typed, Connected, backend = "indexedDB", [Next]_vars,
         ~\E s : Ask(s) \/ (s \in Groups /\ SaveLegacy(s)),
         UNCHANGED <<handle, disposing, db, opening, live, overlapped, disposals>>
  PROVE  Connected'
<1>1. \A d \in Databases : /\ Awaiting(d)' \subseteq Awaiting(d) /\ Holding(d)' = Holding(d)
                           /\ \A s \in Awaiting(d)' : calls'[s] = calls[s]
  BY AwaitingShrinks DEF Entered, Holding, BeingDisposed
<1>2. \A d \in Databases : Cardinality(Awaiting(d)') <= Cardinality(Awaiting(d))
                           /\ Cardinality(Awaiting(d)') \in Nat
  BY <1>1, CountsFinite, FS_Subset, FS_CardinalityType
<1>3. Numbered'
  <2>1. disposals + fails \in Nat /\ disposals' + fails' \in Nat /\ disposals + fails <= disposals' + fails'
    BY NumbersGrow DEF Typed
  <2>2. Numbered
    BY DEF Connected
  <2> QED BY <2>1, <2>2 DEF Numbered
<1>4. ASSUME NEW d \in Databases \ overlapped'
      PROVE  Counted(d)' /\ Shares(d)'
  <2>1. Counted(d) /\ Shares(d)
    BY <1>4 DEF Connected
  <2>2. db[d].users \in Nat
    BY <1>4 DEF Typed, Entries
  <2>3. Counted(d)'
    BY <1>1, <1>2, <1>4, <2>1, <2>2, CountsFinite DEF Counted
  <2>4. Shares(d)'
    BY <1>1, <1>4, <2>1 DEF Shares
  <2> QED BY <2>3, <2>4
<1> QED BY <1>3, <1>4 DEF Connected

LEMMA Counts ==
  ASSUME NEW A, NEW B, IsFiniteSet(B), NEW x
  PROVE  /\ A \subseteq B => Cardinality(A) <= Cardinality(B)
         /\ A \subseteq B \cup {x} => Cardinality(A) <= Cardinality(B) + 1
         /\ A \subseteq B \ {x} /\ x \in B => Cardinality(A) + 1 <= Cardinality(B)
<1>1. ASSUME A \subseteq B
      PROVE  Cardinality(A) <= Cardinality(B)
  BY <1>1, FS_Subset
<1>2. IsFiniteSet(B \cup {x}) /\ Cardinality(B \cup {x}) <= Cardinality(B) + 1
      /\ Cardinality(B) \in Nat
  BY FS_AddElement, FS_CardinalityType
<1>3. ASSUME A \subseteq B \cup {x}
      PROVE  Cardinality(A) <= Cardinality(B) + 1
  <2>1. Cardinality(A) <= Cardinality(B \cup {x}) /\ Cardinality(A) \in Nat
        /\ Cardinality(B \cup {x}) \in Nat
    BY <1>2, <1>3, FS_Subset, FS_CardinalityType
  <2> QED BY <1>2, <2>1
<1>4. ASSUME A \subseteq B \ {x}, x \in B
      PROVE  Cardinality(A) + 1 <= Cardinality(B)
  <2>1. IsFiniteSet(B \ {x}) /\ Cardinality(B \ {x}) = Cardinality(B) - 1
    BY <1>4, FS_RemoveElement
  <2>2. Cardinality(A) <= Cardinality(B \ {x}) /\ Cardinality(A) \in Nat
    BY <1>4, <2>1, FS_Subset, FS_CardinalityType
  <2> QED BY <1>2, <2>1, <2>2
<1> QED BY <1>1, <1>3, <1>4

\* The numbered connection of one database is not that of another.
LEMMA OthersNumber ==
  ASSUME Numbered, NEW d \in Databases, NEW c, c[1] # d
  PROVE  db[d].conn # None => db[d].conn # c
<1>1. \A n : <<d, n>>[1] = d
  OBVIOUS
<1> QED BY <1>1 DEF Numbered

\* A call enters: its repository has the connection, or it is one more user.
LEMMA EnterConnected ==
  ASSUME Typed, Connected, backend = "indexedDB", [Next]_vars,
         NEW s \in Slots, NEW q, Enter(s, q), Ask(s) \/ (s \in Groups /\ SaveLegacy(s))
  PROVE  Connected'
<1> DEFINE e == DatabaseOf(RepoOf(q.table))
           conn == IF db[e].conn = None THEN Fresh(e) ELSE db[e].conn
<1>1. EnterIndexedDB(s, q) /\ UNCHANGED <<backend, disposing, live, overlapped, disposals, handle, fails>>
  BY DEF Enter, EnterIndexedDB, Ask, SaveLegacy
<1>2. e \in Databases /\ calls = [x \in Slots |-> calls[x]]
  BY Repositories DEF Typed
<1>3. \A d \in Databases : Holding(d)' = Holding(d)
  BY <1>1 DEF Holding, BeingDisposed
<1>4. Numbered /\ \A d \in Databases \ overlapped : Counted(d) /\ Shares(d)
  BY DEF Connected
<1>5. CASE handle[RepoOf(q.table)] # None
  <2>1. calls' = [calls EXCEPT ![s] = At(q, "running", handle[RepoOf(q.table)])] /\ UNCHANGED <<db, opening>>
    BY <1>1, <1>5 DEF EnterIndexedDB
  <2>2. At(q, "running", handle[RepoOf(q.table)]).stage = "running"
    BY DEF At
  <2>3. \A d \in Databases : /\ Awaiting(d)' \subseteq Awaiting(d)
                             /\ \A x \in Awaiting(d)' : calls'[x] = calls[x]
    <3> SUFFICES ASSUME NEW d \in Databases, NEW x \in Awaiting(d)'
                 PROVE  x \in Awaiting(d) /\ calls'[x] = calls[x]
      OBVIOUS
    <3>1. x # s
      BY <1>2, <2>1, <2>2 DEF Awaiting, Stage
    <3>2. calls'[x] = calls[x]
      BY <1>2, <2>1, <3>1
    <3> QED BY <3>2 DEF Awaiting, Stage
  <2>4. \A d \in Databases : Cardinality(Awaiting(d)') <= Cardinality(Awaiting(d))
                             /\ Cardinality(Awaiting(d)') \in Nat
    BY <2>3, CountsFinite, FS_Subset, FS_CardinalityType
  <2>5. Numbered'
    BY <1>1, <1>4, <2>1 DEF Numbered
  <2>6. ASSUME NEW d \in Databases \ overlapped'
        PROVE  Counted(d)' /\ Shares(d)'
    <3>1. Counted(d) /\ Shares(d) /\ db[d].users \in Nat
      BY <1>1, <1>4, <2>6 DEF Typed, Entries
    <3>2. Counted(d)'
      BY <1>3, <2>1, <2>4, <2>6, <3>1, CountsFinite DEF Counted
    <3>3. Shares(d)'
      BY <1>1, <1>3, <2>1, <2>3, <2>6, <3>1 DEF Shares
    <3> QED BY <3>2, <3>3
  <2> QED BY <2>5, <2>6 DEF Connected
<1>6. CASE handle[RepoOf(q.table)] = None
  <2>1. /\ calls' = [calls EXCEPT ![s] = At(q, "opening", conn)]
        /\ db' = [db EXCEPT ![e] = [conn |-> conn, users |-> db[e].users + 1]]
        /\ opening' = IF db[e].conn = None THEN opening \cup {conn} ELSE opening
    BY <1>1, <1>6, Zenon DEF EnterIndexedDB
  <2>2. At(q, "opening", conn).req = q /\ At(q, "opening", conn).conn = conn
    BY DEF At
  <2>3. conn # None /\ (db[e].conn = None => conn = <<e, disposals + fails>>)
        /\ (db[e].conn # None => conn = db[e].conn)
    BY <1>2, FreshTyped, ConstantsAssumption DEF Fresh
  <2>4. Fresh(e)[1] = e
    BY DEF Fresh
  <2> HIDE DEF conn
  <2>5. calls'[s] = At(q, "opening", conn) /\ \A x \in Slots : x # s => calls'[x] = calls[x]
    BY <1>2, <2>1
  <2>6. /\ \A d \in Databases : d # e => Awaiting(d)' \subseteq Awaiting(d)
        /\ Awaiting(e)' \subseteq Awaiting(e) \cup {s}
        /\ \A d \in Databases : \A x \in Awaiting(d)' : x # s => calls'[x] = calls[x] /\ x \in Awaiting(d)
    <3>1. ASSUME NEW d \in Databases, NEW x \in Awaiting(d)', d # e \/ x # s
          PROVE  x \in Awaiting(d) /\ (x # s => calls'[x] = calls[x])
      <4>1. x # s
        BY <2>2, <2>5, <3>1 DEF Awaiting
      <4>2. calls'[x] = calls[x]
        BY <2>5, <4>1 DEF Awaiting
      <4> QED BY <3>1, <4>2 DEF Awaiting, Stage
    <3> QED BY <1>2, <3>1
  <2> HIDE DEF e
  <2>7. /\ \A d \in Databases : d # e => db'[d] = db[d]
        /\ db'[e].users = db[e].users + 1 /\ db'[e].conn = conn
    BY <1>2, <2>1 DEF Typed
  <2>8. \A d \in Databases : Cardinality(Awaiting(d)') \in Nat /\ Cardinality(Awaiting(d)) \in Nat
                             /\ Cardinality(Holding(d)) \in Nat /\ db[d].users \in Nat
    BY <2>6, CountsFinite, FS_Subset, FS_AddElement, FS_CardinalityType DEF Typed, Entries
  <2>9. /\ \A d \in Databases : d # e => Cardinality(Awaiting(d)') <= Cardinality(Awaiting(d))
        /\ Cardinality(Awaiting(e)') <= Cardinality(Awaiting(e)) + 1
    BY <1>2, <2>6, CountsFinite, Counts
  <2>10. Numbered'
    <3>1. disposals + fails \in Nat
      BY DEF Typed
    <3>2. \A d \in Databases : db'[d].conn # None =>
            \E n \in Nat : n <= disposals + fails /\ db'[d].conn = <<d, n>>
      BY <1>4, <2>3, <2>7, <3>1 DEF Numbered
    <3> QED BY <1>1, <1>4, <3>2 DEF Numbered
  <2>11. ASSUME NEW d \in Databases \ overlapped'
         PROVE  Counted(d)' /\ Shares(d)'
    <3>1. Counted(d) /\ Shares(d)
      BY <1>1, <1>4, <2>11
    <3>2. Cardinality(Holding(d)') = Cardinality(Holding(d))
      BY <1>3, <2>11
    <3>3. Counted(d)'
      BY <1>2, <2>7, <2>8, <2>9, <2>11, <3>1, <3>2 DEF Counted
    <3>4. CASE d # e
      <4>1. db'[d] = db[d] /\ (\A x \in Awaiting(d)' : x # s /\ x \in Awaiting(d) /\ calls'[x] = calls[x])
        <5>1. \A x \in Awaiting(d)' : x # s
          BY <2>2, <2>5 , <3>4 DEF Awaiting, e
        <5> QED BY <2>6, <2>7, <2>11, <3>4, <5>1
      <4>2. opening \subseteq opening' /\ opening' \subseteq opening \cup {Fresh(e)}
        BY <2>1 DEF conn
      <4>3. \A r \in Holding(d)' : db[d].conn \notin opening'
        <5> SUFFICES ASSUME NEW r \in Holding(d)
                     PROVE  db[d].conn \notin opening'
          BY <1>3, <2>11
        <5>1. db[d].conn \notin opening /\ db[d].conn # None
          BY <3>1 DEF Shares, Holding
        <5>2. db[d].conn # Fresh(e)
          BY <1>4, <2>4, <2>11, <3>4, <5>1, OthersNumber
        <5> QED BY <4>2, <5>1, <5>2
      <4>4. \A c \in opening' : c[1] = d => c = db[d].conn
        BY <2>4, <3>1, <3>4, <4>2 DEF Shares
      <4> QED BY <1>1, <1>3, <2>11, <3>1, <3>3, <4>1, <4>2, <4>3, <4>4 DEF Shares
    <3>5. CASE d = e /\ db[e].conn # None
      <4>1. conn = db[e].conn /\ db'[e].conn = db[e].conn /\ opening' = opening
        BY <2>1, <2>3, <2>7, <3>5
      <4>2. \A x \in Awaiting(e)' : calls'[x].conn = db[e].conn
        BY <1>2, <2>2, <2>5, <2>6, <3>1, <3>5, <4>1 DEF Shares
      <4> QED BY <1>1, <1>3, <2>11, <3>1, <3>3, <3>5, <4>1, <4>2 DEF Shares
    <3>6. CASE d = e /\ db[e].conn = None
      <4>1. db'[e].conn = conn /\ opening' = opening \cup {conn} /\ conn = <<e, disposals + fails>>
        BY <2>1, <2>3, <2>7, <3>6
      <4>2. Awaiting(e) = {}
        BY <3>1, <3>6, ConstantsAssumption DEF Shares, Typed, Awaiting
      <4>3. Holding(e) = {}
        BY <3>1, <3>6 DEF Shares, Holding
      <4>4. \A x \in Awaiting(e)' : calls'[x].conn = conn
        BY <2>2, <2>5, <2>6, <4>2
      <4>5. \A c \in opening' : c[1] = e => c = conn
        <5>1. None \notin opening
          BY ConstantsAssumption DEF Typed
        <5>2. \A c \in opening : c[1] # e
          BY <3>1, <3>6, <5>1 DEF Shares
        <5> QED BY <4>1, <5>2
      <4>6. \A p \in disposing : DatabaseOf(p.repo) = e /\ p.closes # None => p.closes # conn
        <5> SUFFICES ASSUME NEW p \in disposing, p.closes # None, p.closes = conn
                     PROVE  FALSE
          OBVIOUS
        <5>1. PICK n \in Nat : n < disposals + fails /\ p.closes = <<DatabaseOf(p.repo), n>>
          BY <1>4 DEF Numbered
        <5>2. n = disposals + fails
          BY <4>1, <5>1
        <5> QED BY <5>1, <5>2 DEF Typed
      <4> QED BY <1>1, <1>3, <2>3, <2>11, <3>3, <3>6, <4>1, <4>3, <4>4, <4>5, <4>6 DEF Shares
    <3> QED BY <3>3, <3>4, <3>5, <3>6
  <2> QED BY <2>10, <2>11 DEF Connected
<1> QED BY <1>5, <1>6

\* A connection is open, or not: who awaited it, and nobody else, is told.
LEMMA OpenedConnected ==
  ASSUME Typed, Connected, backend = "indexedDB", NEW c \in opening, Opened(c)
  PROVE  Connected'
<1>1. /\ opening' = opening \ {c} /\ live' = live \cup {c}
      /\ UNCHANGED <<backend, calls, handle, disposing, db, overlapped, disposals, fails>>
  BY DEF Opened
<1>2. \A d \in Databases : Awaiting(d)' = Awaiting(d) /\ Holding(d)' = Holding(d)
  BY <1>1 DEF Awaiting, Holding, Stage, BeingDisposed
<1>3. Numbered'
  BY <1>1 DEF Connected, Numbered
<1>4. ASSUME NEW d \in Databases \ overlapped'
      PROVE  Counted(d)' /\ Shares(d)'
  <2>1. Counted(d) /\ Shares(d)
    BY <1>1, <1>4 DEF Connected
  <2>2. Counted(d)'
    BY <1>1, <1>2, <1>4, <2>1 DEF Counted
  <2>3. Shares(d)'
    BY <1>1, <1>2, <1>4, <2>1 DEF Shares
  <2> QED BY <2>2, <2>3
<1> QED BY <1>3, <1>4 DEF Connected

\* It cannot be opened: nobody had it, and nobody awaits it any more.
LEMMA OpenFailsConnected ==
  ASSUME Typed, Connected, backend = "indexedDB", [Next]_vars, NEW c \in opening, OpenFails(c)
  PROVE  Connected'
<1> DEFINE e == c[1]
<1>1. /\ opening' = opening \ {c}
      /\ db' = [db EXCEPT ![e] = NoEntry]
      /\ calls' = [s \in Slots |-> IF Stage(s) = "opening" /\ calls[s].conn = c
                                   THEN EndOf(s, Survives(calls[s].req)) ELSE calls[s]]
      /\ UNCHANGED <<backend, handle, disposing, live, overlapped, disposals>>
  BY DEF OpenFails
<1>2. e \in Databases /\ c \in Connections /\ c # None
  BY ConstantsAssumption DEF Typed, Connections
<1> HIDE DEF e
<1>3. /\ \A d \in Databases : d # e => db'[d] = db[d]
      /\ db'[e].conn = None /\ db'[e].users = 0
  BY <1>1, <1>2 DEF Typed, NoEntry
<1>4. \A d \in Databases : Holding(d)' = Holding(d)
  BY <1>1 DEF Holding, BeingDisposed
<1>5. \A d \in Databases : \A s \in Awaiting(d)' : s \in Awaiting(d) /\ calls'[s] = calls[s] /\ calls[s].conn # c
  <2> SUFFICES ASSUME NEW d \in Databases, NEW s \in Awaiting(d)'
               PROVE  s \in Awaiting(d) /\ calls'[s] = calls[s] /\ calls[s].conn # c
    OBVIOUS
  <2>1. s \in Slots /\ calls'[s] # None /\ calls'[s].stage = "opening"
        /\ DatabaseOf(RepoOf(calls'[s].req.table)) = d
    BY DEF Awaiting, Stage
  <2>2. \A ok \in BOOLEAN : EndOf(s, ok) = None \/ EndOf(s, ok).stage # "opening"
    BY DEF EndOf
  <2>3. calls'[s] = calls[s] /\ ~(Stage(s) = "opening" /\ calls[s].conn = c)
    BY <1>1, <2>1, <2>2 DEF Survives
  <2> QED BY <2>1, <2>3 DEF Awaiting, Stage
<1>6. Numbered'
  <2>1. disposals + fails \in Nat /\ disposals' + fails' \in Nat /\ disposals + fails <= disposals' + fails'
    BY <1>1, NumbersGrow DEF Typed
  <2>2. Numbered
    BY DEF Connected
  <2> QED BY <1>1, <1>3, <2>1, <2>2 DEF Numbered
<1>7. ASSUME NEW d \in Databases \ overlapped'
      PROVE  Counted(d)' /\ Shares(d)'
  <2>1. Counted(d) /\ Shares(d) /\ db[d].users \in Nat
    BY <1>1, <1>7 DEF Connected, Typed, Entries
  <2>2. CASE d = e
    <3>1. c = db[e].conn
      BY <2>1, <2>2 DEF Shares, e
    <3>2. Awaiting(e)' = {} /\ Holding(e)' = {}
      BY <1>2, <1>4, <1>5, <2>1, <2>2, <3>1 DEF Shares
    <3>3. Counted(d)'
      BY <1>3, <2>2, <3>2, FS_EmptySet DEF Counted
    <3>4. \A x \in opening' : x[1] # e
      BY <1>1, <2>1, <2>2, <3>1 DEF Shares
    <3>5. Shares(d)'
      BY <1>1, <1>3, <2>2, <3>2, <3>4 DEF Shares
    <3> QED BY <3>3, <3>5
  <2>3. CASE d # e
    <3>1. Cardinality(Awaiting(d)') <= Cardinality(Awaiting(d)) /\ Cardinality(Awaiting(d)') \in Nat
      BY <1>5, <1>7, CountsFinite, FS_Subset, FS_CardinalityType
    <3>2. db'[d] = db[d]
      BY <1>3, <1>7, <2>3
    <3>3. Cardinality(Holding(d)') = Cardinality(Holding(d))
      BY <1>4, <1>7
    <3>4. Counted(d)'
      BY <2>1, <3>1, <3>2, <3>3, CountsFinite DEF Counted
    <3>5. db[d].conn # None => db[d].conn # c
      BY <1>7, <2>3, OthersNumber DEF Connected, e
    <3>6. Shares(d)'
      BY <1>1, <1>4, <1>5, <1>7, <2>1, <3>2, <3>5 DEF Shares
    <3> QED BY <3>4, <3>6
  <2> QED BY <2>2, <2>3
<1> QED BY <1>6, <1>7 DEF Connected

\* A call that awaited becomes its repository's hold of the connection.
LEMMA ResumeConnected ==
  ASSUME Typed, Connected, [Next]_vars, NEW s \in Slots, Resume(s)
  PROVE  Connected'
<1> DEFINE r == RepoOf(calls[s].req.table)
           e == DatabaseOf(r)
           c == calls[s].conn
<1>1. /\ backend = "indexedDB" /\ Stage(s) = "opening" /\ c \notin opening
      /\ handle' = [handle EXCEPT ![r] = c]
      /\ calls' = [calls EXCEPT ![s] = [calls[s] EXCEPT !.stage = "running"]]
      /\ UNCHANGED <<backend, disposing, db, opening, live, overlapped, disposals, fails>>
  BY DEF Resume
<1>2. r \in Repos /\ e \in Databases /\ calls = [x \in Slots |-> calls[x]] /\ c # None
  BY <1>1, Repositories, ConstantsAssumption DEF Typed
<1>3. s \in Awaiting(e)
  BY <1>1 DEF Awaiting
<1>4. [calls[s] EXCEPT !.stage = "running"].stage = "running"
  <2>1. [calls[s] EXCEPT !.stage = "running"]
          = [req |-> calls[s].req, stage |-> "running", conn |-> calls[s].conn, left |-> calls[s].left]
    BY <1>1, StageOfCall, CallGoesOn
  <2> QED BY <2>1, StageIs
<1>5. \A d \in Databases : /\ Awaiting(d)' \subseteq Awaiting(d) \ {s}
                           /\ \A x \in Awaiting(d)' : calls'[x] = calls[x]
  <2> SUFFICES ASSUME NEW d \in Databases, NEW x \in Awaiting(d)'
               PROVE  x \in Awaiting(d) /\ x # s /\ calls'[x] = calls[x]
    OBVIOUS
  <2>1. x # s
    BY <1>1, <1>2, <1>4 DEF Awaiting, Stage
  <2>2. calls'[x] = calls[x]
    BY <1>1, <1>2, <2>1
  <2> QED BY <2>1, <2>2 DEF Awaiting, Stage
<1> HIDE DEF r, c
<1>6. \A d \in Databases : Holding(d)' \subseteq IF d = e THEN Holding(d) \cup {r} ELSE Holding(d)
  BY <1>1, <1>2 DEF Holding, BeingDisposed, Typed
<1> HIDE DEF e
<1>7. \A d \in Databases : /\ Cardinality(Awaiting(d)') \in Nat /\ Cardinality(Awaiting(d)) \in Nat
                           /\ Cardinality(Holding(d)') \in Nat /\ Cardinality(Holding(d)) \in Nat
                           /\ IsFiniteSet(Awaiting(d)) /\ IsFiniteSet(Holding(d))
  <2> SUFFICES ASSUME NEW d \in Databases
               PROVE  Cardinality(Awaiting(d)') \in Nat /\ Cardinality(Holding(d)') \in Nat
    BY CountsFinite
  <2>1. Awaiting(d)' \subseteq Awaiting(d) /\ Holding(d)' \subseteq Holding(d) \cup {r}
    BY <1>5, <1>6
  <2> QED BY <2>1, CountsFinite, FS_Subset, FS_AddElement, FS_CardinalityType
<1>8. Numbered'
  BY <1>1 DEF Connected, Numbered
<1>9. ASSUME NEW d \in Databases \ overlapped'
      PROVE  Counted(d)' /\ Shares(d)'
  <2>1. Counted(d) /\ Shares(d) /\ db[d].users \in Nat
    BY <1>1, <1>9 DEF Connected, Typed, Entries
  <2>2. CASE d = e
    <3>1. Cardinality(Awaiting(d)') + 1 <= Cardinality(Awaiting(d))
      BY <1>3, <1>5, <1>7, <2>2, Counts
    <3>2. Cardinality(Holding(d)') <= Cardinality(Holding(d)) + 1
      BY <1>6, <1>7, <2>2, Counts
    <3>3. Counted(d)'
      BY <1>1, <1>7, <1>9, <2>1, <3>1, <3>2 DEF Counted
    <3>4. c = db[d].conn
      BY <1>3, <2>1, <2>2 DEF Shares, c
    <3>5. \A x \in Holding(d)' : handle'[x] = db[d].conn
      <4> SUFFICES ASSUME NEW x \in Holding(d)'
                   PROVE  handle'[x] = db[d].conn
        OBVIOUS
      <4>1. CASE x = r
        BY <1>1, <1>2, <3>4, <4>1 DEF Typed
      <4>2. CASE x # r
        <5>1. x \in Holding(d)
          BY <1>6, <1>9, <2>2, <4>2
        <5>2. handle'[x] = handle[x]
          BY <1>1, <1>2, <4>2, <5>1 DEF Typed, Holding
        <5> QED BY <2>1, <5>1, <5>2 DEF Shares
      <4> QED BY <4>1, <4>2
    <3>6. Shares(d)'
      BY <1>1, <1>5, <1>9, <2>1, <3>4, <3>5 DEF Shares
    <3> QED BY <3>3, <3>6
  <2>3. CASE d # e
    <3>1. Awaiting(d)' \subseteq Awaiting(d) /\ Holding(d)' \subseteq Holding(d)
      BY <1>5, <1>6, <1>9, <2>3
    <3>2. Cardinality(Awaiting(d)') <= Cardinality(Awaiting(d))
          /\ Cardinality(Holding(d)') <= Cardinality(Holding(d))
      BY <1>7, <1>9, <3>1, Counts
    <3>3. Counted(d)'
      BY <1>1, <1>7, <1>9, <2>1, <3>2 DEF Counted
    <3>4. \A x \in Holding(d)' : handle'[x] = handle[x]
      <4> SUFFICES ASSUME NEW x \in Holding(d)'
                   PROVE  handle'[x] = handle[x]
        OBVIOUS
      <4>1. x \in Repos /\ x # r
        BY <2>3 DEF Holding, e
      <4> QED BY <1>1, <1>2, <4>1 DEF Typed
    <3>5. Shares(d)'
      BY <1>1, <1>5, <1>9, <2>1, <3>1, <3>4 DEF Shares
    <3> QED BY <3>3, <3>5
  <2> QED BY <2>2, <2>3
<1> QED BY <1>8, <1>9 DEF Connected

\* A disposal: the last user's closes the connection, another's only counts.
LEMMA DisposeConnected ==
  ASSUME Typed, Connected, [Next]_vars, NEW r \in Repos, Dispose(r)
  PROVE  Connected'
<1> DEFINE e == DatabaseOf(r)
           last == Closing(e)
           entry == Released(e)
           p == [repo |-> r, closes |-> IF last THEN db[e].conn ELSE None, number |-> disposals]
<1>1. /\ backend = "indexedDB" /\ handle[r] # None
      /\ disposals' = disposals + 1
      /\ db' = [db EXCEPT ![e] = entry]
      /\ disposing' = disposing \cup {p}
      /\ overlapped' = IF BeingDisposed(r) /\ db[e].conn # None THEN overlapped \cup {e} ELSE overlapped
      /\ UNCHANGED <<backend, calls, handle, opening, live, fails>>
  BY Zenon DEF Dispose
<1>2. e \in Databases
  BY Repositories
<1>3. p.repo = r /\ p.closes = IF last THEN db[e].conn ELSE None
  OBVIOUS
<1>4. /\ \A d \in Databases : d # e => db'[d] = db[d]
      /\ db'[e] = entry
  BY <1>1, <1>2, Zenon DEF Typed
<1>5. /\ last => entry.conn = None /\ entry.users = 0
      /\ ~last => entry.conn = db[e].conn
      /\ db[e].conn = None => entry = db[e]
      /\ db[e].conn # None /\ ~last => entry.users = db[e].users - 1
  <2>1. CASE last
    BY <2>1 DEF NoEntry, Released, Closing
  <2>2. CASE db[e].conn = None
    BY <2>2 DEF Released, Closing
  <2>3. CASE db[e].conn # None /\ ~last
    BY <2>3 DEF Released
  <2> QED BY <2>1, <2>2, <2>3
<1>6. last <=> db[e].conn # None /\ db[e].users <= 1
  BY DEF Closing, LastUser
<1> HIDE DEF last, entry, p
<1>7. \A x : BeingDisposed(x)' <=> BeingDisposed(x) \/ x = r
  BY <1>1, <1>3 DEF BeingDisposed
<1> HIDE DEF e
<1>8. \A d \in Databases : Awaiting(d)' = Awaiting(d) /\ Holding(d)' = Holding(d) \ {r}
  BY <1>1, <1>7 DEF Awaiting, Holding, Stage
<1>9. \A d \in Databases : /\ Cardinality(Awaiting(d)) \in Nat /\ Cardinality(Holding(d)) \in Nat
                           /\ Cardinality(Holding(d)') \in Nat
                           /\ IsFiniteSet(Awaiting(d)) /\ IsFiniteSet(Holding(d)) /\ IsFiniteSet(Holding(d)')
                           /\ Cardinality(Holding(d)') <= Cardinality(Holding(d))
                           /\ db[d].users \in Nat
  BY <1>8, CountsFinite, FS_Subset, FS_CardinalityType DEF Typed, Entries
<1>10. Numbered /\ \A d \in Databases \ overlapped : Counted(d) /\ Shares(d)
  BY <1>1 DEF Connected
<1>11. disposals + fails \in Nat /\ disposals' + fails' = disposals + fails + 1
  BY <1>1 DEF Typed
<1>12. Numbered'
  <2>1. ASSUME NEW d \in Databases, db'[d].conn # None
        PROVE  \E n \in Nat : n <= disposals' + fails' /\ db'[d].conn = <<d, n>>
    <3>1. db'[d].conn = db[d].conn
      BY <1>2, <1>4, <1>5, <2>1
    <3> QED BY <1>10, <1>11, <2>1, <3>1 DEF Numbered
  <2>2. ASSUME NEW x \in disposing', x.closes # None
        PROVE  \E n \in Nat : n < disposals' + fails' /\ x.closes = <<DatabaseOf(x.repo), n>>
    <3>1. CASE x \in disposing
      BY <1>10, <1>11, <2>2, <3>1 DEF Numbered
    <3>2. CASE x = p
      <4>1. last /\ x.closes = db[e].conn /\ DatabaseOf(x.repo) = e
        BY <1>3, <2>2, <3>2 DEF e
      <4>2. db[e].conn # None
        BY <1>6, <4>1
      <4> QED BY <1>2, <1>10, <1>11, <4>1, <4>2 DEF Numbered
    <3> QED BY <1>1, <2>2, <3>1, <3>2
  <2> QED BY <2>1, <2>2 DEF Numbered
<1>13. ASSUME NEW d \in Databases \ overlapped', d # e
       PROVE  Counted(d)' /\ Shares(d)'
  <2>1. Counted(d) /\ Shares(d) /\ db'[d] = db[d]
    BY <1>1, <1>4, <1>10, <1>13
  <2>2. Counted(d)'
    BY <1>8, <1>9, <1>13, <2>1 DEF Counted
  <2>3. \A x \in disposing' : DatabaseOf(x.repo) = d => x \in disposing
    BY <1>1, <1>3, <1>13 DEF e
  <2>4. Shares(d)'
    BY <1>1, <1>8, <1>13, <2>1, <2>3 DEF Shares
  <2> QED BY <2>2, <2>4
<1>14. ASSUME e \notin overlapped'
       PROVE  Counted(e)' /\ Shares(e)'
  <2>1. Counted(e) /\ Shares(e)
    BY <1>1, <1>2, <1>10, <1>14
  <2>2. CASE db[e].conn = None
    <3>1. ~last /\ db'[e] = db[e]
      BY <1>4, <1>5, <1>6, <2>2
    <3>2. Counted(e)'
      BY <1>2, <1>8, <1>9, <2>1, <3>1 DEF Counted
    <3>3. Shares(e)'
      BY <1>1, <1>2, <1>3, <1>8, <2>1, <3>1 DEF Shares
    <3> QED BY <3>2, <3>3
  <2>3. CASE db[e].conn # None
    <3>1. ~BeingDisposed(r)
      BY <1>1, <1>14, <2>3
    <3>2. r \in Holding(e)
      BY <1>1, <3>1 DEF Holding, e
    <3>3. Cardinality(Holding(e)') + 1 <= Cardinality(Holding(e))
      BY <1>2, <1>8, <1>9, <3>2, Counts
    <3>4. CASE last
      <4>1. Cardinality(Awaiting(e)) = 0 /\ Cardinality(Holding(e)') = 0
        BY <1>2, <1>6, <1>9, <2>1, <3>3, <3>4 DEF Counted
      <4>2. Awaiting(e) = {} /\ Holding(e)' = {}
        BY <1>2, <1>9, <4>1, FS_EmptySet
      <4>3. db'[e].conn = None /\ db'[e].users = 0
        BY <1>4, <1>5, <3>4
      <4>4. Counted(e)'
        BY <1>2, <1>8, <4>1, <4>3 DEF Counted
      <4>5. \A c \in opening : c[1] # e
        BY <2>1, <3>2, ConstantsAssumption DEF Shares, Typed
      <4>6. Shares(e)'
        BY <1>1, <1>2, <1>8, <4>2, <4>3, <4>5 DEF Shares
      <4> QED BY <4>4, <4>6
    <3>5. CASE ~last
      <4>1. db'[e].conn = db[e].conn /\ db'[e].users = db[e].users - 1
        BY <1>4, <1>5, <2>3, <3>5
      <4>2. Counted(e)'
        BY <1>2, <1>8, <1>9, <2>1, <3>3, <4>1 DEF Counted
      <4>3. \A x \in disposing' : x.closes # None => x \in disposing
        BY <1>1, <1>3, <3>5
      <4>4. Shares(e)'
        BY <1>1, <1>2, <1>8, <2>1, <4>1, <4>3 DEF Shares
      <4> QED BY <4>2, <4>4
    <3> QED BY <3>4, <3>5
  <2> QED BY <2>2, <2>3
<1> QED BY <1>12, <1>13, <1>14 DEF Connected

\* Its end: what it closes is nobody's connection.
LEMMA DisposedConnected ==
  ASSUME Typed, Connected, backend = "indexedDB", NEW p \in disposing, Disposed(p)
  PROVE  Connected'
<1>1. /\ live' = live \ {p.closes}
      /\ handle' = [handle EXCEPT ![p.repo] = None]
      /\ disposing' = disposing \ {p}
      /\ UNCHANGED <<backend, calls, db, opening, overlapped, disposals, fails>>
  BY DEF Disposed
<1>2. p.repo \in Repos
  BY DEF Typed, Disposals
<1>3. \A d \in Databases : /\ Awaiting(d)' = Awaiting(d)
                           /\ Holding(d)' = Holding(d) /\ \A r \in Holding(d) : handle'[r] = handle[r]
  <2>1. \A d \in Databases : p.repo \notin Holding(d)
    BY DEF Holding, BeingDisposed
  <2>2. \A r : r # p.repo => (BeingDisposed(r)' <=> BeingDisposed(r))
    BY <1>1 DEF BeingDisposed
  <2>3. handle'[p.repo] = None /\ \A r \in Repos : r # p.repo => handle'[r] = handle[r]
    BY <1>1, <1>2 DEF Typed
  <2> QED BY <1>1, <2>1, <2>2, <2>3 DEF Awaiting, Holding, Stage
<1>4. Numbered'
  BY <1>1 DEF Connected, Numbered
<1>5. ASSUME NEW d \in Databases \ overlapped'
      PROVE  Counted(d)' /\ Shares(d)'
  <2>1. Counted(d) /\ Shares(d)
    BY <1>1, <1>5 DEF Connected
  <2>2. Counted(d)'
    BY <1>1, <1>3, <1>5, <2>1 DEF Counted
  <2>3. db[d].conn # None => db[d].conn # p.closes
    <3>1. CASE p.closes = None
      BY <3>1
    <3>2. CASE p.closes # None /\ DatabaseOf(p.repo) = d
      BY <2>1, <3>2 DEF Shares
    <3>3. CASE p.closes # None /\ DatabaseOf(p.repo) # d
      <4>1. PICK n : p.closes = <<DatabaseOf(p.repo), n>>
        BY <3>3 DEF Connected, Numbered
      <4> QED BY <1>5, <3>3, <4>1, OthersNumber DEF Connected
    <3> QED BY <3>1, <3>2, <3>3
  <2>4. Shares(d)'
    BY <1>1, <1>3, <1>5, <2>1, <2>3 DEF Shares
  <2> QED BY <2>2, <2>4
<1> QED BY <1>4, <1>5 DEF Connected

LEMMA ConnectedStep ==
  ASSUME Typed, Connected, [Next]_vars
  PROVE  Connected'
<1> USE DEF clients
<1>1. backend' = backend
  BY DEF Next, vars, Ask, SaveLegacy, Enter, Resume, Change, Answer, Refuse, TablesCreated, TablesFail,
         Dispose, Disposed, Opened, OpenFails, Commit, Abort, CheckMark, MarkStarted, ReadLegacy,
         MarkDone, CopyFails, Kill
<1> SUFFICES ASSUME backend = "indexedDB"
             PROVE  Connected'
  BY <1>1 DEF Connected
<1>2. ASSUME NEW s, Ask(s) \/ (s \in Groups /\ SaveLegacy(s))
      PROVE  Connected'
  BY <1>2, EntersWhat, EnterConnected
<1>3. ASSUME NEW c \in opening, Opened(c) \/ OpenFails(c)
      PROVE  Connected'
  BY <1>3, OpenedConnected, OpenFailsConnected
<1>4. ASSUME NEW s \in Slots, Resume(s)
      PROVE  Connected'
  BY <1>4, ResumeConnected
<1>5. ASSUME NEW r \in Repos, Dispose(r)
      PROVE  Connected'
  BY <1>5, DisposeConnected
<1>6. ASSUME NEW p \in disposing, Disposed(p)
      PROVE  Connected'
  BY <1>6, DisposedConnected
<1>7. CASE Kill
  <2>1. /\ \A s \in Slots : calls'[s] = None
        /\ \A r \in Repos : handle'[r] = None
        /\ disposing' = {} /\ opening' = {}
        /\ \A d \in Databases : db'[d].conn = None /\ db'[d].users = 0
    BY <1>7 DEF Kill, NoEntry
  <2>2. \A d \in Databases : Awaiting(d)' = {} /\ Holding(d)' = {}
    BY <2>1 DEF Awaiting, Holding, Stage
  <2>3. \A d \in Databases : Counted(d)'
    BY <2>1, <2>2, FS_EmptySet DEF Counted
  <2>4. \A d \in Databases : Shares(d)'
    BY <2>1, <2>2 DEF Shares
  <2> QED BY <2>1, <2>3, <2>4 DEF Connected, Numbered
<1>8. CASE /\ ~\E s : Ask(s) \/ (s \in Groups /\ SaveLegacy(s))
           /\ \/ \E s \in Slots : Change(s) \/ Answer(s) \/ Refuse(s)
              \/ \E r \in Repos : TablesCreated(r) \/ TablesFail(r)
              \/ \E u \in uncommitted : Commit(u) \/ Abort(u)
              \/ CheckMark \/ MarkStarted \/ ReadLegacy \/ MarkDone \/ CopyFails
              \/ UNCHANGED vars
  <2>1. UNCHANGED <<handle, disposing, db, opening, live, overlapped, disposals>>
    BY <1>8 DEF Change, Answer, Refuse, TablesCreated, TablesFail, Commit, Abort, CheckMark, MarkStarted,
                ReadLegacy, MarkDone, CopyFails, vars
  <2> QED BY <1>8, <2>1, ConnectionFrame
<1> QED BY <1>2, <1>3, <1>4, <1>5, <1>6, <1>7, <1>8 DEF Next

\* A repository that has a connection and is not being disposed of has an open one,
\* whoever opens and disposes of the same database, however opens, calls and
\* disposals of different repositories interleave. (openDatabase, closeDatabase, getDB)
LEMMA HandlesOpen ==
  ASSUME Typed, Connected
  PROVE  HandleIsOpen
<1> SUFFICES ASSUME NEW r \in Repos, handle[r] # None, ~BeingDisposed(r), DatabaseOf(r) \notin overlapped
             PROVE  handle[r] \in live
  BY DEF HandleIsOpen
<1>1. backend = "indexedDB"
  BY DEF Typed
<1>2. r \in Holding(DatabaseOf(r)) /\ DatabaseOf(r) \in Databases
  BY Repositories DEF Holding
<1> QED BY <1>1, <1>2 DEF Connected, Shares

-----------------------------------------------------------------------------
(* What was told.  A saved row is committed before its caller is told, and    *)
(* no transaction under way takes it away again.                             *)

SavesHistory(q) == Put("transactions", RowsOf(q))

\* A call that waits for its commit has one change to make.
LateCalls ==
  \A s \in Slots : Stage(s) \in {"opening", "running"} /\ Late(s) =>
    calls[s].left = <<SavesHistory(calls[s].req)>>

\* Transactions under way keep off each other's tables; the one a call waits
\* for saves what the call asks.
Apart == \A u, v \in uncommitted : u # v => u.change.tables \cap v.change.tables = {}
Awaited == \A u \in uncommitted : u.waits # None =>
             u.change = SavesHistory(u.req) /\ u.req.table = "transactions"

Promised(x) == backend = "indexedDB" => x.table = "transactions"

ToldIsKept ==
  \A x \in told : Promised(x) =>
    /\ x.table \in Tables /\ x.row \in disk[x.table]
    /\ \A u \in uncommitted : ~Gone(u.change, x.table, x.row)

Kept == LateCalls /\ Apart /\ Awaited /\ ToldIsKept

LEMMA KeptSurvives ==
  ASSUME Kept
  PROVE  AcknowledgedSurvives
<1> SUFFICES ASSUME NEW x \in told, Promised(x)
             PROVE  x.row \in View(x.table)
  BY DEF AcknowledgedSurvives, Promised
<1>1. /\ x.table \in Tables /\ x.row \in disk[x.table]
      /\ \A u \in uncommitted : ~Gone(u.change, x.table, x.row)
  BY DEF Kept, ToldIsKept
<1> DEFINE open == {u \in uncommitted : x.table \in u.change.tables}
<1>2. CASE open = {}
  BY <1>1, <1>2 DEF View
<1>3. CASE open # {}
  <2> DEFINE u == CHOOSE v \in open : TRUE
  <2>1. u \in open
    BY <1>3
  <2> HIDE DEF u
  <2>2. x.row \in Apply(disk, u.change)[x.table]
    BY <1>1, <2>1 DEF Apply
  <2>3. View(x.table) = Apply(disk, u.change)[x.table]
    BY <1>3 DEF View, u
  <2> QED BY <2>2, <2>3
<1> QED BY <1>2, <1>3

LEMMA BackendStays ==
  ASSUME [Next]_vars
  PROVE  backend' = backend
BY DEF clients, Next, vars, Ask, SaveLegacy, Enter, Resume, Change, Answer, Refuse, TablesCreated, TablesFail,
       Dispose, Disposed, Opened, OpenFails, Commit, Abort, CheckMark, MarkStarted, ReadLegacy,
       MarkDone, CopyFails, Kill

LEMMA LateStep ==
  ASSUME Typed, LateCalls, [Next]_vars
  PROVE  LateCalls'
<1> SUFFICES ASSUME NEW s \in Slots, Stage(s)' \in {"opening", "running"}, backend = "indexedDB",
                    ~ResolvesEarly(calls'[s].req)
             PROVE  calls'[s].left = <<SavesHistory(calls'[s].req)>>
  BY BackendStays DEF LateCalls, Late, ResolvesEarly, SavesHistory, Put
<1>1. calls'[s] # None /\ calls'[s].stage \in {"opening", "running"}
  BY DEF Stage
<1>2. CASE calls'[s] = calls[s]
  BY <1>1, <1>2 DEF LateCalls, Late, Stage
<1>3. CASE Entered(s)
  <2>1. PICK q, conn : \E stage \in {"opening", "running"} : q.table \in Tables /\ calls'[s] = At(q, stage, conn)
    BY <1>3 DEF Entered
  <2>2. calls'[s].req = q /\ calls'[s].left = Steps(q)
    BY <2>1, CallEntered
  <2>3. q.op = "save" /\ q.table = "transactions"
    BY <2>2 DEF ResolvesEarly
  <2> QED BY <2>2, <2>3 DEF Steps, IndexedDBSteps, SavesHistory
<1>4. CASE Resumed(s)
  <2>1. PICK conn : calls'[s] = [req |-> calls[s].req, stage |-> "running", conn |-> conn, left |-> calls[s].left]
    BY <1>4, Zenon DEF Resumed
  <2>2. calls'[s].req = calls[s].req /\ calls'[s].left = calls[s].left
    BY <2>1, StageIs
  <2>3. Stage(s) = "opening"
    BY <1>4 DEF Resumed
  <2> QED BY <2>2, <2>3 DEF LateCalls, Late
<1>5. CASE WentOn(s)
  <2>1. PICK left : \E stage \in {"running", "committing"} :
          /\ calls'[s] = [req |-> calls[s].req, stage |-> stage, conn |-> calls[s].conn, left |-> left]
          /\ Late(s) /\ Len(calls[s].left) = 1 => stage = "committing"
    BY <1>5, Zenon DEF WentOn
  <2>2. PICK stage \in {"running", "committing"} :
          /\ calls'[s].req = calls[s].req /\ calls'[s].stage = stage
          /\ Late(s) /\ Len(calls[s].left) = 1 => stage = "committing"
    BY <2>1, StageIs
  <2>3. Stage(s) = "running"
    BY <1>5 DEF WentOn
  <2>4. calls[s].left = <<SavesHistory(calls[s].req)>>
    BY <2>2, <2>3 DEF LateCalls, Late
  <2> QED BY <1>1, <2>2, <2>4 DEF Late
<1>6. ~Ended(s)
  BY <1>1 DEF Ended, Outcomes
<1> QED BY <1>2, <1>3, <1>4, <1>5, <1>6, CallsStep DEF CallsFollow

\* What is told stays so, with the keys of the same store.
LEMMA ToldNext ==
  ASSUME backend' = backend,
         \A x \in told' : Promised(x) =>
           /\ x.table \in Tables /\ x.row \in disk'[x.table]
           /\ \A u \in uncommitted' : ~Gone(u.change, x.table, x.row)
  PROVE  ToldIsKept'
<1> SUFFICES ASSUME NEW x \in told', Promised(x)'
             PROVE  /\ x.table \in Tables /\ x.row \in disk'[x.table]
                    /\ \A u \in uncommitted' : ~Gone(u.change, x.table, x.row)'
  BY DEF ToldIsKept
<1>1. Promised(x)
  BY DEF Promised
<1>2. ASSUME NEW u \in uncommitted'
      PROVE  ~Gone(u.change, x.table, x.row)'
  <2>1. ~Gone(u.change, x.table, x.row)
    BY <1>1
  <2>2. \A t, r : IndexedDBKey(t, r)' = IndexedDBKey(t, r) /\ SQLiteKey(t, r)' = SQLiteKey(t, r)
                  /\ RealmKey(t, r)' = RealmKey(t, r) /\ MemoryKey(t, r)' = MemoryKey(t, r)
    BY DEF IndexedDBKey, SQLiteKey, RealmKey, MemoryKey
  <2> QED BY <2>1, <2>2 DEF Gone, Key
<1> QED BY <1>1, <1>2

\* A change of IndexedDB joins those under way; another store commits it at once.
LEMMA ChangeKept ==
  ASSUME Typed, Kept, NEW s \in Slots, Change(s)
  PROVE  Apart' /\ Awaited' /\ ToldIsKept'
<1> DEFINE q == calls[s].req
           e == Head(calls[s].left)
           waits == IF Late(s) THEN s ELSE None
           resolved == Len(calls[s].left) = 1 /\ ~Late(s)
           new == [change |-> e, waits |-> waits, req |-> q]
           heard == IF resolved THEN {x \in Saved(q) : x.row \in Apply(disk, e)[x.table]} ELSE {}
<1>1. /\ MayRun(s) /\ calls[s].left # <<>> /\ backend' = backend
      /\ told' = Current(e) \cup heard
      /\ IF backend = "indexedDB" THEN uncommitted' = uncommitted \cup {new} /\ disk' = disk
                                  ELSE disk' = Apply(disk, e) /\ uncommitted' = uncommitted
  <2>1. heard = IF Len(calls[s].left) = 1 /\ ~(backend = "indexedDB" /\ ~ResolvesEarly(calls[s].req))
                THEN {x \in Saved(q) : x.row \in Apply(disk, e)[x.table]} ELSE {}
    BY DEF Late
  <2>2. new = [change |-> Head(calls[s].left),
               waits |-> IF backend = "indexedDB" /\ ~ResolvesEarly(calls[s].req) THEN s ELSE None,
               req |-> calls[s].req]
    BY DEF Late
  <2> HIDE DEF heard, new
  <2> QED BY <2>1, <2>2 DEF Change
<1>2. Stage(s) = "running" /\ q.table \in Tables
      /\ \A u \in uncommitted : u.change.tables \cap e.tables = {}
  BY <1>1, StageOfCall DEF MayRun
<1>3. Late(s) => e = SavesHistory(q) /\ q.table = "transactions"
  <2> SUFFICES ASSUME Late(s)
               PROVE  e = SavesHistory(q) /\ q.table = "transactions"
    OBVIOUS
  <2>1. calls[s].left = <<SavesHistory(q)>>
    BY <1>2 DEF Kept, LateCalls
  <2> QED BY <2>1 DEF Late, ResolvesEarly
<1>4. new.change = e /\ new.waits = waits /\ new.req = q
  OBVIOUS
<1> HIDE DEF new
<1>5. uncommitted' \subseteq uncommitted \cup {new}
  BY <1>1
<1>6. Apart'
  BY <1>2, <1>4, <1>5 DEF Kept, Apart
<1>7. Awaited'
  <2> SUFFICES ASSUME NEW u \in uncommitted', u.waits # None
               PROVE  u.change = SavesHistory(u.req) /\ u.req.table = "transactions"
    BY DEF Awaited, SavesHistory, Put, RowsOf
  <2>1. CASE u \in uncommitted
    BY <2>1 DEF Kept, Awaited
  <2>2. CASE u = new
    BY <1>3, <1>4, <2>2
  <2> QED BY <1>5, <2>1, <2>2
<1>8. ToldIsKept'
  <2> SUFFICES ASSUME NEW x \in told', Promised(x)
               PROVE  /\ x.table \in Tables /\ x.row \in disk'[x.table]
                      /\ \A u \in uncommitted' : ~Gone(u.change, x.table, x.row)
    BY <1>1, ToldNext
  <2>1. CASE x \in Current(e)
    <3>1. x \in told /\ ~Gone(e, x.table, x.row)
      BY <2>1 DEF Current
    <3>2. /\ x.table \in Tables /\ x.row \in disk[x.table]
          /\ \A u \in uncommitted : ~Gone(u.change, x.table, x.row)
      BY <3>1 DEF Kept, ToldIsKept
    <3>3. x.row \in Apply(disk, e)[x.table]
      BY <3>1, <3>2 DEF Apply
    <3> QED BY <1>1, <1>4, <1>5, <3>1, <3>2, <3>3
  <2>2. CASE x \in heard
    <3>1. resolved /\ x \in Saved(q) /\ x.row \in Apply(disk, e)[x.table]
      BY <2>2
    <3>2. q.op = "save" /\ x.table = q.table
      BY <3>1 DEF Saved
    <3>3. backend # "indexedDB"
      BY <3>1, <3>2 DEF Promised, Late, ResolvesEarly
    <3>4. uncommitted' = {}
      BY <1>1, <3>3 DEF Typed
    <3> QED BY <1>1, <1>2, <3>1, <3>2, <3>3, <3>4
  <2> QED BY <1>1, <2>1, <2>2
<1> QED BY <1>6, <1>7, <1>8

\* A commit, or an abort.
LEMMA CommitKept ==
  ASSUME Typed, Kept, NEW u \in uncommitted, Commit(u) \/ Abort(u)
  PROVE  Apart' /\ Awaited' /\ ToldIsKept'
<1>1. uncommitted' = uncommitted \ {u} /\ backend' = backend
  BY DEF Commit, Abort
<1>2. Apart' /\ Awaited'
  BY <1>1 DEF Kept, Apart, Awaited, SavesHistory, Put, RowsOf
<1>3. ToldIsKept'
  <2> SUFFICES ASSUME NEW x \in told', Promised(x)
               PROVE  /\ x.table \in Tables /\ x.row \in disk'[x.table]
                      /\ \A v \in uncommitted' : ~Gone(v.change, x.table, x.row)
    BY <1>1, ToldNext
  <2>1. CASE x \in told
    <3>1. /\ x.table \in Tables /\ x.row \in disk[x.table]
          /\ \A v \in uncommitted : ~Gone(v.change, x.table, x.row)
      BY <2>1 DEF Kept, ToldIsKept
    <3>2. x.row \in Apply(disk, u.change)[x.table]
      BY <3>1 DEF Apply
    <3>3. x.row \in disk'[x.table]
      BY <3>1, <3>2 DEF Commit, Abort, clients
    <3> QED BY <1>1, <3>1, <3>3
  <2>2. CASE x \notin told
    <3>1. u.waits # None /\ x \in Saved(u.req) /\ disk' = Apply(disk, u.change)
      BY <2>2 DEF Commit, Abort
    <3>2. u.change = SavesHistory(u.req) /\ u.req.table = "transactions"
      BY <3>1 DEF Kept, Awaited
    <3>3. x.table = "transactions" /\ x.row \in RowsOf(u.req)
      BY <3>1, <3>2 DEF Saved
    <3>4. u.change.tables = {"transactions"} /\ u.change.rows = RowsOf(u.req)
      BY <3>2 DEF SavesHistory, Put
    <3>5. "transactions" \in Tables
      BY DEF Tables, WalletTables, Wallet
    <3>6. x.row \in disk'[x.table]
      BY <3>1, <3>3, <3>4, <3>5 DEF Apply
    <3>7. \A v \in uncommitted' : ~Gone(v.change, x.table, x.row)
      BY <1>1, <3>3, <3>4 DEF Kept, Apart, Gone
    <3> QED BY <3>3, <3>5, <3>6, <3>7
  <2> QED BY <2>1, <2>2
<1> QED BY <1>2, <1>3

LEMMA KeptStep ==
  ASSUME Typed, Kept, [Next]_vars
  PROVE  Kept'
<1> USE DEF clients
<1>1. LateCalls'
  BY LateStep DEF Kept
<1>2. ASSUME UNCHANGED <<disk, uncommitted, told>>
      PROVE  Apart' /\ Awaited' /\ ToldIsKept'
  <2>1. Apart' /\ Awaited'
    BY <1>2 DEF Kept, Apart, Awaited, SavesHistory, Put, RowsOf
  <2>2. ToldIsKept'
    <3>1. \A x \in told' : Promised(x) =>
            /\ x.table \in Tables /\ x.row \in disk'[x.table]
            /\ \A u \in uncommitted' : ~Gone(u.change, x.table, x.row)
      BY <1>2 DEF Kept, ToldIsKept
    <3> QED BY <3>1, BackendStays, ToldNext
  <2> QED BY <2>1, <2>2
<1>3. ASSUME NEW s \in Slots, Change(s)
      PROVE  Apart' /\ Awaited' /\ ToldIsKept'
  BY <1>3, ChangeKept
<1>4. ASSUME NEW u \in uncommitted, Commit(u) \/ Abort(u)
      PROVE  Apart' /\ Awaited' /\ ToldIsKept'
  BY <1>4, CommitKept
<1>5. ASSUME Kill
      PROVE  Apart' /\ Awaited' /\ ToldIsKept'
  <2>1. uncommitted' = {} /\ (told' = {} \/ (told' = told /\ disk' = disk))
    BY <1>5 DEF Kill
  <2>2. Apart' /\ Awaited'
    BY <2>1 DEF Apart, Awaited
  <2>3. ToldIsKept'
    <3>1. \A x \in told' : Promised(x) =>
            /\ x.table \in Tables /\ x.row \in disk'[x.table]
            /\ \A u \in uncommitted' : ~Gone(u.change, x.table, x.row)
      BY <2>1 DEF Kept, ToldIsKept
    <3> QED BY <3>1, BackendStays, ToldNext
  <2> QED BY <2>2, <2>3
<1>6. ASSUME \/ \E s \in Slots : Ask(s) \/ Resume(s) \/ Answer(s) \/ Refuse(s)
             \/ \E r \in Repos : TablesCreated(r) \/ TablesFail(r) \/ Dispose(r)
             \/ \E p \in disposing : Disposed(p)
             \/ \E c \in opening : Opened(c) \/ OpenFails(c)
             \/ CheckMark \/ MarkStarted \/ ReadLegacy \/ MarkDone \/ CopyFails
             \/ \E g \in Groups : SaveLegacy(g)
             \/ UNCHANGED vars
      PROVE  Apart' /\ Awaited' /\ ToldIsKept'
  <2>1. UNCHANGED <<disk, uncommitted, told>>
    BY <1>6 DEF Ask, SaveLegacy, Enter, Resume, Answer, Refuse, TablesCreated, TablesFail, Dispose, Disposed,
                Opened, OpenFails, CheckMark, MarkStarted, ReadLegacy, MarkDone, CopyFails, vars
  <2> QED BY <1>2, <2>1
<1> QED BY <1>1, <1>3, <1>4, <1>5, <1>6, <1>2 DEF Next, Kept

-----------------------------------------------------------------------------
Inv == Typed /\ Connected /\ Kept

LEMMA InitInv ==
  ASSUME Init
  PROVE  Inv
<1>1. /\ \A s \in Slots : calls[s] = None
      /\ \A r \in Repos : handle[r] = None
      /\ disposing = {} /\ opening = {}
      /\ \A d \in Databases : db[d].conn = None /\ db[d].users = 0
      /\ uncommitted = {} /\ told = {} /\ disposals = 0
  BY DEF Init, NoEntry
<1>2. Typed
  <2>1. NoEntry \in Entries
    BY DEF NoEntry, Entries
  <2> QED BY <1>1, <2>1, ConstantsAssumption DEF Init, Typed, Stage
<1>3. Connected
  <2>1. \A d \in Databases : Awaiting(d) = {} /\ Holding(d) = {}
    BY <1>1 DEF Awaiting, Holding, Stage
  <2>2. \A d \in Databases : Counted(d)
    BY <1>1, <2>1, FS_EmptySet DEF Counted
  <2>3. \A d \in Databases : Shares(d)
    BY <1>1, <2>1 DEF Shares
  <2> QED BY <1>1, <2>2, <2>3 DEF Connected, Numbered
<1>4. Kept
  BY <1>1 DEF Kept, LateCalls, Apart, Awaited, ToldIsKept, Stage
<1> QED BY <1>2, <1>3, <1>4 DEF Inv

LEMMA Inductive == Spec => []Inv
<1>1. Init => Inv
  BY InitInv
<1>2. Inv /\ [Next]_vars => Inv'
  BY TypeStep, ConnectedStep, KeptStep DEF Inv
<1> QED BY <1>1, <1>2, PTL DEF Spec

\* A repository of IndexedDB that has a connection, and is not being disposed of, has
\* an open one, whoever else opens, fails to open and disposes of the same database at
\* the same time; unless a repository of that database was disposed of again, taking a
\* second count, before its first disposal had ended. (openDatabase, closeDatabase,
\* getDB, asyncDispose)
THEOREM HandlesStayOpen == Spec => []HandleIsOpen
<1>1. Inv => HandleIsOpen
  BY HandlesOpen DEF Inv
<1> QED BY <1>1, Inductive, PTL

\* What a caller was told is saved is kept until a later call replaces it, over the
\* end of the process too; on IndexedDB, which mostly answers before it commits, for
\* the transaction history. (saveTransactions, SQLite and Realm repositories)
THEOREM ToldSurvives == Spec => []AcknowledgedSurvives
<1>1. Inv => AcknowledgedSurvives
  BY KeptSurvives DEF Inv
<1> QED BY <1>1, Inductive, PTL

-----------------------------------------------------------------------------
(* The migration.  Its calls save rows of the old storage and nothing else,   *)
(* so none takes away what another has saved.                                *)

RowsOfGroup(g) == {l.row : l \in {x \in Legacy : GroupOf(x) = g}}
SavesOf(g) == {Put(g[1], rows) : rows \in SUBSET RowsOfGroup(g)}

\* No two rows of the old storage have one place in a store: the old adapter
\* keeps an output once for its address, and an output has one address.
LegacyIsDistinct ==
  \A l, m \in Legacy : l.table = m.table /\ l # m =>
    /\ IndexedDBKey(l.table, l.row) # IndexedDBKey(l.table, m.row)
    /\ SQLiteKey(l.table, l.row) # SQLiteKey(l.table, m.row)
    /\ RealmKey(l.table, l.row) # RealmKey(l.table, m.row)
    /\ MemoryKey(l.table, l.row) # MemoryKey(l.table, m.row)

UnderWay(s) == Stage(s) \in {"opening", "running", "committing"}

\* The application waits for the migration, and that for its mark.
AppWaits == mig # "ready" => \A s \in Calls : ~UnderWay(s)
CopyWaits ==
  mig \in {"start", "mark", "read"} => uncommitted = {} /\ \A g \in Groups : Stage(g) = "idle"

CopiesGo ==
  /\ \A g \in Groups : UnderWay(g) => calls[g].req = Copy(g) /\ calls[g].left \in Seq(SavesOf(g))
  /\ \A u \in uncommitted : /\ \E g \in Groups : u.change \in SavesOf(g)
                            /\ u.waits # None => u.waits \in Groups /\ u.req = Copy(u.waits)

\* A row is saved, or among what its call has still to save.
RowGoes(l) ==
  LET g == GroupOf(l) IN
  /\ Stage(g) = "ok" => l.row \in disk[l.table]
  /\ Stage(g) \in {"opening", "running"} =>
       l.row \in disk[l.table] \/ \E i \in DOMAIN calls[g].left : l.row \in calls[g].left[i].rows

ToCopy == {l \in Legacy \ unread : Promised(l)}

Copies == mig = "save" => CopiesGo /\ \A l \in ToCopy : RowGoes(l)

Migrating == AppWaits /\ CopyWaits /\ Copies

-----------------------------------------------------------------------------
LEMMA GroupsOfRows ==
  ASSUME NEW l \in Legacy
  PROVE  /\ GroupOf(l) \in Groups /\ GroupOf(l) \in Slots /\ GroupOf(l) \notin Calls
         /\ GroupOf(l)[1] = l.table /\ l.row \in RowsOfGroup(GroupOf(l)) /\ l.table \in Tables
<1>1. GroupOf(l) \in Groups
  BY DEF GroupOf, Groups
<1> QED BY <1>1, ConstantsAssumption DEF GroupOf, Slots, RowsOfGroup

LEMMA KeysOfRows ==
  ASSUME LegacyIsDistinct, NEW l \in Legacy, NEW m \in Legacy,
         l.table = m.table, Key(l.table, m.row) = Key(l.table, l.row)
  PROVE  l = m
BY DEF LegacyIsDistinct, Key

LEMMA SaveOf ==
  ASSUME NEW g, NEW e \in SavesOf(g)
  PROVE  e.tables = {g[1]} /\ e.drop = "replaced" /\ e.rows \subseteq RowsOfGroup(g)
BY DEF SavesOf, Put

\* A save of rows of the old storage keeps every row of it.
LEMMA SavesKeep ==
  ASSUME LegacyIsDistinct, NEW g, NEW e \in SavesOf(g), NEW l \in Legacy, NEW d, l.row \in d[l.table]
  PROVE  l.row \in Apply(d, e)[l.table]
<1>1. l.table \in Tables
  BY GroupsOfRows
<1>2. CASE ~Gone(e, l.table, l.row)
  BY <1>1, <1>2 DEF Apply
<1>3. CASE Gone(e, l.table, l.row)
  <2>1. PICK x \in e.rows : Key(l.table, x) = Key(l.table, l.row)
    BY <1>3, SaveOf DEF Gone
  <2>2. PICK m \in Legacy : GroupOf(m) = g /\ x = m.row
    BY <2>1, SaveOf DEF RowsOfGroup
  <2>3. m.table = g[1] /\ l.table = g[1]
    BY <1>3, <2>2, SaveOf, GroupsOfRows DEF Gone
  <2>4. l.row \in e.rows
    BY <2>1, <2>2, <2>3, KeysOfRows
  <2> QED BY <1>1, <2>3, <2>4, SaveOf DEF Apply
<1> QED BY <1>2, <1>3

\* The call that copies a group saves what was read of it.
LEMMA SequenceOfSet ==
  ASSUME NEW S, IsFiniteSet(S)
  PROVE  /\ SetToSeq(S) \in Seq(S)
         /\ {SetToSeq(S)[i] : i \in DOMAIN SetToSeq(S)} = S
<1>1. PICK n \in Nat : ExistsBijection(1 .. n, S)
  BY FS_NatBijection
<1>2. Cardinality(S) = n
  BY <1>1, FS_CountingElements
<1>3. \E f \in [1 .. n -> S] : IsInjective(f)
  BY <1>1 DEF ExistsBijection, Bijection, Injection
<1>4. SetToSeq(S) \in [1 .. n -> S] /\ IsInjective(SetToSeq(S))
  BY <1>2, <1>3 DEF SetToSeq
<1>5. SetToSeq(S) \in Injection(1 .. n, S)
  BY <1>4 DEF Injection
<1>6. IsFiniteSet(1 .. n) /\ Cardinality(1 .. n) = n
  BY FS_Interval
<1>7. SetToSeq(S) \in Surjection(1 .. n, S)
  BY <1>2, <1>5, <1>6, FS_Injection
<1>8. {SetToSeq(S)[i] : i \in 1 .. n} = S
  BY <1>4, <1>7 DEF Surjection
<1> QED BY <1>4, <1>8

LEMMA CopySteps ==
  ASSUME Typed, NEW g \in Groups
  PROVE  /\ Copy(g).op = "save" /\ Copy(g).table = g[1]
         /\ RowsOf(Copy(g)) = {l.row : l \in {x \in Legacy \ unread : GroupOf(x) = g}}
         /\ Steps(Copy(g)) \in Seq(SavesOf(g))
         /\ \A l \in Legacy \ unread : GroupOf(l) = g =>
              \E i \in DOMAIN Steps(Copy(g)) : l.row \in Steps(Copy(g))[i].rows
<1> DEFINE S == {l.row : l \in {x \in Legacy \ unread : GroupOf(x) = g}}
           q == Copy(g)
<1>1. q.op = "save" /\ q.table = g[1] /\ q.rows = SetToSeq(S)
  BY DEF Copy
<1>2. IsFiniteSet(S) /\ S \subseteq RowsOfGroup(g)
  <2>1. S \subseteq RowsOfGroup(g)
    BY DEF RowsOfGroup
  <2> DEFINE L == {x \in Legacy \ unread : GroupOf(x) = g}
             f == [l \in L |-> l.row]
  <2>2. IsFiniteSet(L)
    BY ConstantsAssumption, FS_Subset
  <2>3. f \in Surjection(L, S)
    BY DEF Surjection
  <2>4. IsFiniteSet(S)
    BY <2>2, <2>3, FS_Surjection
  <2> HIDE DEF S
  <2> QED BY <2>1, <2>4
<1>3. q.rows \in Seq(S) /\ RowsOf(q) = S
  <2> HIDE DEF S, q
  <2>1. RowsOf(q) = {q.rows[i] : i \in DOMAIN q.rows}
    BY DEF RowsOf
  <2> QED BY <1>1, <1>2, <2>1, SequenceOfSet
<1>4. \A l \in Legacy \ unread : GroupOf(l) = g => l.row \in S
  OBVIOUS
<1> HIDE DEF S, q
<1>5. Put(g[1], S) \in SavesOf(g) /\ Put(g[1], S).rows = S
      /\ \A r \in S : Put(g[1], {r}) \in SavesOf(g) /\ Put(g[1], {r}).rows = {r}
  BY <1>2 DEF SavesOf, Put
<1>6. CASE backend # "sqlite"
  <2>1. Steps(q) = <<Put(g[1], S)>>
    BY <1>1, <1>3, <1>6 DEF Steps, IndexedDBSteps, RealmSteps, MemorySteps
  <2>2. Steps(q) \in Seq(SavesOf(g)) /\ 1 \in DOMAIN Steps(q) /\ Steps(q)[1] = Put(g[1], S)
    BY <1>5, <2>1
  <2> QED BY <1>1, <1>3, <1>4, <1>5, <2>2 DEF q, S
<1>7. CASE backend = "sqlite"
  <2>1. Steps(q) = [i \in DOMAIN q.rows |-> Put(g[1], {q.rows[i]})]
    BY <1>1, <1>7 DEF Steps, SQLiteSteps
  <2>2. DOMAIN q.rows = 1 .. Len(q.rows) /\ Len(q.rows) \in Nat /\ \A i \in DOMAIN q.rows : q.rows[i] \in S
    BY <1>3
  <2>3. Steps(q) \in Seq(SavesOf(g))
    BY <1>5, <2>1, <2>2
  <2>4. ASSUME NEW l \in Legacy \ unread, GroupOf(l) = g
        PROVE  \E i \in DOMAIN Steps(q) : l.row \in Steps(q)[i].rows
    <3>1. PICK i \in DOMAIN q.rows : q.rows[i] = l.row
      BY <1>3, <1>4, <2>4 DEF RowsOf
    <3>2. i \in DOMAIN Steps(q) /\ Steps(q)[i] = Put(g[1], {l.row})
      BY <2>1, <3>1
    <3> QED BY <1>4, <1>5, <2>4, <3>2
  <2> QED BY <1>1, <1>3, <2>3, <2>4 DEF q, S
<1> QED BY <1>6, <1>7

-----------------------------------------------------------------------------
\* What does not change the store keeps the copies: a call stays, goes on to run,
\* or ends without success.
LEMMA CopiesFrame ==
  ASSUME Typed, Copies, mig = "save", UNCHANGED <<backend, unread, disk>>, uncommitted' \subseteq uncommitted,
         \A g \in Groups :
           \/ calls'[g] = calls[g]
           \/ Stage(g)' \in {"idle", "failed"}
           \/ /\ Stage(g) = "opening" /\ Stage(g)' = "running"
              /\ calls'[g].req = calls[g].req /\ calls'[g].left = calls[g].left
  PROVE  Copies'
<1>1. \A g : Copy(g)' = Copy(g)
  BY DEF Copy
<1>2. CopiesGo'
  <2>1. ASSUME NEW g \in Groups, UnderWay(g)'
        PROVE  UnderWay(g) /\ calls'[g].req = calls[g].req /\ calls'[g].left = calls[g].left
    BY <2>1 DEF UnderWay, Stage
  <2>2. \A g \in Groups : UnderWay(g)' => calls'[g].req = Copy(g) /\ calls'[g].left \in Seq(SavesOf(g))
    BY <2>1 DEF Copies, CopiesGo
  <2>3. \A u \in uncommitted' : /\ \E g \in Groups : u.change \in SavesOf(g)
                                /\ u.waits # None => u.waits \in Groups /\ u.req = Copy(u.waits)
    BY DEF Copies, CopiesGo
  <2> QED BY <1>1, <2>2, <2>3 DEF CopiesGo
<1>3. ASSUME NEW l \in ToCopy
      PROVE  RowGoes(l)'
  <2>1. RowGoes(l) /\ GroupOf(l) \in Groups
    BY <1>3, GroupsOfRows DEF Copies, ToCopy
  <2> QED BY <2>1 DEF RowGoes, GroupOf, Stage
<1>4. ToCopy' = ToCopy
  BY DEF ToCopy, Promised
<1> QED BY <1>2, <1>3, <1>4 DEF Copies

\* The copy of a group begins.
LEMMA CopyEnters ==
  ASSUME Typed, Copies, NEW g \in Groups, SaveLegacy(g)
  PROVE  Copies'
<1>1. mig = "save" /\ Enter(g, Copy(g)) /\ calls[g] = None /\ g \in Slots /\ g \notin Calls
  BY ConstantsAssumption DEF SaveLegacy, Enter, Idle, Slots
<1>2. UNCHANGED <<backend, unread, disk, uncommitted>>
  BY <1>1 DEF Enter
<1>3. /\ \A h \in Groups : h # g => calls'[h] = calls[h]
      /\ \/ Stage(g)' \in {"failed", "idle"}
         \/ \E conn : \E stage \in {"opening", "running"} : calls'[g] = At(Copy(g), stage, conn)
  <2>1. \/ calls' = [calls EXCEPT ![g] = EndOf(g, FALSE)]
        \/ \E conn : \E stage \in {"opening", "running"} :
             calls' = [calls EXCEPT ![g] = At(Copy(g), stage, conn)]
    BY <1>1 DEF Enter, EnterSQLite, EnterIndexedDB
  <2>2. calls = [s \in Slots |-> calls[s]] /\ Groups \subseteq Slots
    BY DEF Typed, Slots
  <2>3. EndOf(g, FALSE) = [stage |-> "failed"] /\ EndOf(g, FALSE).stage = "failed"
    BY <1>1 DEF EndOf
  <2>4. CASE calls' = [calls EXCEPT ![g] = EndOf(g, FALSE)]
    <3>1. calls'[g] = EndOf(g, FALSE)
      BY <2>2, <2>4
    <3>2. Stage(g)' \in {"failed", "idle"}
      BY <2>3, <3>1 DEF Stage
    <3> QED BY <2>2, <2>4, <3>2
  <2>5. CASE \E conn : \E stage \in {"opening", "running"} :
               calls' = [calls EXCEPT ![g] = At(Copy(g), stage, conn)]
    BY <2>2, <2>5
  <2> QED BY <2>1, <2>4, <2>5
<1>4. \A h : Copy(h)' = Copy(h)
  BY <1>2 DEF Copy
<1>5. CASE Stage(g)' \in {"failed", "idle"}
  <2>1. \A h \in Groups : calls'[h] = calls[h] \/ Stage(h)' \in {"failed", "idle"}
    BY <1>3, <1>5
  <2> QED BY <1>1, <1>2, <2>1, CopiesFrame
<1>6. ASSUME NEW conn, NEW stage \in {"opening", "running"}, calls'[g] = At(Copy(g), stage, conn)
      PROVE  Copies'
  <2>1. /\ calls'[g].stage = stage /\ calls'[g].req = Copy(g) /\ calls'[g].left = Steps(Copy(g))
    BY <1>6 DEF At
  <2>2. CopiesGo'
    <3>1. \A h \in Groups : UnderWay(h)' => calls'[h].req = Copy(h) /\ calls'[h].left \in Seq(SavesOf(h))
      <4> SUFFICES ASSUME NEW h \in Groups, UnderWay(h)'
                   PROVE  calls'[h].req = Copy(h) /\ calls'[h].left \in Seq(SavesOf(h))
        OBVIOUS
      <4>1. CASE h = g
        BY <2>1, <4>1, CopySteps
      <4>2. CASE h # g
        <5>1. calls'[h] = calls[h] /\ UnderWay(h)
          BY <1>3, <4>2 DEF UnderWay, Stage
        <5> QED BY <1>1, <5>1 DEF Copies, CopiesGo
      <4> QED BY <4>1, <4>2
    <3> QED BY <1>1, <1>2, <1>4, <3>1 DEF Copies, CopiesGo
  <2>3. ASSUME NEW l \in ToCopy
        PROVE  RowGoes(l)'
    <3>1. RowGoes(l) /\ GroupOf(l) \in Groups
      BY <1>1, <2>3, GroupsOfRows DEF Copies, ToCopy
    <3>2. CASE GroupOf(l) = g
      <4>1. \E i \in DOMAIN calls'[g].left : l.row \in calls'[g].left[i].rows
        BY <2>1, <2>3, <3>2, CopySteps DEF ToCopy
      <4>2. Stage(g)' # "ok"
        BY <2>1 DEF Stage
      <4> QED BY <3>2, <4>1, <4>2 DEF RowGoes, GroupOf
    <3>3. CASE GroupOf(l) # g
      BY <1>2, <1>3, <3>1, <3>3 DEF RowGoes, GroupOf, Stage
    <3> QED BY <3>2, <3>3
  <2>4. ToCopy' = ToCopy
    BY <1>2 DEF ToCopy, Promised
  <2> QED BY <2>2, <2>3, <2>4 DEF Copies
<1> QED BY <1>3, <1>5, <1>6

\* A change of a copy keeps what the others saved, and moves a row from what is
\* left to the store.
LEMMA CopyChanges ==
  ASSUME LegacyIsDistinct, Typed, LateCalls, AppWaits, Copies, mig = "save", NEW s \in Slots, Change(s)
  PROVE  Copies'
<1> DEFINE q == calls[s].req
           left == calls[s].left
           e == Head(left)
           waits == IF Late(s) THEN s ELSE None
           new == [change |-> e, waits |-> waits, req |-> q]
           resolved == Len(left) = 1 /\ ~Late(s)
<1>1. /\ Stage(s) = "running" /\ left # <<>> /\ UNCHANGED <<backend, mig, unread>>
      /\ IF backend = "indexedDB" THEN uncommitted' = uncommitted \cup {new} /\ disk' = disk
                                  ELSE disk' = Apply(disk, e) /\ uncommitted' = uncommitted
  <2>1. new = [change |-> Head(calls[s].left),
               waits |-> IF backend = "indexedDB" /\ ~ResolvesEarly(calls[s].req) THEN s ELSE None,
               req |-> calls[s].req]
    BY DEF Late
  <2> HIDE DEF new
  <2> QED BY <2>1 DEF Change, MayRun
<1>2. s \in Groups /\ s \notin Calls /\ UnderWay(s)
  BY <1>1 DEF AppWaits, UnderWay, Slots
<1>3. q = Copy(s) /\ left \in Seq(SavesOf(s)) /\ e \in SavesOf(s)
  BY <1>1, <1>2 DEF Copies, CopiesGo
<1>4. q.op = "save" /\ q.table = s[1]
  BY <1>2, <1>3, CopySteps
<1>5. /\ \A g \in Groups : g # s => calls'[g] = calls[g]
      /\ resolved => Stage(s)' \in {"ok", "idle"}
      /\ ~resolved => /\ calls'[s].req = q
                      /\ \/ Late(s) /\ calls'[s].left = <<>> /\ calls'[s].stage = "committing"
                         \/ Len(left) # 1 /\ calls'[s].left = Tail(left) /\ calls'[s].stage = "running"
  <2>1. Groups \subseteq Slots /\ calls = [x \in Slots |-> calls[x]] /\ calls' = [calls EXCEPT ![s] = calls'[s]]
    BY ChangeOfCall DEF Typed, Slots
  <2>2. \A g \in Groups : g # s => calls'[g] = calls[g]
    BY <2>1
  <2>3. ASSUME resolved
        PROVE  Stage(s)' \in {"ok", "idle"}
    <3>1. EndOf(s, TRUE).stage = "ok"
      BY <1>2 DEF EndOf
    <3> QED BY <2>3, <3>1, ChangeOfCall DEF Stage
  <2>4. CASE Len(left) = 1 /\ Late(s)
    <3>1. calls'[s] = [req |-> q, stage |-> "committing", conn |-> calls[s].conn, left |-> <<>>]
      BY <2>4, ChangeOfCall
    <3> QED BY <2>2, <2>4, <3>1, StageIs
  <2>5. CASE Len(left) # 1
    <3>1. calls'[s] = [req |-> q, stage |-> "running", conn |-> calls[s].conn, left |-> Tail(left)]
      BY <2>5, ChangeOfCall
    <3> QED BY <2>2, <2>5, <3>1, StageIs
  <2>6. CASE resolved
    BY <2>2, <2>3, <2>6
  <2> QED BY <2>4, <2>5, <2>6
<1>6. \A h : Copy(h)' = Copy(h)
  BY <1>1 DEF Copy
<1> HIDE DEF resolved, new, e, left, q
<1>7. CopiesGo'
  <2>1. ASSUME NEW g \in Groups, UnderWay(g)'
        PROVE  calls'[g].req = Copy(g) /\ calls'[g].left \in Seq(SavesOf(g))
    <3>1. CASE g # s
      <4>1. calls'[g] = calls[g] /\ UnderWay(g)
        BY <1>5, <2>1, <3>1 DEF UnderWay, Stage
      <4> QED BY <4>1 DEF Copies, CopiesGo
    <3>2. CASE g = s
      <4>1. ~resolved
        BY <1>5, <2>1, <3>2 DEF UnderWay
      <4>2. Tail(left) \in Seq(SavesOf(s)) /\ <<>> \in Seq(SavesOf(s))
        BY <1>1, <1>3 DEF left
      <4> QED BY <1>3, <1>5, <3>2, <4>1, <4>2
    <3> QED BY <3>1, <3>2
  <2>2. ASSUME NEW u \in uncommitted'
        PROVE  /\ \E g \in Groups : u.change \in SavesOf(g)
               /\ u.waits # None => u.waits \in Groups /\ u.req = Copy(u.waits)
    <3>1. CASE u \in uncommitted
      BY <3>1 DEF Copies, CopiesGo
    <3>2. CASE u \notin uncommitted
      <4>1. u = new
        BY <1>1, <2>2, <3>2
      <4>2. u.change = e /\ u.waits = waits /\ u.req = q
        BY <4>1 DEF new
      <4> QED BY <1>2, <1>3, <4>2
    <3> QED BY <3>1, <3>2
  <2> QED BY <1>6, <2>1, <2>2 DEF CopiesGo
<1>8. ASSUME NEW l \in ToCopy
      PROVE  RowGoes(l)'
  <2>1. RowGoes(l) /\ GroupOf(l) \in Groups /\ l \in Legacy /\ GroupOf(l)[1] = l.table /\ l.table \in Tables
    BY <1>8, GroupsOfRows DEF Copies, ToCopy
  <2>2. l.row \in disk[l.table] => l.row \in disk'[l.table]
    BY <1>1, <1>3, <2>1, SavesKeep
  <2>3. CASE GroupOf(l) # s
    BY <1>5, <2>1, <2>2, <2>3 DEF RowGoes, GroupOf, Stage
  <2>4. CASE GroupOf(l) = s /\ backend = "indexedDB"
    <3>1. Late(s)
      BY <1>4, <1>8, <2>1, <2>4 DEF Late, ResolvesEarly, ToCopy, Promised, q
    <3>2. Len(left) = 1
      <4>1. left = <<SavesHistory(q)>>
        BY <1>1, <3>1 DEF LateCalls, left, q
      <4> QED BY <4>1
    <3>3. ~resolved /\ Stage(s)' \notin {"ok", "opening", "running"}
      BY <1>5, <3>1, <3>2 DEF Stage, resolved
    <3> QED BY <2>4, <3>3 DEF RowGoes, GroupOf
  <2>5. CASE GroupOf(l) = s /\ backend # "indexedDB"
    <3>1. disk' = Apply(disk, e) /\ ~Late(s)
      BY <1>1, <2>5 DEF Late
    <3>2. CASE l.row \in disk[l.table]
      BY <2>2, <3>2, <2>5 DEF RowGoes, GroupOf
    <3>3. CASE l.row \notin disk[l.table]
      <4>1. PICK i \in DOMAIN left : l.row \in left[i].rows
        BY <1>1, <2>1, <2>5, <3>3 DEF RowGoes, left
      <4>2. CASE i = 1
        <5>1. l.row \in e.rows
          BY <4>1, <4>2, <1>1, <1>3 DEF e, left
        <5>2. l.row \in disk'[l.table]
          BY <1>3, <2>1, <2>5, <3>1, <5>1, SaveOf DEF Apply
        <5> QED BY <2>5, <5>2 DEF RowGoes, GroupOf
      <4>3. CASE i # 1
        <5>1. /\ i - 1 \in DOMAIN Tail(left) /\ Tail(left)[i - 1] = left[i] /\ Len(left) # 1
          <6>1. left \in Seq(SavesOf(s)) /\ left # <<>> /\ i \in 1 .. Len(left) /\ Len(left) \in Nat
            BY <1>1, <1>3, <4>1 DEF left
          <6> HIDE DEF left
          <6> QED BY <4>3, <6>1
        <5>2. ~resolved
          BY <5>1 DEF resolved
        <5>3. calls'[s].left = Tail(left) /\ calls'[s].stage = "running"
          BY <1>5, <3>1, <5>1, <5>2
        <5>4. Stage(s)' # "ok"
          BY <5>3 DEF Stage
        <5> QED BY <2>5, <4>1, <5>1, <5>3, <5>4 DEF RowGoes, GroupOf
      <4> QED BY <4>2, <4>3
    <3> QED BY <3>2, <3>3
  <2> QED BY <2>3, <2>4, <2>5
<1>9. ToCopy' = ToCopy
  BY <1>1 DEF ToCopy, Promised
<1> QED BY <1>7, <1>8, <1>9 DEF Copies

\* A commit makes the rows of the call that awaits it the store's.
LEMMA CopyCommits ==
  ASSUME LegacyIsDistinct, Typed, Awaited, Copies, mig = "save", NEW u \in uncommitted, Commit(u)
  PROVE  Copies'
<1>1. /\ disk' = Apply(disk, u.change) /\ uncommitted' = uncommitted \ {u}
      /\ UNCHANGED <<backend, mig, unread>>
      /\ IF u.waits = None THEN calls' = calls ELSE calls' = [calls EXCEPT ![u.waits] = EndOf(u.waits, TRUE)]
  BY DEF Commit
<1>2. PICK h \in Groups : u.change \in SavesOf(h)
  BY DEF Copies, CopiesGo
<1>3. u.waits # None => /\ u.waits \in Groups /\ u.req = Copy(u.waits)
                        /\ u.change = SavesHistory(u.req)
  BY DEF Copies, CopiesGo, Awaited
<1>4. /\ \A g \in Groups : g # u.waits => calls'[g] = calls[g]
      /\ u.waits # None => Stage(u.waits)' \in {"ok", "idle"}
  <2>1. calls = [s \in Slots |-> calls[s]] /\ Groups \subseteq Slots /\ Groups \cap Calls = {}
    BY ConstantsAssumption DEF Typed, Slots
  <2>2. CASE u.waits = None
    BY <1>1, <2>2
  <2>3. CASE u.waits # None
    <3>1. EndOf(u.waits, TRUE).stage = "ok"
      BY <1>3, <2>1, <2>3 DEF EndOf
    <3>2. calls'[u.waits] = EndOf(u.waits, TRUE)
      BY <1>1, <1>3, <2>1, <2>3
    <3> QED BY <1>1, <1>3, <2>1, <2>3, <3>1, <3>2 DEF Stage
  <2> QED BY <2>2, <2>3
<1>5. \A g : Copy(g)' = Copy(g)
  BY <1>1 DEF Copy
<1>6. CopiesGo'
  <2>1. ASSUME NEW g \in Groups, UnderWay(g)'
        PROVE  calls'[g] = calls[g] /\ UnderWay(g)
    <3>1. calls'[g] = calls[g]
      <4>1. CASE u.waits # None
        BY <1>3, <1>4, <2>1, <4>1 DEF UnderWay
      <4>2. CASE u.waits = None
        BY <1>1, <4>2
      <4> QED BY <4>1, <4>2
    <3> QED BY <2>1, <3>1 DEF UnderWay, Stage
  <2>2. \A g \in Groups : UnderWay(g)' => calls'[g].req = Copy(g) /\ calls'[g].left \in Seq(SavesOf(g))
    BY <2>1 DEF Copies, CopiesGo
  <2>3. \A v \in uncommitted' : /\ \E g \in Groups : v.change \in SavesOf(g)
                                /\ v.waits # None => v.waits \in Groups /\ v.req = Copy(v.waits)
    BY <1>1 DEF Copies, CopiesGo
  <2> QED BY <1>5, <2>2, <2>3 DEF CopiesGo
<1>7. ASSUME NEW l \in ToCopy
      PROVE  RowGoes(l)'
  <2>1. RowGoes(l) /\ GroupOf(l) \in Groups /\ l \in Legacy /\ GroupOf(l)[1] = l.table /\ l.table \in Tables
    BY <1>7, GroupsOfRows DEF Copies, ToCopy
  <2>2. l.row \in disk[l.table] => l.row \in disk'[l.table]
    BY <1>1, <1>2, <2>1, SavesKeep
  <2>3. CASE u.waits # None /\ GroupOf(l) = u.waits
    <3>1. l.row \in RowsOf(u.req) /\ u.req.table = l.table
      <4>1. /\ RowsOf(u.req) = {m.row : m \in {x \in Legacy \ unread : GroupOf(x) = u.waits}}
            /\ u.req.table = u.waits[1]
        BY <1>3, <2>3, CopySteps
      <4> QED BY <1>7, <2>1, <2>3, <4>1 DEF ToCopy
    <3>2. u.change.rows = RowsOf(u.req) /\ u.change.tables = {"transactions"} /\ u.req.table = "transactions"
      BY <1>3, <2>3 DEF SavesHistory, Put, Awaited
    <3>3. l.row \in disk'[l.table]
      BY <1>1, <2>1, <3>1, <3>2 DEF Apply
    <3>4. Stage(GroupOf(l))' \in {"ok", "idle"}
      BY <1>4, <2>3
    <3> QED BY <3>3, <3>4 DEF RowGoes, GroupOf
  <2>4. CASE ~(u.waits # None /\ GroupOf(l) = u.waits)
    <3>1. calls'[GroupOf(l)] = calls[GroupOf(l)]
      BY <1>1, <1>4, <2>1, <2>4
    <3> QED BY <2>1, <2>2, <3>1 DEF RowGoes, GroupOf, Stage
  <2> QED BY <2>3, <2>4
<1>8. ToCopy' = ToCopy
  BY <1>1 DEF ToCopy, Promised
<1> QED BY <1>6, <1>7, <1>8 DEF Copies

\* A copy of nothing, or whose last row was saved, is answered.
LEMMA CopyAnswers ==
  ASSUME Typed, AppWaits, Copies, mig = "save", NEW s \in Slots, Answer(s)
  PROVE  Copies'
<1>1. /\ Stage(s) = "running" /\ calls[s].left = <<>> /\ calls' = [calls EXCEPT ![s] = EndOf(s, TRUE)]
      /\ UNCHANGED <<backend, mig, unread, disk, uncommitted>>
  BY DEF Answer
<1>2. s \in Groups /\ s \notin Calls
  BY <1>1 DEF AppWaits, UnderWay, Slots
<1>3. calls'[s] = EndOf(s, TRUE) /\ \A g \in Groups : g # s => calls'[g] = calls[g]
  BY <1>1 DEF Typed, Slots
<1>4. Stage(s)' \in {"ok", "idle"}
  BY <1>2, <1>3 DEF EndOf, Stage
<1>5. \A g : Copy(g)' = Copy(g)
  BY <1>1 DEF Copy
<1>6. CopiesGo'
  <2>1. \A g \in Groups : UnderWay(g)' => calls'[g] = calls[g] /\ UnderWay(g)
    BY <1>3, <1>4 DEF UnderWay, Stage
  <2>2. \A g \in Groups : UnderWay(g)' => calls'[g].req = Copy(g) /\ calls'[g].left \in Seq(SavesOf(g))
    BY <2>1 DEF Copies, CopiesGo
  <2>3. \A u \in uncommitted' : /\ \E g \in Groups : u.change \in SavesOf(g)
                                /\ u.waits # None => u.waits \in Groups /\ u.req = Copy(u.waits)
    BY <1>1 DEF Copies, CopiesGo
  <2> QED BY <1>5, <2>2, <2>3 DEF CopiesGo
<1>7. ASSUME NEW l \in ToCopy
      PROVE  RowGoes(l)'
  <2>1. RowGoes(l) /\ GroupOf(l) \in Groups
    BY <1>7, GroupsOfRows DEF Copies, ToCopy
  <2>2. CASE GroupOf(l) # s
    BY <1>1, <1>3, <2>1, <2>2 DEF RowGoes, GroupOf, Stage
  <2>3. CASE GroupOf(l) = s
    <3>1. l.row \in disk'[l.table]
      BY <1>1, <2>1, <2>3 DEF RowGoes
    <3> QED BY <1>4, <2>3, <3>1 DEF RowGoes, GroupOf
  <2> QED BY <2>2, <2>3
<1>8. ToCopy' = ToCopy
  BY <1>1 DEF ToCopy, Promised
<1> QED BY <1>6, <1>7, <1>8 DEF Copies

LEMMA EndFails ==
  ASSUME NEW s, s \notin Calls, calls'[s] = EndOf(s, FALSE)
  PROVE  Stage(s)' \in {"idle", "failed"}
BY DEF EndOf, Stage

\* While the migration copies, and the process does not end.
LEMMA CopiesStep ==
  ASSUME LegacyIsDistinct, Typed, Kept, Migrating, [Next]_vars, mig = "save", mig' = "save"
  PROVE  Copies'
<1> USE DEF clients
<1>1. Groups \subseteq Slots /\ Groups \cap Calls = {} /\ calls = [s \in Slots |-> calls[s]]
  BY ConstantsAssumption DEF Slots, Typed
<1>2. AppWaits /\ Copies /\ LateCalls /\ Awaited
  BY DEF Migrating, Kept
<1>3. ASSUME NEW g \in Groups, SaveLegacy(g)
      PROVE  Copies'
  BY <1>2, <1>3, CopyEnters
<1>4. ASSUME NEW s \in Slots, Change(s) \/ Answer(s)
      PROVE  Copies'
  BY <1>2, <1>4, CopyChanges, CopyAnswers
<1>5. ASSUME NEW u \in uncommitted, Commit(u)
      PROVE  Copies'
  BY <1>2, <1>5, CopyCommits
<1>6. ASSUME UNCHANGED <<backend, unread, disk>>, uncommitted' \subseteq uncommitted,
             \A g \in Groups :
               \/ calls'[g] = calls[g]
               \/ Stage(g)' \in {"idle", "failed"}
               \/ /\ Stage(g) = "opening" /\ Stage(g)' = "running"
                  /\ calls'[g].req = calls[g].req /\ calls'[g].left = calls[g].left
      PROVE  Copies'
  BY <1>2, <1>6, CopiesFrame
<1>7. ASSUME NEW s \in Slots, Resume(s)
      PROVE  Copies'
  <2> DEFINE c == [calls[s] EXCEPT !.stage = "running"]
  <2>1. Stage(s) = "opening" /\ calls' = [calls EXCEPT ![s] = c]
        /\ UNCHANGED <<backend, unread, disk, uncommitted>>
    BY <1>7 DEF Resume
  <2>2. c = [req |-> calls[s].req, stage |-> "running", conn |-> calls[s].conn, left |-> calls[s].left]
    BY <2>1, StageOfCall, CallGoesOn
  <2>3. c.req = calls[s].req /\ c.stage = "running" /\ c.left = calls[s].left
    BY <2>2, StageIs
  <2> HIDE DEF c
  <2>4. calls'[s] = c /\ \A g \in Groups : g # s => calls'[g] = calls[g]
    BY <1>1, <2>1
  <2>5. \A g \in Groups : \/ calls'[g] = calls[g]
                          \/ Stage(g)' \in {"idle", "failed"}
                          \/ /\ Stage(g) = "opening" /\ Stage(g)' = "running"
                             /\ calls'[g].req = calls[g].req /\ calls'[g].left = calls[g].left
    BY <2>1, <2>3, <2>4 DEF Stage
  <2> QED BY <1>6, <2>1, <2>5
<1>8. ASSUME NEW r \in Repos, TablesCreated(r)
      PROVE  Copies'
  <2>1. UNCHANGED <<backend, unread, disk, uncommitted>>
        /\ calls' = [s \in Slots |-> IF Stage(s) = "opening" /\ RepoOf(calls[s].req.table) = r
                                     THEN [calls[s] EXCEPT !.stage = "running"] ELSE calls[s]]
    BY <1>8 DEF TablesCreated
  <2>2. ASSUME NEW g \in Groups, calls'[g] # calls[g]
        PROVE  \/ Stage(g)' \in {"idle", "failed"}
               \/ /\ Stage(g) = "opening" /\ Stage(g)' = "running"
                  /\ calls'[g].req = calls[g].req /\ calls'[g].left = calls[g].left
    <3>1. Stage(g) = "opening" /\ calls'[g] = [calls[g] EXCEPT !.stage = "running"]
      BY <1>1, <2>1, <2>2
    <3>2. [calls[g] EXCEPT !.stage = "running"]
            = [req |-> calls[g].req, stage |-> "running", conn |-> calls[g].conn, left |-> calls[g].left]
      BY <1>1, <3>1, StageOfCall, CallGoesOn
    <3>3. calls'[g].req = calls[g].req /\ calls'[g].stage = "running" /\ calls'[g].left = calls[g].left
      BY <3>1, <3>2, StageIs
    <3> QED BY <3>1, <3>3 DEF Stage
  <2> QED BY <1>6, <2>1, <2>2
<1>9. CASE (\E r \in Repos : TablesFail(r)) \/ (\E c \in opening : OpenFails(c))
  <2>1. UNCHANGED <<backend, unread, disk, uncommitted>>
    BY <1>9 DEF TablesFail, OpenFails
  <2>2. ASSUME NEW g \in Groups, calls'[g] # calls[g]
        PROVE  calls'[g] = EndOf(g, FALSE)
    <3>1. Stage(g) = "opening" /\ (calls'[g] = EndOf(g, FALSE) \/ calls'[g] = EndOf(g, Survives(calls[g].req)))
      BY <1>1, <1>9, <2>2 DEF TablesFail, OpenFails
    <3>2. calls[g].req = Copy(g)
      BY <1>2, <3>1 DEF Copies, CopiesGo, UnderWay
    <3>3. Survives(calls[g].req) = FALSE
      BY <3>2, CopySteps DEF Survives
    <3> QED BY <3>1, <3>3
  <2>3. \A g \in Groups : calls'[g] = calls[g] \/ Stage(g)' \in {"idle", "failed"}
    BY <1>1, <2>2, EndFails
  <2> QED BY <1>6, <2>1, <2>3
<1>10. ASSUME NEW s \in Slots, Refuse(s)
       PROVE  Copies'
  <2>1. UNCHANGED <<backend, unread, disk, uncommitted>> /\ calls' = [calls EXCEPT ![s] = EndOf(s, FALSE)]
    BY <1>10 DEF Refuse
  <2>2. \A g \in Groups : calls'[g] = calls[g] \/ calls'[g] = EndOf(g, FALSE)
    BY <1>1, <2>1
  <2>3. \A g \in Groups : calls'[g] = calls[g] \/ Stage(g)' \in {"idle", "failed"}
    BY <1>1, <2>2, EndFails
  <2> QED BY <1>6, <2>1, <2>3
<1>11. ASSUME NEW u \in uncommitted, Abort(u)
       PROVE  Copies'
  <2>1. UNCHANGED <<backend, unread, disk>> /\ uncommitted' \subseteq uncommitted
        /\ (calls' = calls \/ calls' = [calls EXCEPT ![u.waits] = EndOf(u.waits, FALSE)])
    BY <1>11 DEF Abort
  <2>2. \A g \in Groups : calls'[g] = calls[g] \/ calls'[g] = EndOf(g, FALSE)
    BY <1>1, <2>1
  <2>3. \A g \in Groups : calls'[g] = calls[g] \/ Stage(g)' \in {"idle", "failed"}
    BY <1>1, <2>2, EndFails
  <2> QED BY <1>6, <2>1, <2>3
<1>12. CASE \/ \E r \in Repos : Dispose(r)
            \/ \E p \in disposing : Disposed(p)
            \/ \E c \in opening : Opened(c)
            \/ UNCHANGED vars
  <2>1. UNCHANGED <<backend, unread, disk, uncommitted, calls>>
    BY <1>12 DEF Dispose, Disposed, Opened, vars
  <2> QED BY <1>6, <2>1
<1>13. ~(\E s : Ask(s)) /\ ~CheckMark /\ ~MarkStarted /\ ~ReadLegacy /\ ~MarkDone /\ ~CopyFails /\ ~Kill
  BY DEF Ask, CheckMark, MarkStarted, ReadLegacy, MarkDone, CopyFails, Kill
<1> QED BY <1>3, <1>4, <1>5, <1>7, <1>8, <1>9, <1>10, <1>11, <1>12, <1>13 DEF Next

LEMMA MigratingStep ==
  ASSUME LegacyIsDistinct, Typed, Kept, Migrating, [Next]_vars
  PROVE  Migrating'
<1> USE DEF clients
<1>1. CASE Kill
  <2>1. mig' = "start" /\ uncommitted' = {} /\ \A s \in Slots : calls'[s] = None
    BY <1>1 DEF Kill
  <2>2. \A s \in Slots : Stage(s)' = "idle"
    BY <2>1 DEF Stage
  <2> QED BY <2>1, <2>2 DEF Migrating, AppWaits, CopyWaits, Copies, UnderWay, Slots
<1>2. CASE ~Kill
  <2>1. /\ mig = "ready" => mig' = "ready"
        /\ mig' \in {"start", "mark", "read"} => mig \in {"start", "mark", "read"}
        /\ mig' = "save" => mig = "save" \/ ReadLegacy
    BY <1>2 DEF Next, vars, Ask, SaveLegacy, Enter, Resume, Change, Answer, Refuse, TablesCreated, TablesFail,
                Dispose, Disposed, Opened, OpenFails, Commit, Abort, CheckMark, MarkStarted, ReadLegacy,
                MarkDone, CopyFails
  <2>2. AppWaits'
    <3> SUFFICES ASSUME mig # "ready", NEW s \in Calls
                 PROVE  ~UnderWay(s)'
      BY <2>1 DEF AppWaits
    <3>1. s \in Slots /\ s \notin Groups /\ ~UnderWay(s)
      BY ConstantsAssumption DEF Slots, Migrating, AppWaits
    <3>2. ~Entered(s) /\ ~Resumed(s) /\ ~WentOn(s)
      BY <3>1 DEF Entered, Ask, Resumed, WentOn, UnderWay
    <3>3. calls'[s] = calls[s] \/ Ended(s)
      BY <3>1, <3>2, CallsStep DEF CallsFollow
    <3> QED BY <3>1, <3>3 DEF Ended, Outcomes, UnderWay, Stage
  <2>3. CopyWaits'
    <3> SUFFICES ASSUME mig \in {"start", "mark", "read"}, mig' \in {"start", "mark", "read"}
                 PROVE  uncommitted' = {} /\ \A g \in Groups : Stage(g)' = "idle"
      BY <2>1 DEF CopyWaits
    <3>1. uncommitted = {} /\ (\A g \in Groups : Stage(g) = "idle") /\ \A s \in Slots : ~UnderWay(s)
      BY DEF Migrating, CopyWaits, AppWaits, UnderWay, Slots
    <3>2. Groups \subseteq Slots
      BY DEF Slots
    <3>3. /\ \A s \in Slots : ~Ask(s) /\ ~Resume(s) /\ ~Change(s) /\ ~Answer(s) /\ ~Refuse(s)
          /\ \A g \in Groups : ~SaveLegacy(g)
      BY <3>1 DEF Ask, SaveLegacy, Resume, Change, Answer, Refuse, MayRun, UnderWay
    <3>4. CASE \/ \E r \in Repos : TablesCreated(r) \/ TablesFail(r)
               \/ \E c \in opening : OpenFails(c)
      <4>1. uncommitted' = uncommitted /\ \A s \in Slots : calls'[s] = calls[s]
        BY <3>1, <3>4 DEF TablesCreated, TablesFail, OpenFails, UnderWay
      <4> QED BY <3>1, <3>2, <4>1 DEF Stage
    <3>5. CASE \/ \E r \in Repos : Dispose(r)
               \/ \E p \in disposing : Disposed(p)
               \/ \E c \in opening : Opened(c)
               \/ CheckMark \/ MarkStarted \/ ReadLegacy \/ MarkDone \/ CopyFails \/ UNCHANGED vars
      <4>1. UNCHANGED <<uncommitted, calls>>
        BY <3>5 DEF Dispose, Disposed, Opened, CheckMark, MarkStarted, ReadLegacy, MarkDone, CopyFails, vars
      <4> QED BY <3>1, <4>1 DEF Stage
    <3> QED BY <1>2, <3>1, <3>3, <3>4, <3>5 DEF Next
  <2>4. Copies'
    <3>1. CASE mig = "save" /\ mig' = "save"
      BY <3>1, CopiesStep
    <3>2. CASE ReadLegacy
      <4>1. mig = "read" /\ UNCHANGED <<uncommitted, calls>>
        BY <3>2 DEF ReadLegacy
      <4>2. uncommitted' = {} /\ \A g \in Groups : Stage(g)' = "idle"
        BY <4>1 DEF Migrating, CopyWaits, Stage
      <4>3. CopiesGo'
        BY <4>2 DEF CopiesGo, UnderWay
      <4>4. \A l \in Legacy : Stage(GroupOf(l))' = "idle"
        BY <4>2, GroupsOfRows
      <4>5. \A l \in Legacy : RowGoes(l)'
        BY <4>4 DEF RowGoes, GroupOf
      <4> QED BY <4>3, <4>5 DEF Copies, ToCopy
    <3> QED BY <2>1, <3>1, <3>2 DEF Copies
  <2> QED BY <2>2, <2>3, <2>4 DEF Migrating
<1> QED BY <1>1, <1>2

\* What is in the store is in what it shows, while only copies are under way.
LEMMA CopiesShow ==
  ASSUME LegacyIsDistinct, CopiesGo, NEW l \in Legacy, l.row \in disk[l.table]
  PROVE  l.row \in View(l.table)
<1> DEFINE open == {u \in uncommitted : l.table \in u.change.tables}
<1>1. CASE open = {}
  BY <1>1 DEF View
<1>2. CASE open # {}
  <2> DEFINE u == CHOOSE v \in open : TRUE
  <2>1. u \in open
    BY <1>2
  <2> HIDE DEF u
  <2>2. l.row \in Apply(disk, u.change)[l.table]
    BY <2>1, SavesKeep DEF CopiesGo
  <2> QED BY <1>2, <2>2 DEF View, u
<1> QED BY <1>1, <1>2

\* When migrateWalletRepository marks itself done, every row of the old storage that
\* it could read is in the repository, on IndexedDB of the transaction history; the
\* mark may outlive the process, the copies may be made one beside another and row by
\* row, and any of them may fail.
THEOREM MigrationIsComplete ==
  ASSUME LegacyIsDistinct
  PROVE  Spec => DoneIsComplete
<1>1. Init => Migrating
  <2> SUFFICES ASSUME Init
               PROVE  Migrating
    OBVIOUS
  <2>1. mig = "start" /\ uncommitted = {} /\ \A s \in Slots : Stage(s) = "idle"
    BY DEF Init, Stage
  <2> QED BY <2>1 DEF Migrating, AppWaits, CopyWaits, Copies, UnderWay, Slots
<1>2. Inv /\ Migrating /\ [Next]_vars => Migrating'
  BY MigratingStep DEF Inv
<1>3. Inv /\ Migrating /\ [Next]_vars =>
        [flag' = "done" /\ flag # "done" =>
           \A l \in Legacy \ unread :
             (backend = "indexedDB" => l.table = "transactions") => l.row \in View(l.table)]_vars
  <2> SUFFICES ASSUME Migrating, Next, flag' = "done", flag # "done",
                      NEW l \in Legacy \ unread, Promised(l)
               PROVE  l.row \in View(l.table)
    BY DEF Promised, vars
  <2>1. MarkDone
    BY DEF clients, Next, Ask, SaveLegacy, Enter, Resume, Change, Answer, Refuse, TablesCreated, TablesFail,
           Dispose, Disposed, Opened, OpenFails, Commit, Abort, CheckMark, MarkStarted, ReadLegacy,
           CopyFails, Kill
  <2>2. mig = "save" /\ Stage(GroupOf(l)) = "ok"
    BY <2>1, GroupsOfRows DEF MarkDone, Copied
  <2>3. CopiesGo /\ l.row \in disk[l.table]
    BY <2>2 DEF Migrating, Copies, ToCopy, RowGoes
  <2> QED BY <2>3, CopiesShow
<1> QED BY <1>1, <1>2, <1>3, Inductive, PTL DEF Spec, DoneIsComplete

=============================================================================
