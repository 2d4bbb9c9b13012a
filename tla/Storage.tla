------------------------------- MODULE Storage -------------------------------
(***************************************************************************)
(* The repositories of both packages on the four stores they are written   *)
(* for (IndexedDB, SQLite, Realm, memory), the connection the IndexedDB    *)
(* repositories of one database share, and the migration of the wallet     *)
(* from the old storage adapter.  A call of a repository is the sequence   *)
(* of atomic changes its store makes of it, each at its own time; the call *)
(* has succeeded when the code resolves it, which on IndexedDB is mostly   *)
(* before its transaction is committed.                                    *)
(***************************************************************************)
EXTENDS Naturals, Sequences, FiniteSets, SequencesExt

CONSTANTS Backends,      \* the stores a run looks at
          Calls,         \* slots for the calls the application has under way
          Requests,      \* what it may ask: [op, table, key, rows]
          Legacy,        \* what the old adapter holds: [table, row]
          KindOf,        \* the type of a contract or swap, by its id
          MaxAsked,      \* calls of the application in one behaviour
          MaxFails,      \* failing requests in one behaviour
          MaxKills,      \* ends of the process in one behaviour
          MaxDisposals,  \* disposals of a repository in one behaviour
          MaxTroubles,   \* failures, ends and disposals in one behaviour
          None

VARIABLES backend,       \* the store, chosen once
          disk,          \* the committed rows of each table
          uncommitted,   \* IndexedDB: transactions whose requests succeeded
          calls,         \* the call of each slot
          handle,        \* IndexedDB: the connection a repository keeps
          disposing,     \* IndexedDB: the disposals of repositories under way
          db,            \* IndexedDB: cached open and users of each database
          opening,       \* IndexedDB: connections asked for, not yet open
          live,          \* IndexedDB: connections not closed
          overlapped,    \* ghost: databases of a repository disposed of twice at once
          created,       \* SQLite: initPromise of each repository
          mig,           \* progress of the migration in this process
          flag,          \* its mark in the old storage
          unread,        \* legacy rows it took for missing
          told,          \* saved rows the caller was told of, still current
          asked, fails, kills, disposals

clients == <<handle, disposing, db, opening, live, overlapped, created>>
vars == <<backend, disk, uncommitted, calls, clients, mig, flag, unread, told, asked, fails, kills, disposals>>

Wallet == <<"vtxos", "utxos", "transactions", "walletState">>
WalletTables == {Wallet[i] : i \in DOMAIN Wallet}
Tables == WalletTables \cup {"contracts", "swaps"}
Repos == {"wallet", "contract", "swap"}
RepoOf(t) == CASE t \in WalletTables -> "wallet" [] t = "contracts" -> "contract" [] OTHER -> "swap"
TablesOf(r) == {t \in Tables : RepoOf(t) = r}
Databases == {"sdk", "boltz"}
DatabaseOf(r) == IF r = "swap" THEN "boltz" ELSE "sdk"

\* The migration saves what each address has of each table with one call.
Groups == {<<l.table, l.row.address>> : l \in Legacy}
GroupOf(l) == <<l.table, l.row.address>>
Slots == Calls \cup Groups

\* None is no connection, no list of values and no direction.
Connections == Databases \X Nat
ASSUME ConstantsAssumption ==
  /\ Backends \subseteq {"indexedDB", "sqlite", "realm", "memory"}
  /\ IsFiniteSet(Calls) /\ IsFiniteSet(Legacy) /\ Calls \cap Groups = {}
  /\ \A q \in Requests \cup Legacy : q.table \in Tables
  /\ None \notin Connections
  /\ None # {} /\ None # "unset"

(***************************************************************************)
(* Keys: which stored row a saved row replaces.                            *)
(***************************************************************************)
IndexedDBKey(t, r) ==
  CASE t \in {"vtxos", "utxos", "transactions"} -> <<r.address, r.id>>
    [] t = "walletState" -> "state"
    [] OTHER -> r.id

SQLiteKey(t, r) ==
  CASE t = "transactions" -> <<r.address, r.id>>
    [] t = "walletState" -> "state"
    [] OTHER -> r.id

RealmKey(t, r) ==
  CASE t = "transactions" -> <<r.address, r.id>>
    [] t = "walletState" -> "state"
    [] OTHER -> r.id

MemoryKey(t, r) ==
  CASE t \in {"vtxos", "utxos", "transactions"} -> <<r.address, r.id>>
    [] t = "walletState" -> "state"
    [] OTHER -> r.id

Key(t, r) ==
  CASE backend = "indexedDB" -> IndexedDBKey(t, r)
    [] backend = "sqlite" -> SQLiteKey(t, r)
    [] backend = "realm" -> RealmKey(t, r)
    [] OTHER -> MemoryKey(t, r)

(***************************************************************************)
(* A change is atomic: it puts rows in a table, or drops the rows of some  *)
(* tables that have an address, an id, or all.                             *)
(***************************************************************************)
Put(t, rows) == [tables |-> {t}, drop |-> "replaced", key |-> None, rows |-> rows]
Drop(ts, what, key) == [tables |-> ts, drop |-> what, key |-> key, rows |-> {}]

Gone(e, t, r) ==
  /\ t \in e.tables
  /\ \/ e.drop = "all"
     \/ e.drop = "address" /\ r.address = e.key
     \/ e.drop = "id" /\ r.id = e.key
     \/ e.drop = "replaced" /\ \E x \in e.rows : Key(t, x) = Key(t, r)

Apply(d, e) == [t \in Tables |->
  IF t \in e.tables THEN {r \in d[t] : ~Gone(e, t, r)} \cup e.rows ELSE d[t]]

RowsOf(q) == {q.rows[i] : i \in DOMAIN q.rows}
DeleteOf(q) == Drop({q.table}, IF q.table \in WalletTables THEN "address" ELSE "id", q.key)
ClearOf(q) == Drop(TablesOf(RepoOf(q.table)), "all", None)

\* The changes of a call.  IndexedDB: one transaction over the tables.
IndexedDBSteps(q) ==
  CASE q.op = "save" -> <<Put(q.table, RowsOf(q))>>
    [] q.op = "delete" -> <<DeleteOf(q)>>
    [] q.op = "clear" -> <<ClearOf(q)>>
    [] OTHER -> <<>>

\* SQLite: a statement for each row, and for each table of a clear.
SQLiteSteps(q) ==
  CASE q.op = "save" -> [i \in DOMAIN q.rows |-> Put(q.table, {q.rows[i]})]
    [] q.op = "delete" -> <<DeleteOf(q)>>
    [] q.op = "clear" /\ q.table \in WalletTables -> [i \in DOMAIN Wallet |-> Drop({Wallet[i]}, "all", None)]
    [] q.op = "clear" -> <<ClearOf(q)>>
    [] OTHER -> <<>>

\* Realm: one write transaction, done when the call is made.
RealmSteps(q) ==
  CASE q.op = "save" -> <<Put(q.table, RowsOf(q))>>
    [] q.op = "delete" -> <<DeleteOf(q)>>
    [] q.op = "clear" -> <<ClearOf(q)>>
    [] OTHER -> <<>>

MemorySteps(q) ==
  CASE q.op = "save" -> <<Put(q.table, RowsOf(q))>>
    [] q.op = "delete" -> <<DeleteOf(q)>>
    [] q.op = "clear" -> <<ClearOf(q)>>
    [] OTHER -> <<>>

Steps(q) ==
  CASE backend = "indexedDB" -> IndexedDBSteps(q)
    [] backend = "sqlite" -> SQLiteSteps(q)
    [] backend = "realm" -> RealmSteps(q)
    [] OTHER -> MemorySteps(q)

\* Fault: transactions are told saved at the last request, as the rest is.
ToldBeforeCommit(q) == backend = "indexedDB"

\* On IndexedDB a call resolves when its requests have succeeded; only
\* saveTransactions waits for the transaction to complete.
ResolvesEarly(q) == backend = "indexedDB" /\ ~(q.op = "save" /\ q.table = "transactions")

\* What the tables will hold when everything under way is committed.
View(t) == LET open == {u \in uncommitted : t \in u.change.tables}
           IN  IF open = {} THEN disk[t] ELSE Apply(disk, (CHOOSE u \in open : TRUE).change)[t]

(***************************************************************************)
(* Queries.  A filter names the values of a field, or None; orderBy is     *)
(* None, or createdAt with a direction that may be unset.                  *)
(***************************************************************************)
Has(values, v) == values = None \/ v \in values
Matches(f, r) == /\ Has(f.ids, r.id)
                 /\ Has(f.states, r.val)
                 /\ Has(f.kinds, KindOf[r.id])

MemoryContracts(rows, f) == {r \in rows : Matches(f, r)}

\* Fault: what the index of the state finds is not filtered by the type.
IndexedDBIndexOnly(rows, f) ==
  {r \in rows : IF f.ids = None /\ f.states # None THEN r.val \in f.states ELSE Matches(f, r)}

\* Found by the script, else the index of the state, else that of the type;
\* what was found is filtered by all three.
IndexedDBContracts(rows, f) ==
  LET found == CASE f.ids # None -> {r \in rows : r.id \in f.ids}
                 [] f.ids = None /\ f.states # None -> UNION {{r \in rows : r.val = s} : s \in f.states}
                 [] f.ids = None /\ f.states = None /\ f.kinds # None ->
                      UNION {{r \in rows : KindOf[r.id] = k} : k \in f.kinds}
                 [] OTHER -> rows
  IN  {r \in found : Matches(f, r)}

\* A list without values adds no condition.
Condition(values) == IF values = {} THEN None ELSE values
SQLiteContracts(rows, f) ==
  LET where == [ids |-> Condition(f.ids), states |-> Condition(f.states), kinds |-> Condition(f.kinds)]
  IN  {r \in rows : Matches(where, r)}
RealmContracts(rows, f) ==
  LET query == [ids |-> Condition(f.ids), states |-> Condition(f.states), kinds |-> Condition(f.kinds)]
  IN  {r \in rows : Matches(query, r)}

\* An answer is the rows and the direction they are sorted in.
Sorted(f, default) == CASE f.order = None -> None
                        [] f.order = "unset" -> default
                        [] OTHER -> f.order
Listless(f) == {} \notin {f.ids, f.states, f.kinds}
Fields(f) == {x \in {"ids", "states", "kinds"} : f[x] # None}

MemorySwaps(rows, f) ==
  [rows |-> {r \in rows : Matches(f, r)}, order |-> Sorted(f, "desc")]

IndexedDBSwaps(rows, f) ==
  LET found == CASE f.ids # None -> {r \in rows : r.id \in f.ids}
                 [] f.ids = None /\ f.kinds # None -> UNION {{r \in rows : KindOf[r.id] = k} : k \in f.kinds}
                 [] f.ids = None /\ f.kinds = None /\ f.states # None ->
                      UNION {{r \in rows : r.val = s} : s \in f.states}
                 [] OTHER -> rows
  IN  [rows |-> {r \in found : Matches(f, r)},
       order |-> Sorted(f, IF Fields(f) = {} THEN "asc" ELSE "desc")]

SQLiteSwaps(rows, f) ==
  [rows |-> IF Listless(f) THEN {r \in rows : Matches(f, r)} ELSE {}, order |-> Sorted(f, "asc")]

RealmSwaps(rows, f) ==
  [rows |-> IF Listless(f) THEN {r \in rows : Matches(f, r)} ELSE {}, order |-> Sorted(f, "asc")]

(***************************************************************************)
(* Calls.  A slot is idle (None), at the await of its store's opening, or  *)
(* running with changes left.  A call of the migration keeps its outcome.  *)
(***************************************************************************)
Idle(s) == calls[s] = None
Stage(s) == IF calls[s] = None THEN "idle" ELSE calls[s].stage
\* A call that opens holds the connection it awaits.
At(q, stage, conn) == [req |-> q, stage |-> stage, conn |-> conn, left |-> Steps(q)]
EndOf(s, ok) == IF s \in Calls THEN None ELSE [stage |-> IF ok THEN "ok" ELSE "failed"]
\* Only a get of IndexedDB hides that the database could not be opened.
Survives(q) == backend = "indexedDB" /\ q.op = "get"

\* Nothing is cached of a database.
NoEntry == [conn |-> None, users |-> 0]
\* The next connection: an entry goes only with a disposal or a failed open.
Fresh(d) == <<d, disposals + fails>>

Init ==
  /\ backend \in Backends
  /\ disk = [t \in Tables |-> {}]
  /\ uncommitted = {}
  /\ calls = [s \in Slots |-> None]
  /\ handle = [r \in Repos |-> None]
  /\ disposing = {}
  /\ db = [d \in Databases |-> NoEntry]
  /\ opening = {}
  /\ live = {}
  /\ overlapped = {}
  /\ created = [r \in Repos |-> "none"]
  /\ mig = "start"
  /\ flag \in {"none", "absent"}
  /\ unread = {}
  /\ told = {}
  /\ asked = 0 /\ fails = 0 /\ kills = 0 /\ disposals = 0

NoFailure == UNCHANGED fails
Room(n) == fails + kills + disposals + n <= MaxTroubles
Fails == fails < MaxFails /\ Room(1) /\ fails' = fails + 1

\* ensureInit of SQLite: one promise for ever, also when it was rejected.
EnterSQLite(s, q) ==
  LET r == RepoOf(q.table) IN
  /\ calls' = [calls EXCEPT ![s] = CASE created[r] = "ready" -> At(q, "running", None)
                                     [] created[r] = "failed" -> EndOf(s, FALSE)
                                     [] OTHER -> At(q, "opening", None)]
  /\ created' = [created EXCEPT ![r] = IF @ = "none" THEN "pending" ELSE @]
  /\ UNCHANGED <<handle, db, opening>>

\* getDB and openDatabase of IndexedDB: a repository that has no connection
\* yet counts as one more user, at each of its calls.
EnterIndexedDB(s, q) ==
  LET r == RepoOf(q.table)  d == DatabaseOf(r)
      conn == IF db[d].conn = None THEN Fresh(d) ELSE db[d].conn IN
  /\ IF handle[r] # None
     THEN /\ calls' = [calls EXCEPT ![s] = At(q, "running", handle[r])]
          /\ UNCHANGED <<handle, db, opening>>
     ELSE /\ calls' = [calls EXCEPT ![s] = At(q, "opening", conn)]
          /\ db' = [db EXCEPT ![d] = [conn |-> conn, users |-> @.users + 1]]
          /\ opening' = IF db[d].conn = None THEN opening \cup {conn} ELSE opening
          /\ UNCHANGED handle
  /\ UNCHANGED created

Enter(s, q) ==
  /\ Idle(s)
  /\ CASE backend = "sqlite" -> EnterSQLite(s, q)
       [] backend = "indexedDB" -> EnterIndexedDB(s, q)
       [] OTHER -> /\ calls' = [calls EXCEPT ![s] = At(q, "running", None)]
                   /\ UNCHANGED <<handle, db, opening, created>>
  /\ UNCHANGED <<backend, disk, uncommitted, disposing, live, overlapped, mig, flag, unread, told, fails, kills, disposals>>

Ask(s) == /\ mig = "ready" /\ s \in Calls /\ asked < MaxAsked /\ asked' = asked + 1
          /\ \E q \in Requests : Enter(s, q)

TablesCreated(r) ==
  /\ created[r] = "pending"
  /\ created' = [created EXCEPT ![r] = "ready"]
  /\ calls' = [s \in Slots |-> IF Stage(s) = "opening" /\ RepoOf(calls[s].req.table) = r
                               THEN [calls[s] EXCEPT !.stage = "running"] ELSE calls[s]]
  /\ UNCHANGED <<backend, disk, uncommitted, handle, disposing, db, opening, live, overlapped, mig, flag, unread,
                 told, asked, fails, kills, disposals>>

TablesFail(r) ==
  /\ created[r] = "pending" /\ Fails
  /\ created' = [created EXCEPT ![r] = "failed"]
  /\ calls' = [s \in Slots |-> IF Stage(s) = "opening" /\ RepoOf(calls[s].req.table) = r
                               THEN EndOf(s, FALSE) ELSE calls[s]]
  /\ UNCHANGED <<backend, disk, uncommitted, handle, disposing, db, opening, live, overlapped, mig, flag, unread,
                 told, asked, kills, disposals>>

Opened(c) ==
  /\ opening' = opening \ {c}
  /\ live' = live \cup {c}
  /\ UNCHANGED <<backend, disk, uncommitted, calls, handle, disposing, db, overlapped, created, mig, flag,
                 unread, told, asked, fails, kills, disposals>>

\* Whatever is cached of the database goes, and its count; everybody who
\* awaited this connection is told.
OpenFails(c) ==
  /\ Fails
  /\ opening' = opening \ {c}
  /\ db' = [db EXCEPT ![c[1]] = NoEntry]
  /\ calls' = [s \in Slots |-> IF Stage(s) = "opening" /\ calls[s].conn = c
                               THEN EndOf(s, Survives(calls[s].req)) ELSE calls[s]]
  /\ UNCHANGED <<backend, disk, uncommitted, handle, disposing, live, overlapped, created, mig, flag, unread,
                 told, asked, kills, disposals>>

\* A call that awaited a connection keeps it in its repository.
Resume(s) ==
  LET r == RepoOf(calls[s].req.table)  c == calls[s].conn IN
  /\ backend = "indexedDB" /\ Stage(s) = "opening" /\ c \notin opening
  /\ handle' = [handle EXCEPT ![r] = c]
  /\ calls' = [calls EXCEPT ![s].stage = "running"]
  /\ UNCHANGED <<backend, disk, uncommitted, disposing, db, opening, live, overlapped, created, mig, flag, unread,
                 told, asked, fails, kills, disposals>>

\* A transaction waits for those before it on the same tables.
MayRun(s) == /\ Stage(s) = "running"
             /\ calls[s].left # <<>> =>
                  \A u \in uncommitted : u.change.tables \cap Head(calls[s].left).tables = {}

Saved(q) == {[table |-> q.table, row |-> r] : r \in IF q.op = "save" THEN RowsOf(q) ELSE {}}
Current(e) == {x \in told : ~Gone(e, x.table, x.row)}

\* The next change is made: committed at once, or when IndexedDB commits.
Change(s) ==
  /\ MayRun(s) /\ calls[s].left # <<>>
  /\ LET c == calls[s]
         e == Head(c.left)
         q == c.req
         last == Len(c.left) = 1
         late == backend = "indexedDB" /\ ~ResolvesEarly(q)
         resolved == last /\ ~late
     IN  /\ IF backend = "indexedDB"
            THEN uncommitted' = uncommitted \cup {[change |-> e, waits |-> IF late THEN s ELSE None, req |-> q]}
                 /\ UNCHANGED disk
            ELSE disk' = Apply(disk, e) /\ UNCHANGED uncommitted
         /\ calls' = [calls EXCEPT ![s] = CASE resolved -> EndOf(s, TRUE)
                                            [] last /\ late -> [c EXCEPT !.left = <<>>, !.stage = "committing"]
                                            [] OTHER -> [c EXCEPT !.left = Tail(@)]]
         /\ told' = Current(e) \cup IF resolved
                                    THEN {x \in Saved(q) : x.row \in Apply(disk, e)[x.table]} ELSE {}
  /\ NoFailure
  /\ UNCHANGED <<backend, clients, mig, flag, unread, asked, kills, disposals>>

\* A get: nothing changes.
Answer(s) ==
  /\ Stage(s) = "running" /\ calls[s].left = <<>>
  /\ calls' = [calls EXCEPT ![s] = EndOf(s, TRUE)]
  /\ UNCHANGED <<backend, disk, uncommitted, clients, mig, flag, unread, told, asked, fails, kills, disposals>>

\* A statement or request fails, or its connection was closed: what the
\* call did before stays done.
Refuse(s) ==
  /\ Stage(s) = "running" /\ backend # "memory"
  /\ \/ backend = "indexedDB" /\ calls[s].conn \notin live /\ NoFailure
     \/ Fails
  /\ calls' = [calls EXCEPT ![s] = EndOf(s, FALSE)]
  /\ UNCHANGED <<backend, disk, uncommitted, clients, mig, flag, unread, told, asked, kills, disposals>>

Commit(u) ==
  /\ disk' = Apply(disk, u.change)
  /\ uncommitted' = uncommitted \ {u}
  /\ IF u.waits = None
     THEN UNCHANGED <<calls, told>>
     ELSE /\ calls' = [calls EXCEPT ![u.waits] = EndOf(u.waits, TRUE)]
          /\ told' = told \cup Saved(u.req)
  /\ UNCHANGED <<backend, clients, mig, flag, unread, asked, fails, kills, disposals>>

\* The store refuses the commit, for want of space.
Abort(u) ==
  /\ Fails
  /\ uncommitted' = uncommitted \ {u}
  /\ calls' = IF u.waits = None THEN calls ELSE [calls EXCEPT ![u.waits] = EndOf(u.waits, FALSE)]
  /\ UNCHANGED <<backend, disk, clients, mig, flag, unread, told, asked, kills, disposals>>

(***************************************************************************)
(* Disposal: closeDatabase, then the repository forgets its connection.    *)
(* Until then it may be disposed of once more.                             *)
(***************************************************************************)
\* Fault: the connection is closed whoever else uses it.
ClosesForAll(d) == TRUE

LastUser(d) == db[d].users <= 1
Closing(d) == db[d].conn # None /\ LastUser(d)
\* What is cached of a database when a count of it is given back.
Released(d) == CASE db[d].conn = None -> db[d]
                 [] Closing(d) -> NoEntry
                 [] OTHER -> [conn |-> db[d].conn, users |-> db[d].users - 1]
BeingDisposed(r) == \E p \in disposing : p.repo = r

Dispose(r) ==
  LET d == DatabaseOf(r) IN
  /\ backend = "indexedDB" /\ handle[r] # None /\ disposals < MaxDisposals /\ Room(1)
  /\ disposals' = disposals + 1
  /\ db' = [db EXCEPT ![d] = Released(d)]
  /\ disposing' = disposing \cup {[repo |-> r, closes |-> IF Closing(d) THEN db[d].conn ELSE None,
                                  number |-> disposals]}
  /\ overlapped' = IF BeingDisposed(r) /\ db[d].conn # None THEN overlapped \cup {d} ELSE overlapped
  /\ UNCHANGED <<backend, disk, uncommitted, calls, handle, opening, live, created, mig, flag, unread, told,
                 asked, fails, kills>>

\* A connection that is still being opened is closed when it is open.
Disposed(p) ==
  /\ p.closes \notin opening
  /\ live' = live \ {p.closes}
  /\ handle' = [handle EXCEPT ![p.repo] = None]
  /\ disposing' = disposing \ {p}
  /\ UNCHANGED <<backend, disk, uncommitted, calls, db, opening, overlapped, created, mig, flag, unread, told,
                 asked, fails, kills, disposals>>

(***************************************************************************)
(* Migration, before the application uses its repositories.  When it       *)
(* throws the application rolls the mark back and does not start.          *)
(***************************************************************************)
\* A mark that cannot be read is taken for missing.
CheckMark ==
  /\ mig = "start"
  /\ \/ flag \in {"done", "absent"} /\ mig' = "ready" /\ NoFailure
     \/ flag \in {"none", "in-progress"} /\ mig' = "mark" /\ NoFailure
     \/ flag = "done" /\ mig' = "mark" /\ Fails
  /\ UNCHANGED <<backend, disk, uncommitted, calls, clients, flag, unread, told, asked, kills, disposals>>

MarkStarted ==
  /\ mig = "mark"
  /\ \/ mig' = "read" /\ flag' = "in-progress" /\ NoFailure
     \/ mig' = "failed" /\ flag' = "none" /\ Fails
  /\ UNCHANGED <<backend, disk, uncommitted, calls, clients, unread, told, asked, kills, disposals>>

\* What cannot be read or parsed is an empty list.
ReadLegacy ==
  /\ mig = "read"
  /\ \E lost \in SUBSET Groups :
       /\ fails + Cardinality(lost) <= MaxFails /\ Room(Cardinality(lost)) /\ fails' = fails + Cardinality(lost)
       /\ unread' = {l \in Legacy : GroupOf(l) \in lost}
  /\ mig' = "save"
  /\ UNCHANGED <<backend, disk, uncommitted, calls, clients, flag, told, asked, kills, disposals>>

Copy(g) == [op |-> "save", table |-> g[1], key |-> None,
            rows |-> SetToSeq({l.row : l \in {x \in Legacy \ unread : GroupOf(x) = g}})]
SaveLegacy(g) == mig = "save" /\ Enter(g, Copy(g)) /\ UNCHANGED asked

\* Fault: the mark does not wait for the saves.
CopyStarted == \A g \in Groups : Stage(g) # "idle"

\* Promise.all over the saves.
Copied == \A g \in Groups : Stage(g) = "ok"

MarkDone ==
  /\ mig = "save" /\ Copied
  /\ \/ mig' = "ready" /\ flag' = "done" /\ NoFailure
     \/ mig' = "failed" /\ flag' = "none" /\ Fails
  /\ UNCHANGED <<backend, disk, uncommitted, calls, clients, unread, told, asked, kills, disposals>>

CopyFails ==
  /\ mig = "save" /\ \E g \in Groups : Stage(g) = "failed"
  /\ mig' = "failed" /\ flag' = "none"
  /\ UNCHANGED <<backend, disk, uncommitted, calls, clients, unread, told, asked, fails, kills, disposals>>

\* The process ends and starts again: only what was committed is left, and
\* nothing of a store in memory.
Kill ==
  /\ kills < MaxKills /\ Room(1) /\ kills' = kills + 1
  /\ disk' = IF backend = "memory" THEN [t \in Tables |-> {}] ELSE disk
  /\ told' = IF backend = "memory" THEN {} ELSE told
  /\ uncommitted' = {}
  /\ calls' = [s \in Slots |-> None]
  /\ handle' = [r \in Repos |-> None]
  /\ disposing' = {}
  /\ db' = [d \in Databases |-> NoEntry]
  /\ opening' = {}
  /\ live' = {}
  /\ overlapped' = {}
  /\ created' = [r \in Repos |-> "none"]
  /\ mig' = "start"
  /\ unread' = {}
  /\ UNCHANGED <<backend, flag, asked, fails, disposals>>

Next ==
  \/ \E s \in Slots : Ask(s) \/ Resume(s) \/ Change(s) \/ Answer(s) \/ Refuse(s)
  \/ \E r \in Repos : TablesCreated(r) \/ TablesFail(r) \/ Dispose(r)
  \/ \E p \in disposing : Disposed(p)
  \/ \E c \in opening : Opened(c) \/ OpenFails(c)
  \/ \E u \in uncommitted : Commit(u) \/ Abort(u)
  \/ CheckMark \/ MarkStarted \/ ReadLegacy \/ MarkDone \/ CopyFails
  \/ \E g \in Groups : SaveLegacy(g)
  \/ Kill

Spec == Init /\ [][Next]_vars

(***************************************************************************)
(* Properties.                                                             *)
(***************************************************************************)
\* What a caller was told is saved is kept until a later call replaces it,
\* over the end of the process too: on SQLite and Realm, in memory while
\* the process lives, and on IndexedDB for the transaction history.
AcknowledgedSurvives ==
  \A x \in told : (backend = "indexedDB" => x.table = "transactions") => x.row \in View(x.table)

\* When the migration is marked done, every legacy row it could read is in
\* the repository; the same exception for IndexedDB.
DoneIsComplete ==
  [][flag' = "done" /\ flag # "done" =>
       \A l \in Legacy \ unread :
         (backend = "indexedDB" => l.table = "transactions") => l.row \in View(l.table)]_vars

\* A repository that has a connection, and is not being disposed of, has an
\* open one, whoever else opens and disposes of the same database; unless a
\* repository of that database was disposed of again, and took a second
\* count, before its first disposal had ended.
HandleIsOpen == \A r \in Repos :
  handle[r] # None /\ ~BeingDisposed(r) /\ DatabaseOf(r) \notin overlapped => handle[r] \in live

\* The four stores answer a query alike, with the rows that match it, for
\* every content of theirs, unless a list of values is empty (contracts) or
\* a direction is missing (swaps).
AnyOrSome(S) == {None} \cup {{v} : v \in S} \cup {S}
ContractQueries == [ids : AnyOrSome({r.id : r \in disk["contracts"]}), states : AnyOrSome({"active", "inactive"}),
                    kinds : AnyOrSome({KindOf[i] : i \in DOMAIN KindOf}), order : {None}]
SwapQueries == [ids : AnyOrSome({r.id : r \in disk["swaps"]}) \cup {{}},
                states : AnyOrSome({"created", "settled"}) \cup {{}},
                kinds : AnyOrSome({KindOf[i] : i \in DOMAIN KindOf}), order : {None, "asc", "desc"}]
AnswersAgree ==
  /\ \A f \in ContractQueries : Listless(f) =>
       LET rows == disk["contracts"]  right == {r \in rows : Matches(f, r)}
       IN  {MemoryContracts(rows, f), IndexedDBContracts(rows, f), SQLiteContracts(rows, f),
            RealmContracts(rows, f)} = {right}
  /\ \A f \in SwapQueries :
       LET rows == disk["swaps"]  right == [rows |-> {r \in rows : Matches(f, r)}, order |-> f.order]
       IN  {MemorySwaps(rows, f), IndexedDBSwaps(rows, f), SQLiteSwaps(rows, f),
            RealmSwaps(rows, f)} = {right}
==============================================================================
