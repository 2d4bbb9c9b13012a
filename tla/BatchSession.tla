---------------------------- MODULE BatchSession ----------------------------
(***************************************************************************)
(* Joining a batch: Batch.join (ts-sdk/src/wallet/batch.ts) with its two    *)
(* handlers, the wallet's (Wallet.createBatchHandler) and the one of swap   *)
(* claims and refunds (boltz-swap/src/batch.ts), the callers that register  *)
(* and delete the intent, and the event stream of the Ark server.           *)
(*                                                                          *)
(* A transaction of a tree is a name; a chunk is a name and its batch.      *)
(***************************************************************************)
EXTENDS Naturals, Sequences, FiniteSets, SequencesExt

CONSTANTS
    Callers,     \* which of Caller are tried
    Providers,   \* which of RestArkProvider and ExpoArkProvider
    Txs,         \* the transactions of a vtxo tree
    Root,        \* the one that spends the commitment transaction
    MaxBatches,  \* numbers of batches: those nobody remembers are used again
    MaxEvents,   \* no batch starts while more events are on their way, nor
                 \* before or after the call
    Events       \* which of Event occur

\* settle, of recoverable coins, without outputs on Ark; the claim or refund of
\* a VHTLC, recoverable or not.
Caller == {"settle", "settleRecoverable", "exit", "vhtlc", "vhtlcRecoverable"}

\* RestArkProvider opens an EventSource when it is asked for a stream;
\* ExpoArkProvider fetches when the stream is read, and again when that ends.
Provider == {"rest", "expo"}

\* A request that fails, done or not; a stream that breaks; an intent of an
\* earlier process for the same coins.
Event == {"error", "break", "stale"}

ASSUME ConstantsAssumption ==
    /\ Callers \subseteq Caller /\ Providers \subseteq Provider
    /\ Root \in Txs /\ IsFiniteSet(Txs)
    /\ MaxBatches \in Nat \ {0} /\ MaxEvents \in Nat
    /\ Events \subseteq Event

VARIABLES
    caller,   \* who joins
    provider, \* whose stream it reads
    call,     \* where the caller is
    request,  \* the request awaited inside join, and what became of it
    stream,   \* the connection behind it
    inbox,    \* events the stream has delivered and join has not taken
    step, vtxoChunks, connectorChunks, vtxoTree,  \* the locals of join
    session,  \* the TreeSignerSession: its tree, nonces and aggregated nonces
    batch,    \* at the server: the number of the last batch
    phase,    \* how far it is
    intent,   \* what the server holds of the caller's intent
    outbox,   \* events the server has emitted
    given     \* what the server got from the caller: nonces, signatures, forfeits

client == <<caller, provider, call, request, stream, inbox, step, vtxoChunks,
            connectorChunks, vtxoTree, session>>
server == <<batch, phase, intent, outbox, given>>
vars == <<client, server>>

-----------------------------------------------------------------------------
(* Types. *)

Batches == 1 .. MaxBatches
Chunk == [batch : Batches, tx : Txs]
ConnectorChunk == [batch : Batches]

BatchEvent ==
    [type : {"started", "signing"}, batch : Batches, ours : BOOLEAN]
      \cup [type : {"tree", "nonces", "signature"}, batch : Batches, tx : Txs]
      \cup [type : {"connector", "finalization", "finalized", "failed"}, batch : Batches]

Step == {"start", "batch_started", "tree_signing_started",
         "tree_nonces_aggregated", "batch_finalization"}

NoRequest == [kind |-> "none", batch |-> 0, state |-> "none"]

TypeOK ==
    /\ caller \in Callers /\ provider \in Providers
    /\ call \in {"idle", "registering", "retrying", "opening", "joining",
                 "deleting", "resolved", "rejected"}
    /\ request \in {NoRequest}
         \cup [kind : {"confirm", "nonces", "signatures", "forfeits"},
               batch : Batches, state : {"sent", "ok", "error"}]
    /\ stream \in {"none", "open", "reopening", "reopened", "closed"}
    /\ inbox \in Seq(BatchEvent)
    /\ step \in Step
    /\ vtxoChunks \in Seq(Chunk) /\ connectorChunks \in Seq(ConnectorChunk)
    /\ vtxoTree \subseteq Chunk
    /\ session \in [tree : SUBSET Chunk, nonces : SUBSET Chunk, aggregated : SUBSET Chunk]
    /\ batch \in 0 .. MaxBatches
    /\ phase \in {"idle", "started", "signing", "aggregated", "finalizing"}
    /\ intent \in {"none", "stale", "queued", "selected", "confirmed", "settled"}
    /\ outbox \in Seq(BatchEvent)
    /\ given \subseteq [kind : {"nonces", "signatures", "forfeits"},
                       batch : Batches, tree : SUBSET Chunk]

-----------------------------------------------------------------------------
(* What the callers differ in. *)

\* identity.signerSession(): settle takes one only for outputs on Ark.
HasSession == caller # "exit"

\* A forfeit is due for coins that are not recoverable.
NeedsForfeit == caller \notin {"settleRecoverable", "vhtlcRecoverable"}

\* The locals of join when it is called.
FreshJoin ==
    /\ step = "start"
    /\ vtxoChunks = <<>> /\ connectorChunks = <<>>
    /\ vtxoTree = {}

Init ==
    /\ caller \in Callers /\ provider \in Providers
    /\ call = "idle"
    /\ request = NoRequest
    /\ stream = "none"
    /\ inbox = <<>>
    /\ FreshJoin
    /\ session = [tree |-> {}, nonces |-> {}, aggregated |-> {}]
    /\ batch = 0
    /\ phase = "idle"
    /\ intent \in {"none"} \cup (IF "stale" \in Events THEN {"stale"} ELSE {})
    /\ outbox = <<>>
    /\ given = {}

-----------------------------------------------------------------------------
(* The server.  It selects queued intents for a batch, goes on without those *)
(* that are not confirmed, and may give up a batch at any time.              *)

ServerEmits(events) == outbox' = outbox \o events

\* One event per transaction of the tree, the root first.
TreeEvents(type) ==
    LET one(tx) == [type |-> type, batch |-> batch, tx |-> tx]
    IN  <<one(Root)>> \o SetToSeq({one(tx) : tx \in Txs \ {Root}})

Remembered ==
    {batch, request.batch}
      \cup {c.batch : c \in ToSet(vtxoChunks) \cup vtxoTree \cup session.nonces}
      \cup {c.batch : c \in ToSet(connectorChunks)}
      \cup {e.batch : e \in ToSet(inbox \o outbox)}

ServerStartsBatch(ours) ==
    /\ phase = "idle"
    /\ call \in {"registering", "retrying", "opening", "joining"}
    /\ Len(outbox) + Len(inbox) <= MaxEvents
    /\ \E b \in Batches \ Remembered :
         batch' = b /\ \A c \in Batches \ Remembered : b <= c
    /\ phase' = "started"
    /\ ours => intent = "queued"
    /\ intent' = IF ours THEN "selected" ELSE intent
    /\ given' = {g \in given : g.batch # batch'}
    /\ ServerEmits(<<[type |-> "started", batch |-> batch', ours |-> ours]>>)
    /\ UNCHANGED client

\* The time to confirm is over.  The intent of a caller that has not goes back
\* to the queue, or is dropped.  Topics keep the trees of others from the caller.
ServerBuildsTree ==
    /\ phase = "started"
    /\ phase' = "signing"
    /\ intent' \in IF intent = "selected" THEN {"queued", "none"} ELSE {intent}
    /\ IF intent = "confirmed"
       THEN ServerEmits((IF HasSession THEN TreeEvents("tree") ELSE <<>>)
                          \o <<[type |-> "signing", batch |-> batch, ours |-> HasSession]>>)
       ELSE ServerEmits(<<[type |-> "signing", batch |-> batch, ours |-> FALSE]>>)
    /\ UNCHANGED <<client, batch, given>>

Given(kind) == \E g \in given : g.kind = kind /\ g.batch = batch

ServerAggregates ==
    /\ phase = "signing"
    /\ intent = "confirmed" /\ HasSession => Given("nonces")
    /\ phase' = "aggregated"
    /\ ServerEmits(IF intent = "confirmed" /\ HasSession THEN TreeEvents("nonces") ELSE <<>>)
    /\ UNCHANGED <<client, batch, intent, given>>

ServerFinalizes ==
    /\ phase = "aggregated"
    /\ intent = "confirmed" /\ HasSession => Given("signatures")
    /\ phase' = "finalizing"
    /\ ServerEmits(
         (IF intent = "confirmed"
          THEN (IF HasSession THEN TreeEvents("signature") ELSE <<>>)
                 \o (IF NeedsForfeit THEN <<[type |-> "connector", batch |-> batch]>> ELSE <<>>)
          ELSE <<>>)
           \o <<[type |-> "finalization", batch |-> batch]>>)
    /\ UNCHANGED <<client, batch, intent, given>>

ServerCompletes ==
    /\ phase = "finalizing"
    /\ intent = "confirmed" /\ NeedsForfeit => Given("forfeits")
    /\ phase' = "idle"
    /\ intent' = IF intent = "confirmed" THEN "settled" ELSE intent
    /\ ServerEmits(<<[type |-> "finalized", batch |-> batch]>>)
    /\ UNCHANGED <<client, batch, given>>

ServerFailsBatch ==
    /\ phase # "idle"
    /\ phase' = "idle"
    /\ intent' \in IF intent \in {"selected", "confirmed"} THEN {"queued", "none"}
                   ELSE {intent}
    /\ ServerEmits(<<[type |-> "failed", batch |-> batch]>>)
    /\ UNCHANGED <<client, batch, given>>

Listens == stream \in {"open", "reopened"}

\* An event reaches an open stream, and nobody otherwise.
DeliverEvent ==
    /\ outbox # <<>>
    /\ outbox' = Tail(outbox)
    /\ inbox' = IF Listens THEN Append(inbox, Head(outbox)) ELSE inbox
    /\ UNCHANGED <<caller, provider, call, request, stream, step, vtxoChunks, connectorChunks,
                   vtxoTree, session, batch, phase, intent, given>>

-----------------------------------------------------------------------------
(* The callers: settle opens the stream and registers, joinBatch of the swaps *)
(* registers and opens it.                                                   *)

OpensFirst == caller \in {"settle", "settleRecoverable", "exit"}

\* An exception inside the caller's try block: leaving the loop closes the
\* stream, and the intent is deleted.
Throw ==
    /\ call' = "deleting"
    /\ stream' = "closed"

Begin ==
    /\ call = "idle"
    /\ call' = "registering"
    /\ stream' = IF OpensFirst /\ provider = "rest" THEN "open" ELSE "none"
    /\ UNCHANGED <<caller, provider, request, inbox, step, vtxoChunks, connectorChunks,
                   vtxoTree, session, server>>

\* registerIntent.  An intent with the same input is an error, after which
\* safeRegisterIntent deletes what the wallet has registered and tries again.
\* joinBatch registers before its try block.
RegisterIntent ==
    /\ call \in {"registering", "retrying"}
    /\ IF intent = "stale"
       THEN /\ call' = IF OpensFirst THEN "retrying" ELSE "rejected"
            /\ intent' = IF OpensFirst THEN "none" ELSE intent
       ELSE call' = "opening" /\ intent' = "queued"
    /\ UNCHANGED <<caller, provider, request, stream, inbox, step, vtxoChunks, connectorChunks,
                   vtxoTree, session, batch, phase, outbox, given>>

RegisterFails ==
    /\ "error" \in Events
    /\ call \in {"registering", "retrying"}
    /\ intent' \in {intent} \cup (IF intent = "none" THEN {"queued"} ELSE {})
    /\ IF OpensFirst THEN Throw ELSE call' = "rejected" /\ UNCHANGED stream
    /\ UNCHANGED <<caller, provider, request, inbox, step, vtxoChunks, connectorChunks, vtxoTree,
                   session, batch, phase, outbox, given>>

\* The intent's id arrives; join reads the stream, which is opened if it is not.
IntentRegistered ==
    /\ call = "opening"
    /\ call' = "joining"
    /\ stream' = "open"
    /\ UNCHANGED <<caller, provider, request, inbox, step, vtxoChunks, connectorChunks,
                   vtxoTree, session, server>>

\* deleteIntent of the catch block; the server keeps what is in a batch, and
\* an error is swallowed.
DeleteIntent ==
    /\ call = "deleting"
    /\ call' = "rejected"
    /\ intent' \in (IF intent = "queued" THEN {"none"} ELSE {intent})
                    \cup (IF "error" \in Events THEN {intent} ELSE {})
    /\ UNCHANGED <<caller, provider, request, stream, inbox, step, vtxoChunks, connectorChunks,
                   vtxoTree, session, batch, phase, outbox, given>>

-----------------------------------------------------------------------------
(* Batch.join: one event at a time, with the handler's requests awaited.     *)

Asks(kind, b) == request' = [kind |-> kind, batch |-> b, state |-> "sent"]

\* TxTree.create: every chunk once, all below one root.
IsTree(chunks) ==
    /\ chunks # <<>>
    /\ Cardinality(ToSet(chunks)) = Len(chunks)
    /\ LET roots == {c \in ToSet(chunks) :
                        c.tx = Root \/ [c EXCEPT !.tx = Root] \notin ToSet(chunks)}
       IN  Cardinality(roots) = 1

TreeOf(b) == [batch : {b}, tx : Txs]

\* validateVtxoTxGraph: the root spends this batch's commitment transaction.
\* The wallet also looks for its outputs among the leaves.
ValidTree(tree, b) ==
    /\ [batch |-> b, tx |-> Root] \in tree
    /\ OpensFirst => TreeOf(b) \subseteq tree

\* An event is taken: Head(inbox) when join awaits nothing else.
Takes(type) ==
    /\ call = "joining" /\ request = NoRequest
    /\ inbox # <<>> /\ Head(inbox).type = type
    /\ inbox' = Tail(inbox)

Skip == UNCHANGED <<call, request, stream, step, vtxoChunks, connectorChunks, vtxoTree,
                    session>>

BatchStarted ==
    /\ Takes("started")
    /\ IF Head(inbox).ours THEN Asks("confirm", Head(inbox).batch) ELSE UNCHANGED request
    /\ UNCHANGED <<caller, provider, call, stream, step, vtxoChunks, connectorChunks, vtxoTree,
                   session, server>>

Collecting == step \in {"batch_started", "tree_nonces_aggregated"}

TreeTx ==
    /\ Takes("tree")
    /\ vtxoChunks' = IF Collecting
                     THEN Append(vtxoChunks, [batch |-> Head(inbox).batch,
                                              tx |-> Head(inbox).tx])
                     ELSE vtxoChunks
    /\ UNCHANGED <<caller, provider, call, request, stream, step, connectorChunks, vtxoTree,
                   session, server>>

ConnectorTx ==
    /\ Takes("connector")
    /\ connectorChunks' = IF Collecting
                          THEN Append(connectorChunks, [batch |-> Head(inbox).batch])
                          ELSE connectorChunks
    /\ UNCHANGED <<caller, provider, call, request, stream, step, vtxoChunks, vtxoTree, session,
                   server>>

\* The tree is built from the chunks; a caller who is not among the cosigners
\* goes on waiting; otherwise tree and recipients are validated, the session is
\* set up for the tree, and its public nonces are sent.  Nonces once drawn stay.
TreeSigningStarted ==
    LET tree == ToSet(vtxoChunks)
        e == Head(inbox)
    IN
    /\ Takes("signing")
    /\ IF step # "batch_started" THEN Skip
       ELSE IF ~IsTree(vtxoChunks) \/ (e.ours /\ ~ValidTree(tree, e.batch))
       THEN Throw /\ UNCHANGED <<request, step, vtxoChunks, connectorChunks, vtxoTree, session>>
       ELSE /\ vtxoTree' = tree
            /\ IF e.ours
               THEN /\ session' = [session EXCEPT
                                     !.tree = tree,
                                     !.nonces = IF @ = {} THEN tree ELSE @]
                    /\ Asks("nonces", e.batch)
               ELSE UNCHANGED <<session, request>>
            /\ UNCHANGED <<call, stream, step, vtxoChunks, connectorChunks>>
    /\ UNCHANGED <<caller, provider, server>>

\* Faults: the first aggregated nonce is taken for all of them; signatures are
\* sent for a tree whose nonces are not asked for.
TreeNoncesHasty ==
    LET chunk == [batch |-> Head(inbox).batch, tx |-> Head(inbox).tx] IN
    /\ Takes("nonces")
    /\ IF step # "tree_signing_started" THEN Skip
       ELSE /\ session' = [session EXCEPT !.aggregated = @ \cup {chunk}]
            /\ Asks("signatures", Head(inbox).batch)
            /\ UNCHANGED <<call, stream, step, vtxoChunks, connectorChunks, vtxoTree>>
    /\ UNCHANGED <<caller, provider, server>>

\* TreeSignerSession.aggregatedNonces and, when none is missing, sign.
TreeNonces ==
    LET chunk == [batch |-> Head(inbox).batch, tx |-> Head(inbox).tx]
        aggregated == session.aggregated \cup {chunk}
        complete == Cardinality(aggregated) = Cardinality(session.nonces)
    IN
    /\ Takes("nonces")
    /\ IF step # "tree_signing_started" THEN Skip
       ELSE IF \/ chunk \notin session.nonces \cap session.tree
               \/ complete /\ ~(session.tree \subseteq session.nonces \cap aggregated)
       THEN Throw /\ UNCHANGED <<request, step, vtxoChunks, connectorChunks, vtxoTree, session>>
       ELSE /\ session' = [session EXCEPT !.aggregated = aggregated]
            /\ IF complete THEN Asks("signatures", Head(inbox).batch) ELSE UNCHANGED request
            /\ UNCHANGED <<call, stream, step, vtxoChunks, connectorChunks, vtxoTree>>
    /\ UNCHANGED <<caller, provider, server>>

TreeSignature ==
    LET chunk == [batch |-> Head(inbox).batch, tx |-> Head(inbox).tx] IN
    /\ Takes("signature")
    /\ IF step = "tree_nonces_aggregated" /\ chunk \notin vtxoTree
       THEN Throw /\ UNCHANGED <<request, step, vtxoChunks, connectorChunks, vtxoTree, session>>
       ELSE Skip
    /\ UNCHANGED <<caller, provider, server>>

\* The connectors that pay for the forfeits are those of this commitment
\* transaction (validateConnectorsTxGraph).
ConnectorsFit(b) ==
    /\ Len(connectorChunks) <= 1
    /\ connectorChunks # <<>> => connectorChunks[1].batch = b
    /\ NeedsForfeit => connectorChunks # <<>>

\* Fault: a handler that is never told about the connectors takes any batch.
BatchFinalizationAnyStep ==
    LET b == Head(inbox).batch IN
    /\ Takes("finalization")
    /\ IF NeedsForfeit
       THEN Asks("forfeits", b) /\ UNCHANGED step
       ELSE step' = "batch_finalization" /\ UNCHANGED request
    /\ UNCHANGED <<caller, provider, call, stream, vtxoChunks, connectorChunks, vtxoTree, session, server>>

\* Trees are completed, and what the caller gives up for the batch is signed.
BatchFinalization ==
    LET b == Head(inbox).batch
        tree == IF vtxoTree = {} THEN ToSet(vtxoChunks) ELSE vtxoTree
    IN
    /\ Takes("finalization")
    /\ IF step # "tree_nonces_aggregated" THEN Skip
       ELSE IF \/ vtxoTree = {} /\ vtxoChunks # <<>> /\ ~IsTree(vtxoChunks)
               \/ tree = {} /\ HasSession
               \/ ~ConnectorsFit(b)
       THEN Throw /\ UNCHANGED <<request, step, vtxoChunks, connectorChunks, vtxoTree, session>>
       ELSE /\ vtxoTree' = tree
            /\ IF NeedsForfeit
               THEN Asks("forfeits", b) /\ UNCHANGED step
               ELSE step' = "batch_finalization" /\ UNCHANGED request
            /\ UNCHANGED <<call, stream, vtxoChunks, connectorChunks, session>>
    /\ UNCHANGED <<caller, provider, server>>

BatchFinalized ==
    /\ Takes("finalized")
    /\ IF step = "batch_finalization"
       THEN call' = "resolved" /\ stream' = "closed"
       ELSE UNCHANGED <<call, stream>>
    /\ UNCHANGED <<caller, provider, request, step, vtxoChunks, connectorChunks, vtxoTree, session, server>>

\* Fault: the failure of a batch is passed over.
BatchFailedIgnored ==
    /\ Takes("failed")
    /\ Skip
    /\ UNCHANGED <<caller, provider, server>>

\* Neither handler has onBatchFailed: any failed batch ends join.
BatchFailed ==
    /\ Takes("failed")
    /\ Throw
    /\ UNCHANGED <<caller, provider, request, step, vtxoChunks, connectorChunks, vtxoTree, session, server>>

\* The stream reports an error, once its messages have been taken.
StreamBreaks ==
    /\ "break" \in Events
    /\ call = "joining" /\ request = NoRequest /\ Listens /\ inbox = <<>>
    /\ Throw
    /\ UNCHANGED <<caller, provider, request, inbox, step, vtxoChunks, connectorChunks, vtxoTree,
                   session, server>>

\* The stream ends or times out: it is opened anew (here: once).
StreamTimesOut ==
    /\ provider = "expo"
    /\ call = "joining" /\ request = NoRequest /\ stream = "open" /\ inbox = <<>>
    /\ stream' = "reopening"
    /\ UNCHANGED <<caller, provider, call, request, inbox, step, vtxoChunks, connectorChunks,
                   vtxoTree, session, server>>

StreamReopens ==
    /\ stream = "reopening"
    /\ stream' = "reopened"
    /\ UNCHANGED <<caller, provider, call, request, inbox, step, vtxoChunks, connectorChunks,
                   vtxoTree, session, server>>

-----------------------------------------------------------------------------
(* The requests of the handlers. *)

\* What the server accepts: a confirmation while it waits for them, nonces and
\* signatures and forfeits in the phase of their batch.
InPhase(kind) ==
    CASE kind = "confirm"    -> phase = "started"    /\ intent = "selected"
      [] kind = "nonces"     -> phase = "signing"    /\ intent = "confirmed"
      [] kind = "signatures" -> phase = "aggregated" /\ intent = "confirmed"
      [] kind = "forfeits"   -> phase = "finalizing" /\ intent = "confirmed"

Accepts(r) ==
    /\ intent' = IF r.kind = "confirm" THEN "confirmed" ELSE intent
    /\ given' = IF r.kind = "confirm" THEN given
                ELSE given \cup {[kind |-> r.kind, batch |-> r.batch, tree |-> session.tree]}

ServerAnswers ==
    /\ request.state = "sent"
    /\ IF request.batch = batch /\ InPhase(request.kind)
       THEN /\ Accepts(request)
            /\ \E state \in {"ok"} \cup (IF "error" \in Events THEN {"error"} ELSE {}) :
                 request' = [request EXCEPT !.state = state]
       ELSE request' = [request EXCEPT !.state = "error"] /\ UNCHANGED <<intent, given>>
    /\ UNCHANGED <<caller, provider, call, stream, inbox, step, vtxoChunks, connectorChunks,
                   vtxoTree, session, batch, phase, outbox>>

\* The step that follows a request: batch_started is skipped without a session.
StepAfter(kind) ==
    CASE kind = "confirm"    -> IF HasSession THEN "batch_started" ELSE "tree_nonces_aggregated"
      [] kind = "nonces"     -> "tree_signing_started"
      [] kind = "signatures" -> "tree_nonces_aggregated"
      [] kind = "forfeits"   -> "batch_finalization"

RequestAnswered ==
    /\ request.state \in {"ok", "error"}
    /\ request' = NoRequest
    /\ IF request.state = "ok"
       THEN step' = StepAfter(request.kind) /\ UNCHANGED <<call, stream>>
       ELSE Throw /\ UNCHANGED step
    /\ UNCHANGED <<caller, provider, inbox, vtxoChunks, connectorChunks, vtxoTree, session, server>>

-----------------------------------------------------------------------------
ServerNext ==
    \/ \E ours \in BOOLEAN : ServerStartsBatch(ours)
    \/ ServerBuildsTree \/ ServerAggregates \/ ServerFinalizes \/ ServerCompletes
    \/ ServerFailsBatch \/ DeliverEvent \/ ServerAnswers

CallerNext ==
    \/ Begin \/ RegisterIntent \/ RegisterFails \/ IntentRegistered \/ DeleteIntent
    \/ RequestAnswered

JoinNext ==
    \/ BatchStarted \/ TreeTx \/ ConnectorTx \/ TreeSigningStarted \/ TreeNonces
    \/ TreeSignature \/ BatchFinalization \/ BatchFinalized \/ BatchFailed
    \/ StreamBreaks \/ StreamTimesOut \/ StreamReopens

Next == ServerNext \/ CallerNext \/ JoinNext

Spec == Init /\ [][Next]_vars

\* The server goes on with its batches, selects what is queued again and again,
\* and gives up a batch whose participants do not do their part; requests and
\* events arrive.
FairSpec ==
    /\ Spec
    /\ WF_vars(CallerNext) /\ WF_vars(JoinNext)
    /\ WF_vars(DeliverEvent) /\ WF_vars(ServerAnswers)
    /\ WF_vars(ServerNext)
    /\ SF_vars(ServerStartsBatch(TRUE))
    /\ WF_vars(ServerBuildsTree) /\ WF_vars(ServerFailsBatch)

-----------------------------------------------------------------------------
(* Properties. *)

\* Signatures go out only for the tree the nonces were sent for, and that tree
\* is the one of the batch: the caller's own outputs are in it when the caller
\* checks that.  (createBatchHandler, TreeSignerSession)
SignsItsTree ==
    \A g \in given : g.kind = "signatures" =>
        /\ [g EXCEPT !.kind = "nonces"] \in given
        /\ ValidTree(g.tree, g.batch)
        /\ g.tree \subseteq session.aggregated

\* Signed forfeits leave the caller only for a batch whose tree it has signed.
\* (the steps of Batch.join, and the connectors' commitment transaction)
ForfeitsComeLast ==
    request.kind = "forfeits" /\ HasSession =>
        \E g \in given : g.kind = "signatures" /\ g.batch = request.batch

\* "Batch completed with commitment" (batch.ts:37): when join resolves, the
\* server has settled the caller's intent in a batch.  Although join compares no
\* batch of its events with that of the intent, this is so as long as no event is
\* lost between two connections. (Batch.join)
ResolvesSettled == (provider = "rest" /\ call = "resolved") => intent = "settled"

\* settle ends whatever the server does, and so gives back the transaction lock,
\* when the stream was open before the intent was known. (Wallet.settle)
SettleEnds ==
    (call = "joining" /\ OpensFirst /\ provider = "rest")
        ~> call \in {"resolved", "rejected"}

=============================================================================
