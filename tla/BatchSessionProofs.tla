------------------------- MODULE BatchSessionProofs -------------------------
(***************************************************************************)
(* Theorems about BatchSession, for any callers, providers, trees, numbers  *)
(* of batches and bounds: what is signed is the batch's own tree, forfeits  *)
(* come after the signatures, and join resolves only for a settled intent.  *)
(***************************************************************************)
EXTENDS BatchSession, FiniteSetTheorems, SequenceTheorems, TLAPS

-----------------------------------------------------------------------------
(* Types, and that a batch under way has a number. *)

Typed == TypeOK /\ (phase # "idle" => batch \in Batches)

-----------------------------------------------------------------------------
(* The order of events.  Those of one batch are on their way between the     *)
(* event that starts it and the one that ends it, whatever is lost.          *)

Bound == {"started", "failed", "finalized"}

NoBound(s) == \A i \in DOMAIN s : s[i].type \notin Bound

InOrder(s) == \A i, j \in DOMAIN s : i < j /\ s[i].batch = batch => s[j].type \notin Bound

EventsInOrder ==
    phase # "idle" =>
        /\ InOrder(inbox) /\ InOrder(outbox)
        /\ (\E i \in DOMAIN inbox : inbox[i].batch = batch) => NoBound(outbox)

\* While a handler's request for the batch under way is awaited, no event that
\* starts or ends a batch is on its way.
RequestInOrder ==
    request # NoRequest /\ request.batch = batch /\ phase # "idle" =>
        NoBound(inbox) /\ NoBound(outbox)

-----------------------------------------------------------------------------
(* What the session knows, and what the server has been given. *)

SigningFits ==
    /\ session.nonces # {} => HasSession
    /\ \A i \in DOMAIN inbox : inbox[i].type = "signing" /\ inbox[i].ours => HasSession
    /\ \A i \in DOMAIN outbox : outbox[i].type = "signing" /\ outbox[i].ours => HasSession
    /\ request.kind \in {"nonces", "signatures"} => HasSession
    /\ request.kind = "nonces" => ValidTree(session.tree, request.batch)
    /\ request.kind = "signatures" => session.tree \subseteq session.aggregated

\* The nonces of the batch under way are for the session's tree, which join does
\* not replace before the next batch.
NoncesAreCurrent ==
    phase # "idle" =>
        \A g \in given : g.kind = "nonces" /\ g.batch = batch =>
            g.tree = session.tree /\ ValidTree(g.tree, g.batch)

TreeStays ==
    phase # "idle" /\ Given("nonces") /\ call = "joining" =>
        /\ NoBound(inbox) /\ NoBound(outbox)
        /\ request.kind # "confirm"
        /\ step = "batch_started" => request.kind = "nonces"

\* Before join there is nothing to remember.
GivenByJoin ==
    call \in {"idle", "registering", "retrying", "opening"} =>
        given = {} /\ request = NoRequest /\ step = "start"

AggregatedHasNonces ==
    phase = "aggregated" /\ intent = "confirmed" /\ HasSession => Given("nonces")

\* Connectors reach only a caller whose signatures the server has.
Signed(b) == \E g \in given : g.kind = "signatures" /\ g.batch = b

ConnectorsAreEarned ==
    HasSession =>
        /\ \A i \in DOMAIN inbox : inbox[i].type = "connector" => Signed(inbox[i].batch)
        /\ \A i \in DOMAIN outbox : outbox[i].type = "connector" => Signed(outbox[i].batch)
        /\ \A i \in DOMAIN connectorChunks : Signed(connectorChunks[i].batch)

-----------------------------------------------------------------------------
(* When the caller has done its part, and no event is lost, the batch of its *)
(* intent is settled or its failure is the next thing join hears.            *)

Committed ==
    \/ step = "batch_finalization"
    \/ ~NeedsForfeit /\ step = "tree_nonces_aggregated"
    \/ request.state = "ok" /\ request.kind = "forfeits"
    \/ request.state = "ok" /\ request.kind = "signatures" /\ ~NeedsForfeit

FirstFails(s) ==
    \E k \in DOMAIN s : s[k].type = "failed" /\ \A i \in 1 .. k - 1 : s[i].type \notin Bound

NextBoundFails == FirstFails(inbox) \/ (NoBound(inbox) /\ FirstFails(outbox))

Decided ==
    \/ intent = "settled"
    \/ /\ phase \in {"aggregated", "finalizing"} /\ intent = "confirmed"
       /\ NoBound(inbox) /\ NoBound(outbox)
    \/ NextBoundFails

StreamStays == provider = "rest" /\ call = "joining" => stream = "open"

CommitmentHolds ==
    provider = "rest" =>
        /\ call = "joining" /\ Committed => Decided
        /\ call = "resolved" => intent = "settled"

Inv ==
    /\ Typed /\ EventsInOrder /\ RequestInOrder
    /\ GivenByJoin
    /\ SigningFits /\ NoncesAreCurrent /\ TreeStays /\ AggregatedHasNonces /\ SignsItsTree
    /\ ConnectorsAreEarned /\ ForfeitsComeLast
    /\ StreamStays /\ CommitmentHolds

-----------------------------------------------------------------------------
(* Events. *)

\* The events of a tree are of the batch under way.
LEMMA TreeEventsFit ==
  ASSUME batch \in Batches, NEW type \in {"tree", "nonces", "signature"}
  PROVE  /\ TreeEvents(type) \in Seq(BatchEvent)
         /\ \A i \in DOMAIN TreeEvents(type) :
              TreeEvents(type)[i].type = type /\ TreeEvents(type)[i].batch = batch
<1> DEFINE one(tx) == [type |-> type, batch |-> batch, tx |-> tx]
           rest == {one(tx) : tx \in Txs \ {Root}}
<1>1. IsFiniteSet(rest)
  <2>1. IsFiniteSet(Txs \ {Root})
    BY ConstantsAssumption, FS_Subset
  <2> DEFINE f == [tx \in Txs \ {Root} |-> one(tx)]
  <2>2. f \in Surjection(Txs \ {Root}, rest)
    BY DEF Surjection
  <2> QED BY <2>1, <2>2, FS_Surjection
<1>2. SetToSeq(rest) \in Seq(rest)
  <2>1. PICK n \in Nat : ExistsBijection(1 .. n, rest)
    BY <1>1, FS_NatBijection
  <2>2. Cardinality(rest) = n
    BY <2>1, FS_CountingElements
  <2>3. \E f \in [1 .. n -> rest] : IsInjective(f)
    BY <2>1 DEF ExistsBijection, Bijection, Injection
  <2>4. SetToSeq(rest) \in [1 .. n -> rest]
    BY <2>2, <2>3 DEF SetToSeq
  <2> HIDE DEF rest
  <2> QED BY <2>1, <2>4, SeqDef
<1>3. \A e \in rest \cup {one(Root)} : e \in BatchEvent /\ e.type = type /\ e.batch = batch
  BY ConstantsAssumption DEF BatchEvent
<1>4. TreeEvents(type) = <<one(Root)>> \o SetToSeq(rest)
  BY DEF TreeEvents
<1>5. <<one(Root)>> \in Seq(rest \cup {one(Root)}) /\ SetToSeq(rest) \in Seq(rest \cup {one(Root)})
  BY <1>2
<1>6. TreeEvents(type) \in Seq(rest \cup {one(Root)})
  BY <1>4, <1>5
<1> HIDE DEF rest, one
<1>7. \A i \in DOMAIN TreeEvents(type) : TreeEvents(type)[i] \in rest \cup {one(Root)}
  BY <1>6
<1> QED BY <1>3, <1>6, <1>7

-----------------------------------------------------------------------------
(* What steps do to the events on their way. *)

\* Events are appended at the server.
LEMMA Appended ==
  ASSUME NEW s \in Seq(BatchEvent), NEW ev \in Seq(BatchEvent)
  PROVE  /\ s \o ev \in Seq(BatchEvent)
         /\ \A i \in DOMAIN s : i \in DOMAIN (s \o ev) /\ (s \o ev)[i] = s[i]
         /\ \A i \in DOMAIN (s \o ev) :
              \/ i \in DOMAIN s /\ (s \o ev)[i] = s[i]
              \/ i \notin DOMAIN s /\ \E j \in DOMAIN ev : (s \o ev)[i] = ev[j]
OBVIOUS

\* The one event that starts or ends a batch.
LEMMA AppendedOne ==
  ASSUME NEW s \in Seq(BatchEvent), NEW e \in BatchEvent
  PROVE  /\ s \o <<e>> \in Seq(BatchEvent)
         /\ DOMAIN (s \o <<e>>) = DOMAIN s \cup {Len(s) + 1}
         /\ \A i \in DOMAIN s : (s \o <<e>>)[i] = s[i]
         /\ (s \o <<e>>)[Len(s) + 1] = e
OBVIOUS

Emits(ev) ==
    /\ ev \in Seq(BatchEvent) /\ outbox' = outbox \o ev
    /\ \A i \in DOMAIN ev :
         /\ ev[i].batch = batch /\ ev[i].type \notin Bound
         /\ ev[i].type = "signing" /\ ev[i].ours => HasSession
         /\ ev[i].type = "connector" /\ HasSession => Signed(batch)

\* The server's steps within a batch.
LEMMA WithinBatch ==
  ASSUME Typed, ServerBuildsTree \/ ServerAggregates \/ ServerFinalizes
  PROVE  /\ UNCHANGED <<client, batch, given>>
         /\ phase # "idle" /\ phase' \in {"signing", "aggregated", "finalizing"}
         /\ \E ev : Emits(ev)
<1>1. UNCHANGED <<client, batch, given>> /\ phase # "idle"
      /\ phase' \in {"signing", "aggregated", "finalizing"}
  BY DEF ServerBuildsTree, ServerAggregates, ServerFinalizes
<1>2. batch \in Batches
  BY <1>1 DEF Typed
<1> DEFINE fits(ev) == /\ ev \in Seq(BatchEvent)
                       /\ \A i \in DOMAIN ev :
                            /\ ev[i].batch = batch /\ ev[i].type \notin Bound
                            /\ ev[i].type = "signing" /\ ev[i].ours => HasSession
                            /\ ev[i].type = "connector" /\ HasSession => Signed(batch)
<1>3. \A ev1, ev2 : fits(ev1) /\ fits(ev2) => fits(ev1 \o ev2)
  OBVIOUS
<1>4. \A type \in {"tree", "nonces", "signature"} : fits(TreeEvents(type))
  BY <1>2, TreeEventsFit DEF Bound
<1>5. fits(<<>>)
  OBVIOUS
<1>6. \A ours \in BOOLEAN : (ours => HasSession) =>
        fits(<<[type |-> "signing", batch |-> batch, ours |-> ours]>>)
  BY <1>2 DEF BatchEvent, Bound
<1>7. fits(<<[type |-> "finalization", batch |-> batch]>>)
  BY <1>2 DEF BatchEvent, Bound
<1>8. (HasSession => Signed(batch)) => fits(<<[type |-> "connector", batch |-> batch]>>)
  BY <1>2 DEF BatchEvent, Bound
<1> HIDE DEF fits
<1>9. \E ev : fits(ev) /\ outbox' = outbox \o ev
  <2>1. CASE ServerBuildsTree
    <3>1. CASE intent = "confirmed"
      <4> DEFINE trees == IF HasSession THEN TreeEvents("tree") ELSE <<>>
                 signing == <<[type |-> "signing", batch |-> batch, ours |-> HasSession]>>
      <4>1. fits(trees)
        BY <1>4, <1>5
      <4>2. fits(signing)
        BY <1>6 DEF HasSession
      <4>3. outbox' = outbox \o (trees \o signing)
        BY <2>1, <3>1 DEF ServerBuildsTree, ServerEmits
      <4> QED BY <1>3, <4>1, <4>2, <4>3
    <3>2. CASE intent # "confirmed"
      BY <1>6, <2>1, <3>2 DEF ServerBuildsTree, ServerEmits
    <3> QED BY <3>1, <3>2
  <2>2. CASE ServerAggregates
    BY <1>4, <1>5, <2>2 DEF ServerAggregates, ServerEmits
  <2>3. CASE ServerFinalizes
    <3> DEFINE signatures == IF HasSession THEN TreeEvents("signature") ELSE <<>>
               connectors == IF NeedsForfeit THEN <<[type |-> "connector", batch |-> batch]>>
                             ELSE <<>>
               last == <<[type |-> "finalization", batch |-> batch]>>
    <3>1. CASE intent = "confirmed"
      <4>1. HasSession => Signed(batch)
        BY <2>3, <3>1 DEF ServerFinalizes, Given, Signed
      <4>2. fits(signatures)
        BY <1>4, <1>5
      <4>3. fits(connectors)
        BY <1>5, <1>8, <4>1
      <4>4. outbox' = outbox \o ((signatures \o connectors) \o last)
        BY <2>3, <3>1 DEF ServerFinalizes, ServerEmits
      <4> HIDE DEF signatures, connectors, last
      <4>5. fits(signatures \o connectors)
        BY <1>3, <4>2, <4>3
      <4>6. fits((signatures \o connectors) \o last)
        BY <1>3, <1>7, <4>5 DEF last
      <4> QED BY <4>4, <4>6
    <3>2. CASE intent # "confirmed"
      <4>1. outbox' = outbox \o (<<>> \o last)
        BY <2>3, <3>2 DEF ServerFinalizes, ServerEmits
      <4> HIDE DEF last
      <4>2. fits(<<>> \o last)
        BY <1>3, <1>5, <1>7 DEF last
      <4> QED BY <4>1, <4>2
    <3> QED BY <3>1, <3>2
  <2> QED BY <2>1, <2>2, <2>3
<1> QED BY <1>1, <1>9 DEF fits, Emits

\* An event leaves the server for the inbox of join, or is lost.
LEMMA Delivered ==
  ASSUME TypeOK, DeliverEvent
  PROVE  /\ inbox' \in Seq(BatchEvent) /\ outbox' \in Seq(BatchEvent)
         /\ 1 \in DOMAIN outbox /\ Head(outbox) = outbox[1]
         /\ \A i \in DOMAIN outbox' : i + 1 \in DOMAIN outbox /\ outbox'[i] = outbox[i + 1]
         /\ inbox' = inbox \/ (/\ DOMAIN inbox' = DOMAIN inbox \cup {Len(inbox) + 1}
                               /\ \A i \in DOMAIN inbox : inbox'[i] = inbox[i]
                               /\ inbox'[Len(inbox) + 1] = outbox[1])
<1>1. inbox \in Seq(BatchEvent) /\ outbox \in Seq(BatchEvent)
  BY DEF TypeOK
<1>2. outbox # <<>> /\ outbox' = Tail(outbox)
      /\ inbox' = IF Listens THEN Append(inbox, Head(outbox)) ELSE inbox
  BY DEF DeliverEvent
<1>3. /\ outbox' \in Seq(BatchEvent) /\ 1 \in DOMAIN outbox /\ Head(outbox) = outbox[1]
      /\ \A i \in DOMAIN outbox' : i + 1 \in DOMAIN outbox /\ outbox'[i] = outbox[i + 1]
      /\ Head(outbox) \in BatchEvent
  BY <1>1, <1>2
<1>4. CASE Listens
  <2>1. inbox' = Append(inbox, outbox[1])
    BY <1>2, <1>3, <1>4
  <2> QED BY <1>1, <1>3, <2>1
<1> QED BY <1>1, <1>2, <1>3, <1>4

\* An event is taken by join.
LEMMA Taken ==
  ASSUME TypeOK, NEW type, Takes(type)
  PROVE  /\ call = "joining" /\ request = NoRequest
         /\ 1 \in DOMAIN inbox /\ Head(inbox) = inbox[1] /\ Head(inbox) \in BatchEvent
         /\ Head(inbox).type = type
         /\ inbox' \in Seq(BatchEvent)
         /\ \A i \in DOMAIN inbox' : i + 1 \in DOMAIN inbox /\ inbox'[i] = inbox[i + 1]
BY DEF Takes, TypeOK

Taking ==
    \/ BatchStarted \/ TreeTx \/ ConnectorTx \/ TreeSigningStarted \/ TreeNonces
    \/ TreeSignature \/ BatchFinalization \/ BatchFinalized \/ BatchFailed

LEMMA TakingFrame ==
  ASSUME Taking
  PROVE  UNCHANGED <<caller, provider, server>> /\ \E type : Takes(type)
BY DEF Taking, BatchStarted, TreeTx, ConnectorTx, TreeSigningStarted, TreeNonces, TreeSignature,
       BatchFinalization, BatchFinalized, BatchFailed

-----------------------------------------------------------------------------
(* Types. *)

LEMMA TypeStep ==
  ASSUME Typed, [Next]_vars
  PROVE  Typed'
<1> USE DEF client, server
<1>1. /\ caller \in Callers /\ provider \in Providers
      /\ call \in {"idle", "registering", "retrying", "opening", "joining",
                   "deleting", "resolved", "rejected"}
      /\ request \in {NoRequest}
           \cup [kind : {"confirm", "nonces", "signatures", "forfeits"},
                 batch : Batches, state : {"sent", "ok", "error"}]
      /\ stream \in {"none", "open", "reopening", "reopened", "closed"}
      /\ inbox \in Seq(BatchEvent)
      /\ step \in Step
      /\ vtxoChunks \in Seq(Chunk) /\ connectorChunks \in Seq(ConnectorChunk)
      /\ vtxoTree \subseteq Chunk
      /\ session \in [tree : SUBSET Chunk, nonces : SUBSET Chunk, aggregated : SUBSET Chunk]
      /\ batch \in 0 .. MaxBatches
      /\ phase \in {"idle", "started", "signing", "aggregated", "finalizing"}
      /\ intent \in {"none", "stale", "queued", "selected", "confirmed", "settled"}
      /\ outbox \in Seq(BatchEvent)
      /\ given \subseteq [kind : {"nonces", "signatures", "forfeits"},
                         batch : Batches, tree : SUBSET Chunk]
      /\ phase # "idle" => batch \in Batches
  BY DEF Typed, TypeOK
<1>2. MaxBatches \in Nat /\ Batches \subseteq 0 .. MaxBatches
  BY ConstantsAssumption DEF Batches
\* The server.
<1>3. ASSUME NEW ours \in BOOLEAN, ServerStartsBatch(ours)
      PROVE  Typed'
  <2>1. PICK b \in Batches : batch' = b
    BY <1>3 DEF ServerStartsBatch
  <2>2. [type |-> "started", batch |-> b, ours |-> ours] \in BatchEvent
    BY DEF BatchEvent
  <2>3. outbox' \in Seq(BatchEvent)
    BY <1>1, <1>3, <2>1, <2>2, AppendedOne DEF ServerStartsBatch, ServerEmits
  <2> QED BY <1>1, <1>2, <1>3, <2>1, <2>3 DEF ServerStartsBatch, Typed, TypeOK
<1>4. CASE ServerBuildsTree \/ ServerAggregates \/ ServerFinalizes
  <2>1. PICK ev : Emits(ev)
    BY <1>4, WithinBatch
  <2>2. outbox' \in Seq(BatchEvent)
    BY <1>1, <2>1, Appended DEF Emits
  <2>3. UNCHANGED <<client, batch, given>> /\ phase' \in {"signing", "aggregated", "finalizing"}
        /\ batch \in Batches
    BY <1>1, <1>4, WithinBatch
  <2>4. intent' \in {"none", "stale", "queued", "selected", "confirmed", "settled"}
    BY <1>1, <1>4 DEF ServerBuildsTree, ServerAggregates, ServerFinalizes
  <2> QED BY <1>1, <2>2, <2>3, <2>4 DEF Typed, TypeOK
<1>5. CASE ServerCompletes \/ ServerFailsBatch
  <2>1. \A type \in {"finalized", "failed"} : phase # "idle" =>
          outbox \o <<[type |-> type, batch |-> batch]>> \in Seq(BatchEvent)
    <3>1. \A type \in {"finalized", "failed"} : phase # "idle" =>
            [type |-> type, batch |-> batch] \in BatchEvent
      BY <1>1 DEF BatchEvent
    <3> QED BY <1>1, <3>1, AppendedOne
  <2>2. outbox' \in Seq(BatchEvent)
    BY <1>5, <2>1 DEF ServerCompletes, ServerFailsBatch, ServerEmits
  <2> QED BY <1>1, <1>5, <2>2 DEF ServerCompletes, ServerFailsBatch, Typed, TypeOK
<1>6. CASE DeliverEvent
  <2>1. inbox' \in Seq(BatchEvent) /\ outbox' \in Seq(BatchEvent)
    BY <1>6, Delivered DEF Typed
  <2> QED BY <1>1, <1>6, <2>1 DEF DeliverEvent, Typed, TypeOK
<1>7. CASE ServerAnswers
  <2>1. request # NoRequest
    BY <1>7 DEF ServerAnswers, NoRequest
  <2>2. request' \in [kind : {"confirm", "nonces", "signatures", "forfeits"},
                      batch : Batches, state : {"sent", "ok", "error"}]
    BY <1>1, <1>7, <2>1 DEF ServerAnswers
  <2>3. /\ intent' \in {intent, "confirmed"}
        /\ given' \subseteq [kind : {"nonces", "signatures", "forfeits"},
                            batch : Batches, tree : SUBSET Chunk]
    BY <1>1, <1>7, <2>1 DEF ServerAnswers, Accepts
  <2> QED BY <1>1, <1>7, <2>2, <2>3 DEF ServerAnswers, Typed, TypeOK
\* The caller.
<1>8. CASE Begin
  BY <1>1, <1>8 DEF Begin, Typed, TypeOK
<1>9. CASE RegisterIntent
  BY <1>1, <1>9 DEF RegisterIntent, Typed, TypeOK
<1>10. CASE RegisterFails
  BY <1>1, <1>10 DEF RegisterFails, Throw, Typed, TypeOK
<1>11. CASE IntentRegistered \/ DeleteIntent \/ StreamBreaks \/ StreamTimesOut \/ StreamReopens
  BY <1>1, <1>11 DEF IntentRegistered, DeleteIntent, StreamBreaks, StreamTimesOut, StreamReopens,
                     Throw, Typed, TypeOK
<1>12. CASE RequestAnswered
  <2>1. step' \in Step
    BY <1>1, <1>12 DEF RequestAnswered, StepAfter, Step, NoRequest
  <2> QED BY <1>1, <1>12, <2>1 DEF RequestAnswered, Throw, Typed, TypeOK
\* join.
<1>13. CASE Taking
  <2>1. PICK type : Takes(type)
    BY <1>13, TakingFrame
  <2>2. Head(inbox) \in BatchEvent /\ inbox' \in Seq(BatchEvent)
    BY <2>1, Taken DEF Typed
  <2>3. /\ Head(inbox).batch \in Batches
        /\ Head(inbox).type \in {"tree", "nonces", "signature"} => Head(inbox).tx \in Txs
    BY <2>2 DEF BatchEvent
  <2>4. UNCHANGED <<caller, provider, server>>
    BY <1>13, TakingFrame
  <2> DEFINE asked == [kind : {"confirm", "nonces", "signatures", "forfeits"},
                       batch : Batches, state : {"sent", "ok", "error"}]
  <2>5. \A kind \in {"confirm", "nonces", "signatures", "forfeits"} :
          Asks(kind, Head(inbox).batch) => request' \in asked
    BY <2>3 DEF Asks
  <2>6. ASSUME call' \in {call, "deleting", "resolved"}, stream' \in {stream, "closed"},
               request' \in {request} \cup asked, step' \in Step,
               vtxoChunks' \in Seq(Chunk), connectorChunks' \in Seq(ConnectorChunk),
               vtxoTree' \subseteq Chunk,
               session' \in [tree : SUBSET Chunk, nonces : SUBSET Chunk,
                             aggregated : SUBSET Chunk]
        PROVE  Typed'
    BY <1>1, <2>2, <2>4, <2>6 DEF Typed, TypeOK
  <2> HIDE DEF asked
  <2>7. CASE BatchStarted
    BY <1>1, <2>5, <2>6, <2>7 DEF BatchStarted
  <2>8. CASE TreeTx
    <3>1. [batch |-> Head(inbox).batch, tx |-> Head(inbox).tx] \in Chunk
      BY <2>3, <2>8 DEF TreeTx, Takes, Chunk
    <3>2. vtxoChunks' \in Seq(Chunk)
      BY <1>1, <2>8, <3>1 DEF TreeTx
    <3> QED BY <1>1, <2>6, <2>8, <3>2 DEF TreeTx
  <2>9. CASE ConnectorTx
    <3>1. [batch |-> Head(inbox).batch] \in ConnectorChunk
      BY <2>3 DEF ConnectorChunk
    <3>2. connectorChunks' \in Seq(ConnectorChunk)
      BY <1>1, <2>9, <3>1 DEF ConnectorTx
    <3> QED BY <1>1, <2>6, <2>9, <3>2 DEF ConnectorTx
  <2>10. ToSet(vtxoChunks) \subseteq Chunk
    BY <1>1 DEF ToSet
  <2>11. CASE TreeSigningStarted
    <3>1. \/ call' = "deleting" /\ stream' = "closed" /\ UNCHANGED <<request, step, vtxoChunks, connectorChunks, vtxoTree, session>>
          \/ Skip
          \/ /\ vtxoTree' = ToSet(vtxoChunks)
             /\ UNCHANGED <<call, stream, step, vtxoChunks, connectorChunks>>
             /\ \/ UNCHANGED <<session, request>>
                \/ /\ session' = [session EXCEPT
                                    !.tree = ToSet(vtxoChunks),
                                    !.nonces = IF @ = {} THEN ToSet(vtxoChunks) ELSE @]
                   /\ Asks("nonces", Head(inbox).batch)
      BY <2>11 DEF TreeSigningStarted, Throw
    <3>2. session' \in [tree : SUBSET Chunk, nonces : SUBSET Chunk, aggregated : SUBSET Chunk]
      BY <1>1, <2>10, <3>1 DEF Skip
    <3> QED BY <1>1, <2>5, <2>6, <2>10, <3>1, <3>2 DEF Skip
  <2>12. CASE TreeNonces
    <3>1. [batch |-> Head(inbox).batch, tx |-> Head(inbox).tx] \in Chunk
      BY <2>3, <2>12 DEF TreeNonces, Takes, Chunk
    <3>2. \/ call' = "deleting" /\ stream' = "closed" /\ UNCHANGED <<request, step, vtxoChunks, connectorChunks, vtxoTree, session>>
          \/ Skip
          \/ /\ UNCHANGED <<call, stream, step, vtxoChunks, connectorChunks, vtxoTree>>
             /\ session' = [session EXCEPT !.aggregated = session.aggregated \cup
                              {[batch |-> Head(inbox).batch, tx |-> Head(inbox).tx]}]
             /\ Asks("signatures", Head(inbox).batch) \/ UNCHANGED request
      BY <2>12 DEF TreeNonces, Throw
    <3>3. session' \in [tree : SUBSET Chunk, nonces : SUBSET Chunk, aggregated : SUBSET Chunk]
      BY <1>1, <3>1, <3>2 DEF Skip
    <3> QED BY <1>1, <2>5, <2>6, <3>2, <3>3 DEF Skip
  <2>13. CASE TreeSignature \/ BatchFailed
    BY <1>1, <2>6, <2>13 DEF TreeSignature, BatchFailed, Throw, Skip
  <2>14. CASE BatchFinalization
    <3>1. \/ call' = "deleting" /\ stream' = "closed" /\ UNCHANGED <<request, step, vtxoChunks, connectorChunks, vtxoTree, session>>
          \/ Skip
          \/ /\ vtxoTree' \in {vtxoTree, ToSet(vtxoChunks)}
             /\ UNCHANGED <<call, stream, vtxoChunks, connectorChunks, session>>
             /\ \/ Asks("forfeits", Head(inbox).batch) /\ UNCHANGED step
                \/ step' = "batch_finalization" /\ UNCHANGED request
      BY <2>14 DEF BatchFinalization, Throw
    <3> QED BY <1>1, <2>5, <2>6, <2>10, <3>1 DEF Skip, Step
  <2>15. CASE BatchFinalized
    BY <1>1, <2>6, <2>15 DEF BatchFinalized
  <2> QED BY <1>13, <2>7, <2>8, <2>9, <2>11, <2>12, <2>13, <2>14, <2>15 DEF Taking
<1>14. CASE UNCHANGED vars
  BY <1>1, <1>14 DEF vars, Typed, TypeOK
<1> QED BY <1>3, <1>4, <1>5, <1>6, <1>7, <1>8, <1>9, <1>10, <1>11, <1>12, <1>13, <1>14
        DEF Next, ServerNext, CallerNext, JoinNext, Taking

-----------------------------------------------------------------------------
(* The order of events. *)

\* A new batch has a number that nothing the proofs speak of refers to.
LEMMA NumberIsNew ==
  ASSUME TypeOK, NEW ours \in BOOLEAN, ServerStartsBatch(ours)
  PROVE  /\ batch' \in Batches /\ batch' # request.batch
         /\ \A i \in DOMAIN inbox : inbox[i].batch # batch'
         /\ \A i \in DOMAIN outbox : outbox[i].batch # batch'
         /\ \A i \in DOMAIN connectorChunks : connectorChunks[i].batch # batch'
         /\ outbox' = outbox \o <<[type |-> "started", batch |-> batch', ours |-> ours]>>
         /\ [type |-> "started", batch |-> batch', ours |-> ours] \in BatchEvent
<1>1. inbox \in Seq(BatchEvent) /\ outbox \in Seq(BatchEvent)
      /\ connectorChunks \in Seq(ConnectorChunk)
  BY DEF TypeOK
<1>2. batch' \in Batches \ Remembered
      /\ outbox' = outbox \o <<[type |-> "started", batch |-> batch', ours |-> ours]>>
  BY DEF ServerStartsBatch, ServerEmits
<1>3. \A i \in DOMAIN inbox : inbox[i] \in ToSet(inbox \o outbox)
  BY <1>1 DEF ToSet
<1>4. \A i \in DOMAIN outbox : outbox[i] \in ToSet(inbox \o outbox)
  <2> SUFFICES ASSUME NEW i \in DOMAIN outbox
               PROVE  outbox[i] \in ToSet(inbox \o outbox)
    OBVIOUS
  <2>1. Len(inbox) + i \in DOMAIN (inbox \o outbox) /\ (inbox \o outbox)[Len(inbox) + i] = outbox[i]
    BY <1>1
  <2> QED BY <2>1 DEF ToSet
<1>5. \A i \in DOMAIN connectorChunks : connectorChunks[i] \in ToSet(connectorChunks)
  BY DEF ToSet
<1>6. \A e \in ToSet(inbox \o outbox) : e.batch \in Remembered
  BY DEF Remembered
<1>7. \A c \in ToSet(connectorChunks) : c.batch \in Remembered
  BY DEF Remembered
<1>8. request.batch \in Remembered
  BY DEF Remembered
<1>9. [type |-> "started", batch |-> batch', ours |-> ours] \in BatchEvent
  BY <1>2 DEF BatchEvent
<1> QED BY <1>2, <1>3, <1>4, <1>5, <1>6, <1>7, <1>8, <1>9

LEMMA EventsStep ==
  ASSUME Typed, EventsInOrder, [Next]_vars
  PROVE  EventsInOrder'
<1> USE DEF client, server
<1>1. inbox \in Seq(BatchEvent) /\ outbox \in Seq(BatchEvent) /\ TypeOK
  BY DEF Typed, TypeOK
<1>2. ASSUME UNCHANGED <<phase, batch, inbox, outbox>>
      PROVE  EventsInOrder'
  BY <1>2 DEF EventsInOrder, InOrder, NoBound
<1>3. ASSUME NEW ours \in BOOLEAN, ServerStartsBatch(ours)
      PROVE  EventsInOrder'
  <2> DEFINE e == [type |-> "started", batch |-> batch', ours |-> ours]
  <2>1. /\ \A i \in DOMAIN inbox' : inbox'[i].batch # batch'
        /\ \A i \in DOMAIN outbox : outbox[i].batch # batch'
        /\ outbox' = outbox \o <<e>> /\ e \in BatchEvent
    BY <1>1, <1>3, NumberIsNew DEF ServerStartsBatch
  <2> HIDE DEF e
  <2>2. /\ DOMAIN outbox' = DOMAIN outbox \cup {Len(outbox) + 1}
        /\ \A i \in DOMAIN outbox : outbox'[i] = outbox[i]
        /\ DOMAIN outbox = 1 .. Len(outbox) /\ Len(outbox) \in Nat
    BY <1>1, <2>1, AppendedOne
  <2>3. InOrder(outbox)'
    BY <2>1, <2>2 DEF InOrder
  <2> QED BY <2>1, <2>3 DEF EventsInOrder, InOrder
<1>4. CASE ServerBuildsTree \/ ServerAggregates \/ ServerFinalizes
  <2>1. UNCHANGED <<client, batch>> /\ phase # "idle"
    BY <1>4, WithinBatch
  <2>2. PICK ev : Emits(ev)
    BY <1>4, WithinBatch
  <2>3. /\ \A i \in DOMAIN outbox : outbox'[i] = outbox[i]
        /\ \A i \in DOMAIN outbox' : i \in DOMAIN outbox \/ outbox'[i].type \notin Bound
        /\ DOMAIN outbox' = 1 .. Len(outbox') /\ DOMAIN outbox = 1 .. Len(outbox)
        /\ Len(outbox) \in Nat /\ Len(outbox') \in Nat
    BY <1>1, <2>2, Appended DEF Emits
  <2>4. InOrder(outbox)'
    BY <2>1, <2>3 DEF EventsInOrder, InOrder
  <2>5. NoBound(outbox) => NoBound(outbox)'
    BY <2>3 DEF NoBound
  <2> QED BY <2>1, <2>4, <2>5 DEF EventsInOrder, InOrder
<1>5. CASE ServerCompletes \/ ServerFailsBatch
  BY <1>5 DEF ServerCompletes, ServerFailsBatch, EventsInOrder
<1>6. CASE DeliverEvent
  <2>1. UNCHANGED <<phase, batch>>
    BY <1>6 DEF DeliverEvent
  <2>2. /\ inbox' \in Seq(BatchEvent) /\ outbox' \in Seq(BatchEvent)
        /\ 1 \in DOMAIN outbox
        /\ \A i \in DOMAIN outbox' : i + 1 \in DOMAIN outbox /\ outbox'[i] = outbox[i + 1]
        /\ inbox' = inbox \/ (/\ DOMAIN inbox' = DOMAIN inbox \cup {Len(inbox) + 1}
                              /\ \A i \in DOMAIN inbox : inbox'[i] = inbox[i]
                              /\ inbox'[Len(inbox) + 1] = outbox[1])
    BY <1>1, <1>6, Delivered
  <2>3. /\ DOMAIN inbox = 1 .. Len(inbox) /\ DOMAIN outbox = 1 .. Len(outbox)
        /\ DOMAIN outbox' = 1 .. Len(outbox')
        /\ Len(inbox) \in Nat /\ Len(outbox) \in Nat /\ Len(outbox') \in Nat
    BY <1>1, <2>2
  <2> SUFFICES ASSUME phase # "idle"
               PROVE  /\ InOrder(inbox)' /\ InOrder(outbox)'
                      /\ (\E i \in DOMAIN inbox' : inbox'[i].batch = batch) => NoBound(outbox)'
    BY <2>1 DEF EventsInOrder
  <2>4. /\ InOrder(inbox) /\ InOrder(outbox)
        /\ (\E i \in DOMAIN inbox : inbox[i].batch = batch) => NoBound(outbox)
    BY DEF EventsInOrder
  <2>5. InOrder(outbox)'
    <3> SUFFICES ASSUME NEW i \in DOMAIN outbox', NEW j \in DOMAIN outbox', i < j,
                        outbox'[i].batch = batch
                 PROVE  outbox'[j].type \notin Bound
      BY <2>1 DEF InOrder
    <3>1. i + 1 \in DOMAIN outbox /\ j + 1 \in DOMAIN outbox /\ i + 1 < j + 1
      BY <2>2, <2>3
    <3> QED BY <2>2, <2>4, <3>1 DEF InOrder
  <2>6. CASE inbox' = inbox
    <3>1. NoBound(outbox) => NoBound(outbox)'
      BY <2>2 DEF NoBound
    <3> QED BY <2>1, <2>4, <2>5, <2>6, <3>1 DEF InOrder
  <2>7. CASE inbox' # inbox
    <3>1. InOrder(inbox)'
      BY <2>1, <2>2, <2>3, <2>4, <2>7 DEF InOrder, NoBound
    <3>2. ASSUME NEW i \in DOMAIN inbox', inbox'[i].batch = batch
          PROVE  NoBound(outbox)'
      <4>1. CASE i \in DOMAIN inbox
        BY <2>2, <2>4, <2>7, <3>2, <4>1 DEF NoBound
      <4>2. CASE i = Len(inbox) + 1
        <5>1. outbox[1].batch = batch
          BY <2>2, <2>7, <3>2, <4>2
        <5>2. \A j \in DOMAIN outbox' : j + 1 \in DOMAIN outbox /\ 1 < j + 1
          BY <2>2, <2>3
        <5> QED BY <2>2, <2>4, <5>1, <5>2 DEF InOrder, NoBound
      <4> QED BY <2>2, <2>7, <4>1, <4>2
    <3> QED BY <2>5, <3>1, <3>2
  <2> QED BY <2>6, <2>7
<1>7. CASE Taking
  <2>1. UNCHANGED server
    BY <1>7, TakingFrame
  <2>2. PICK type : Takes(type)
    BY <1>7, TakingFrame
  <2>3. /\ \A i \in DOMAIN inbox' : i + 1 \in DOMAIN inbox /\ inbox'[i] = inbox[i + 1]
        /\ DOMAIN inbox' = 1 .. Len(inbox') /\ Len(inbox') \in Nat
    BY <1>1, <2>2, Taken
  <2>4. phase # "idle" => InOrder(inbox)'
    <3> SUFFICES ASSUME phase # "idle",
                        NEW i \in DOMAIN inbox', NEW j \in DOMAIN inbox', i < j,
                        inbox'[i].batch = batch
                 PROVE  inbox'[j].type \notin Bound
      BY <2>1 DEF InOrder
    <3>1. i + 1 \in DOMAIN inbox /\ j + 1 \in DOMAIN inbox /\ i + 1 < j + 1
      BY <2>3
    <3> QED BY <2>3, <3>1 DEF InOrder, EventsInOrder
  <2> QED BY <2>1, <2>3, <2>4 DEF EventsInOrder, InOrder, NoBound
<1>8. CASE ServerAnswers \/ CallerNext \/ StreamBreaks \/ StreamTimesOut \/ StreamReopens
           \/ UNCHANGED vars
  <2>1. UNCHANGED <<phase, batch, inbox, outbox>>
    BY <1>8 DEF ServerAnswers, CallerNext, Begin, RegisterIntent, RegisterFails, IntentRegistered,
                DeleteIntent, RequestAnswered, StreamBreaks, StreamTimesOut, StreamReopens, vars
  <2> QED BY <1>2, <2>1
<1> QED BY <1>3, <1>4, <1>5, <1>6, <1>7, <1>8 DEF Next, ServerNext, JoinNext, Taking

\* While a batch goes on, nothing that starts or ends one is emitted.
LEMMA BoundsStay ==
  ASSUME Typed, NoBound(inbox), NoBound(outbox), phase # "idle", phase' # "idle", [Next]_vars
  PROVE  NoBound(inbox)' /\ NoBound(outbox)'
<1> USE DEF client, server
<1>1. inbox \in Seq(BatchEvent) /\ outbox \in Seq(BatchEvent) /\ TypeOK
  BY DEF Typed, TypeOK
<1>2. CASE ServerBuildsTree \/ ServerAggregates \/ ServerFinalizes
  <2>1. PICK ev : Emits(ev)
    BY <1>2, WithinBatch
  <2>2. \A i \in DOMAIN outbox' : \/ i \in DOMAIN outbox /\ outbox'[i] = outbox[i]
                                  \/ outbox'[i].type \notin Bound
    BY <1>1, <2>1, Appended DEF Emits
  <2>3. inbox' = inbox
    BY <1>2, WithinBatch
  <2> QED BY <2>2, <2>3 DEF NoBound
<1>3. CASE DeliverEvent
  <2>1. /\ 1 \in DOMAIN outbox
        /\ \A i \in DOMAIN outbox' : i + 1 \in DOMAIN outbox /\ outbox'[i] = outbox[i + 1]
        /\ inbox' = inbox \/ (/\ DOMAIN inbox' = DOMAIN inbox \cup {Len(inbox) + 1}
                              /\ \A i \in DOMAIN inbox : inbox'[i] = inbox[i]
                              /\ inbox'[Len(inbox) + 1] = outbox[1])
    BY <1>1, <1>3, Delivered
  <2>2. NoBound(outbox)'
    BY <2>1 DEF NoBound
  <2>3. NoBound(inbox)'
    BY <2>1 DEF NoBound
  <2> QED BY <2>2, <2>3
<1>4. CASE Taking
  <2>1. UNCHANGED server
    BY <1>4, TakingFrame
  <2>2. \A i \in DOMAIN inbox' : i + 1 \in DOMAIN inbox /\ inbox'[i] = inbox[i + 1]
    BY <1>1, <1>4, TakingFrame, Taken
  <2> QED BY <2>1, <2>2 DEF NoBound
<1>5. CASE ServerAnswers \/ CallerNext \/ StreamBreaks \/ StreamTimesOut \/ StreamReopens
           \/ UNCHANGED vars
  <2>1. UNCHANGED <<inbox, outbox>>
    BY <1>5 DEF ServerAnswers, CallerNext, Begin, RegisterIntent, RegisterFails, IntentRegistered,
                DeleteIntent, RequestAnswered, StreamBreaks, StreamTimesOut, StreamReopens, vars
  <2> QED BY <2>1 DEF NoBound
<1> QED BY <1>2, <1>3, <1>4, <1>5
        DEF Next, ServerNext, JoinNext, Taking, ServerStartsBatch, ServerCompletes, ServerFailsBatch

\* Behind an event of the batch under way there is nothing that ends it.
LEMMA BehindIt ==
  ASSUME Typed, EventsInOrder, NEW type, Takes(type), phase # "idle", Head(inbox).batch = batch,
         UNCHANGED <<phase, batch, outbox>>
  PROVE  NoBound(inbox)' /\ NoBound(outbox)'
<1>1. /\ inbox \in Seq(BatchEvent) /\ 1 \in DOMAIN inbox /\ Head(inbox) = inbox[1]
      /\ inbox' \in Seq(BatchEvent)
      /\ \A i \in DOMAIN inbox' : i + 1 \in DOMAIN inbox /\ inbox'[i] = inbox[i + 1]
  BY Taken DEF Typed, TypeOK
<1>2. \A i \in DOMAIN inbox' : 1 < i + 1
  BY <1>1
<1>3. NoBound(inbox)'
  BY <1>1, <1>2 DEF EventsInOrder, InOrder, NoBound
<1>4. NoBound(outbox)'
  BY <1>1 DEF EventsInOrder, NoBound
<1> QED BY <1>3, <1>4

\* What a handler asks for concerns the batch of the event it was given.
LEMMA TakingAsks ==
  ASSUME TypeOK, Taking
  PROVE  \/ request' = NoRequest
         \/ \E kind \in {"confirm", "nonces", "signatures", "forfeits"} :
              /\ request' = [kind |-> kind, batch |-> Head(inbox).batch, state |-> "sent"]
              /\ kind = "confirm" => Takes("started")
<1>1. request = NoRequest
  BY Taken, TakingFrame
<1> QED BY <1>1 DEF Taking, BatchStarted, TreeTx, ConnectorTx, TreeSigningStarted, TreeNonces,
                    TreeSignature, BatchFinalization, BatchFinalized, BatchFailed, Skip, Asks, Throw

\* Other steps do not ask, and leave the session and the connectors alone.
LEMMA OthersKeep ==
  ASSUME [Next]_vars, ~Taking
  PROVE  /\ UNCHANGED <<session, connectorChunks, caller, provider>>
         /\ \/ request' = request
            \/ RequestAnswered /\ request' = NoRequest
            \/ ServerAnswers /\ \E state \in {"ok", "error"} :
                                  request' = [request EXCEPT !.state = state]
BY DEF Next, ServerNext, CallerNext, JoinNext, Taking, client, server, vars, ServerStartsBatch,
       ServerBuildsTree, ServerAggregates, ServerFinalizes, ServerCompletes, ServerFailsBatch,
       DeliverEvent, ServerAnswers, Begin, RegisterIntent, RegisterFails, IntentRegistered,
       DeleteIntent, RequestAnswered, StreamBreaks, StreamTimesOut, StreamReopens

LEMMA OthersKeepAsked ==
  ASSUME TypeOK, [Next]_vars, ~Taking
  PROVE  request' = NoRequest \/ (request'.kind = request.kind /\ request'.batch = request.batch
                                  /\ request # NoRequest)
<1>1. CASE request' = request
  BY <1>1
<1>2. CASE ServerAnswers
  <2>1. request # NoRequest
    BY <1>2 DEF ServerAnswers, NoRequest
  <2>2. request \in [kind : {"confirm", "nonces", "signatures", "forfeits"},
                     batch : Batches, state : {"sent", "ok", "error"}]
    BY <2>1 DEF TypeOK
  <2>3. PICK state \in {"ok", "error"} : request' = [request EXCEPT !.state = state]
    BY <1>2 DEF ServerAnswers
  <2> QED BY <2>1, <2>2, <2>3
<1> QED BY <1>1, <1>2, OthersKeep

LEMMA RequestStep ==
  ASSUME Typed, EventsInOrder, RequestInOrder, [Next]_vars
  PROVE  RequestInOrder'
<1> SUFFICES ASSUME request' # NoRequest, request'.batch = batch', phase' # "idle"
             PROVE  NoBound(inbox)' /\ NoBound(outbox)'
  BY DEF RequestInOrder, NoRequest
<1>1. CASE Taking
  <2>1. PICK type : Takes(type)
    BY <1>1, TakingFrame
  <2>2. request'.batch = Head(inbox).batch
    BY <1>1, TakingAsks DEF Typed
  <2>3. UNCHANGED <<phase, batch, outbox>>
    BY <1>1, TakingFrame DEF server
  <2> QED BY <2>1, <2>2, <2>3, BehindIt
<1>2. CASE ~Taking
  <2>1. request'.batch = request.batch /\ request # NoRequest
    BY <1>2, OthersKeepAsked DEF Typed
  <2>2. CASE \E ours \in BOOLEAN : ServerStartsBatch(ours)
    BY <2>1, <2>2, NumberIsNew DEF Typed
  <2>3. CASE ~\E ours \in BOOLEAN : ServerStartsBatch(ours)
    <3>1. batch' = batch /\ phase # "idle"
      BY <1>2, <2>3 DEF Next, ServerNext, CallerNext, JoinNext, Taking, client, server, vars,
         ServerBuildsTree, ServerAggregates, ServerFinalizes, ServerCompletes, ServerFailsBatch,
         DeliverEvent, ServerAnswers, Begin, RegisterIntent, RegisterFails, IntentRegistered,
         DeleteIntent, RequestAnswered, StreamBreaks, StreamTimesOut, StreamReopens
    <3> QED BY <2>1, <3>1, BoundsStay DEF RequestInOrder
  <2> QED BY <2>2, <2>3
<1> QED BY <1>1, <1>2

-----------------------------------------------------------------------------
(* The session. *)

\* Where an event on its way comes from.
LEMMA EventsComeFrom ==
  ASSUME Typed, [Next]_vars
  PROVE  /\ \A i \in DOMAIN inbox' : \/ \E j \in DOMAIN inbox : inbox'[i] = inbox[j]
                                     \/ \E j \in DOMAIN outbox : inbox'[i] = outbox[j]
         /\ \A i \in DOMAIN outbox' :
              \/ \E j \in DOMAIN outbox : outbox'[i] = outbox[j]
              \/ outbox'[i].type \in Bound
              \/ /\ batch' = batch /\ given' = given /\ phase # "idle"
                 /\ outbox'[i].batch = batch
                 /\ outbox'[i].type = "signing" /\ outbox'[i].ours => HasSession
                 /\ outbox'[i].type = "connector" /\ HasSession => Signed(batch)
<1> USE DEF client, server
<1>1. inbox \in Seq(BatchEvent) /\ outbox \in Seq(BatchEvent) /\ TypeOK
  BY DEF Typed, TypeOK
<1>2. CASE ServerBuildsTree \/ ServerAggregates \/ ServerFinalizes
  <2>1. PICK ev : Emits(ev)
    BY <1>2, WithinBatch
  <2>2. \A i \in DOMAIN outbox' : \/ i \in DOMAIN outbox /\ outbox'[i] = outbox[i]
                                  \/ \E j \in DOMAIN ev : outbox'[i] = ev[j]
    BY <1>1, <2>1, Appended DEF Emits
  <2>3. UNCHANGED <<inbox, batch, given>> /\ phase # "idle"
    BY <1>2, WithinBatch
  <2> QED BY <2>1, <2>2, <2>3 DEF Emits
<1>3. ASSUME NEW e \in BatchEvent, e.type \in Bound, outbox' = outbox \o <<e>>, inbox' = inbox
      PROVE  /\ \A i \in DOMAIN inbox' : \E j \in DOMAIN inbox : inbox'[i] = inbox[j]
             /\ \A i \in DOMAIN outbox' : \/ \E j \in DOMAIN outbox : outbox'[i] = outbox[j]
                                          \/ outbox'[i].type \in Bound
  BY <1>1, <1>3, AppendedOne
<1>4. CASE \E ours \in BOOLEAN : ServerStartsBatch(ours)
  <2>1. PICK ours \in BOOLEAN : ServerStartsBatch(ours)
    BY <1>4
  <2>2. PICK e \in BatchEvent : e.type = "started" /\ outbox' = outbox \o <<e>> /\ inbox' = inbox
    BY <1>1, <2>1, NumberIsNew DEF ServerStartsBatch
  <2> QED BY <1>3, <2>2 DEF Bound
<1>5. CASE ServerCompletes \/ ServerFailsBatch
  <2>1. phase # "idle" /\ inbox' = inbox /\ \E type \in {"finalized", "failed"} :
            outbox' = outbox \o <<[type |-> type, batch |-> batch]>>
    BY <1>5 DEF ServerCompletes, ServerFailsBatch, ServerEmits
  <2>2. PICK e \in BatchEvent : e.type \in {"finalized", "failed"} /\ outbox' = outbox \o <<e>>
    BY <2>1 DEF Typed, BatchEvent
  <2> QED BY <1>3, <2>1, <2>2 DEF Bound
<1>6. CASE DeliverEvent
  BY <1>1, <1>6, Delivered
<1>7. CASE Taking
  <2>1. UNCHANGED server
    BY <1>7, TakingFrame
  <2>2. \A i \in DOMAIN inbox' : i + 1 \in DOMAIN inbox /\ inbox'[i] = inbox[i + 1]
    BY <1>1, <1>7, TakingFrame, Taken
  <2> QED BY <2>1, <2>2
<1>8. CASE ServerAnswers \/ CallerNext \/ StreamBreaks \/ StreamTimesOut \/ StreamReopens
           \/ UNCHANGED vars
  <2>1. UNCHANGED <<inbox, outbox>>
    BY <1>8 DEF ServerAnswers, CallerNext, Begin, RegisterIntent, RegisterFails, IntentRegistered,
                DeleteIntent, RequestAnswered, StreamBreaks, StreamTimesOut, StreamReopens, vars
  <2> QED BY <2>1
<1> QED BY <1>2, <1>4, <1>5, <1>6, <1>7, <1>8 DEF Next, ServerNext, JoinNext, Taking

\* What the events do to the session, and what is asked then.
LEMMA TakingSession ==
  ASSUME TypeOK, Taking
  PROVE  \/ /\ UNCHANGED session
            /\ request'.kind \notin {"nonces", "signatures"}
         \/ /\ TreeSigningStarted /\ step = "batch_started" /\ Head(inbox).ours
            /\ session' = [session EXCEPT !.tree = ToSet(vtxoChunks),
                                          !.nonces = IF @ = {} THEN ToSet(vtxoChunks) ELSE @]
            /\ ValidTree(ToSet(vtxoChunks), Head(inbox).batch)
            /\ request' = [kind |-> "nonces", batch |-> Head(inbox).batch, state |-> "sent"]
         \/ /\ TreeNonces /\ session.nonces # {}
            /\ \E aggregated : /\ session.aggregated \subseteq aggregated
                               /\ session' = [session EXCEPT !.aggregated = aggregated]
                               /\ request'.kind = "signatures" => session.tree \subseteq aggregated
            /\ request'.kind \in {"none", "signatures"}
<1>1. request = NoRequest /\ NoRequest.kind = "none"
  BY Taken, TakingFrame DEF NoRequest
<1>2. CASE BatchStarted \/ TreeTx \/ ConnectorTx \/ TreeSignature \/ BatchFinalization
           \/ BatchFinalized \/ BatchFailed
  BY <1>1, <1>2 DEF BatchStarted, TreeTx, ConnectorTx, TreeSignature, BatchFinalization,
                    BatchFinalized, BatchFailed, Skip, Throw, Asks
<1>3. CASE TreeSigningStarted
  BY <1>1, <1>3 DEF TreeSigningStarted, Skip, Throw, Asks
<1>4. CASE TreeNonces
  BY <1>1, <1>4 DEF TreeNonces, Skip, Throw, Asks
<1> QED BY <1>2, <1>3, <1>4 DEF Taking

LEMMA SigningStep ==
  ASSUME Typed, SigningFits, [Next]_vars
  PROVE  SigningFits'
<1>1. HasSession' = HasSession
  BY OthersKeep, TakingFrame DEF HasSession
<1>2. /\ session \in [tree : SUBSET Chunk, nonces : SUBSET Chunk, aggregated : SUBSET Chunk]
      /\ TypeOK
  BY DEF Typed, TypeOK
<1>3. /\ \A i \in DOMAIN inbox' : inbox'[i].type = "signing" /\ inbox'[i].ours => HasSession
      /\ \A i \in DOMAIN outbox' : outbox'[i].type = "signing" /\ outbox'[i].ours => HasSession
  BY EventsComeFrom DEF SigningFits, Bound
<1> SUFFICES /\ session'.nonces # {} => HasSession
             /\ request'.kind \in {"nonces", "signatures"} => HasSession
             /\ request'.kind = "nonces" => ValidTree(session.tree, request.batch)'
             /\ request'.kind = "signatures" => session'.tree \subseteq session'.aggregated
  BY <1>1, <1>3 DEF SigningFits
<1>4. ASSUME NEW tree, NEW b, session'.tree = tree, request'.batch = b, ValidTree(tree, b)
      PROVE  ValidTree(session.tree, request.batch)'
  BY <1>4, OthersKeep, TakingFrame DEF ValidTree, OpensFirst, TreeOf
<1>5. CASE ~Taking
  <2>1. session' = session
    BY <1>5, OthersKeep
  <2>2. CASE request' = NoRequest
    BY <2>1, <2>2 DEF SigningFits, NoRequest
  <2>3. CASE request'.kind = request.kind /\ request'.batch = request.batch
    BY <1>4, <2>1, <2>3 DEF SigningFits
  <2> QED BY <1>2, <1>5, <2>2, <2>3, OthersKeepAsked
<1>6. CASE Taking
  <2>1. CASE UNCHANGED session /\ request'.kind \notin {"nonces", "signatures"}
    BY <2>1 DEF SigningFits
  <2>2. CASE /\ TreeSigningStarted /\ Head(inbox).ours
             /\ session' = [session EXCEPT !.tree = ToSet(vtxoChunks),
                                           !.nonces = IF @ = {} THEN ToSet(vtxoChunks) ELSE @]
             /\ ValidTree(ToSet(vtxoChunks), Head(inbox).batch)
             /\ request' = [kind |-> "nonces", batch |-> Head(inbox).batch, state |-> "sent"]
    <3>1. HasSession
      <4>1. Takes("signing")
        BY <2>2 DEF TreeSigningStarted
      <4>2. 1 \in DOMAIN inbox /\ Head(inbox) = inbox[1] /\ Head(inbox).type = "signing"
        BY <1>2, <4>1, Taken
      <4> QED BY <2>2, <4>2 DEF SigningFits
    <3>2. session'.tree = ToSet(vtxoChunks)
      BY <1>2, <2>2
    <3> QED BY <1>4, <2>2, <3>1, <3>2
  <2>3. CASE /\ session.nonces # {}
             /\ \E aggregated : /\ session.aggregated \subseteq aggregated
                                /\ session' = [session EXCEPT !.aggregated = aggregated]
                                /\ request'.kind = "signatures" => session.tree \subseteq aggregated
             /\ request'.kind \in {"none", "signatures"}
    BY <1>2, <2>3 DEF SigningFits
  <2> QED BY <1>2, <1>6, <2>1, <2>2, <2>3, TakingSession
<1> QED BY <1>5, <1>6

LEMMA GivenByJoinStep ==
  ASSUME Typed, GivenByJoin, [Next]_vars
  PROVE  GivenByJoin'
<1> USE DEF client, server
<1>1. CASE Taking
  <2>1. call' \in {"joining", "deleting", "resolved"}
    <3>1. call = "joining"
      BY <1>1, TakingFrame, Taken DEF Typed
    <3> QED BY <1>1, <3>1 DEF Taking, BatchStarted, TreeTx, ConnectorTx, TreeSigningStarted,
               TreeNonces, TreeSignature, BatchFinalization, BatchFinalized, BatchFailed, Throw, Skip
  <2> QED BY <2>1 DEF GivenByJoin
<1>2. CASE ServerAnswers \/ RequestAnswered
  BY <1>2 DEF ServerAnswers, RequestAnswered, GivenByJoin, NoRequest, Throw
<1>3. ASSUME NEW ours \in BOOLEAN, ServerStartsBatch(ours)
      PROVE  GivenByJoin'
  BY <1>3 DEF ServerStartsBatch, GivenByJoin
<1> QED BY <1>1, <1>2, <1>3 DEF Next, ServerNext, CallerNext, JoinNext, Taking, vars, GivenByJoin,
       ServerBuildsTree, ServerAggregates, ServerFinalizes, ServerCompletes, ServerFailsBatch,
       DeliverEvent, Begin, RegisterIntent, RegisterFails, IntentRegistered, DeleteIntent, Throw,
       StreamBreaks, StreamTimesOut, StreamReopens

\* What a step does to what the server was given.
LEMMA GivenEffect ==
  ASSUME Typed, [Next]_vars
  PROVE  \/ /\ UNCHANGED <<given, batch>> /\ (phase' # "idle" => phase # "idle")
         \/ /\ \E ours \in BOOLEAN : ServerStartsBatch(ours)
            /\ given' = {g \in given : g.batch # batch'}
            /\ UNCHANGED <<session, request, connectorChunks>>
         \/ /\ ServerAnswers /\ request.batch = batch /\ phase # "idle"
            /\ request.kind \in {"nonces", "signatures", "forfeits"} /\ InPhase(request.kind)
            /\ given' = given \cup {[kind |-> request.kind, batch |-> batch, tree |-> session.tree]}
            /\ request'.kind = request.kind /\ request'.batch = request.batch
            /\ UNCHANGED <<batch, phase, session, inbox, outbox, intent, call, step>>
<1> USE DEF client, server
<1>1. CASE ServerAnswers
  <2>1. request # NoRequest
    BY <1>1 DEF ServerAnswers, NoRequest
  <2>2. request \in [kind : {"confirm", "nonces", "signatures", "forfeits"},
                     batch : Batches, state : {"sent", "ok", "error"}]
    BY <2>1 DEF Typed, TypeOK
  <2>3. request'.kind = request.kind /\ request'.batch = request.batch
    BY <1>1, <2>2, <2>1, OthersKeepAsked DEF ServerAnswers
  <2>4. UNCHANGED <<batch, phase, session, inbox, outbox, call, step>>
    BY <1>1 DEF ServerAnswers
  <2>5. CASE request.batch = batch /\ InPhase(request.kind) /\ request.kind # "confirm"
    <3>1. Accepts(request) /\ phase # "idle"
      BY <1>1, <2>2, <2>5 DEF ServerAnswers, InPhase
    <3> QED BY <1>1, <2>2, <2>3, <2>4, <2>5, <3>1 DEF Accepts
  <2>6. CASE ~(request.batch = batch /\ InPhase(request.kind) /\ request.kind # "confirm")
    BY <1>1, <2>4, <2>6 DEF ServerAnswers, Accepts
  <2> QED BY <2>5, <2>6
<1>2. CASE Taking
  BY <1>2, TakingFrame
<1>3. CASE \E ours \in BOOLEAN : ServerStartsBatch(ours)
  BY <1>3 DEF ServerStartsBatch
<1> QED BY <1>1, <1>2, <1>3 DEF Next, ServerNext, CallerNext, JoinNext, Taking, vars,
       ServerBuildsTree, ServerAggregates, ServerFinalizes, ServerCompletes, ServerFailsBatch,
       DeliverEvent, Begin, RegisterIntent, RegisterFails, IntentRegistered, DeleteIntent,
       RequestAnswered, StreamBreaks, StreamTimesOut, StreamReopens

\* The session's tree stays while its nonces are with the batch under way.
LEMMA TreeKept ==
  ASSUME Typed, TreeStays, phase # "idle", Given("nonces"), [Next]_vars
  PROVE  session'.tree = session.tree
<1>1. session \in [tree : SUBSET Chunk, nonces : SUBSET Chunk, aggregated : SUBSET Chunk] /\ TypeOK
  BY DEF Typed, TypeOK
<1>2. CASE Taking
  <2>1. call = "joining" /\ request = NoRequest
    BY <1>1, <1>2, TakingFrame, Taken
  <2>2. step # "batch_started"
    BY <2>1 DEF TreeStays, NoRequest
  <2> QED BY <1>1, <1>2, <2>2, TakingSession
<1> QED BY <1>2, OthersKeep

LEMMA TreeStaysStep ==
  ASSUME Typed, EventsInOrder, RequestInOrder, GivenByJoin, TreeStays, [Next]_vars
  PROVE  TreeStays'
<1> USE DEF client, server
<1> SUFFICES ASSUME phase' # "idle", Given("nonces")', call' = "joining"
             PROVE  /\ NoBound(inbox)' /\ NoBound(outbox)'
                    /\ request'.kind # "confirm"
                    /\ step' = "batch_started" => request'.kind = "nonces"
  BY DEF TreeStays
<1>1. ~\E ours \in BOOLEAN : ServerStartsBatch(ours)
  BY DEF Given, ServerStartsBatch
<1>2. CASE phase # "idle" /\ Given("nonces")
  <2>1. call = "joining"
    <3>1. call \notin {"idle", "registering", "retrying", "opening"}
      BY <1>2 DEF GivenByJoin, Given
    <3> QED BY <3>1, TakingFrame, Taken DEF Next, ServerNext, CallerNext, JoinNext, Taking, vars, Typed,
         TypeOK, ServerStartsBatch, ServerBuildsTree, ServerAggregates, ServerFinalizes, ServerCompletes,
         ServerFailsBatch, DeliverEvent, Begin, RegisterIntent, RegisterFails, IntentRegistered,
         DeleteIntent, RequestAnswered, StreamBreaks, StreamTimesOut, StreamReopens, Throw, ServerAnswers
  <2>2. /\ NoBound(inbox) /\ NoBound(outbox) /\ request.kind # "confirm"
        /\ step = "batch_started" => request.kind = "nonces"
    BY <1>2, <2>1 DEF TreeStays
  <2>3. NoBound(inbox)' /\ NoBound(outbox)'
    BY <1>2, <2>2, BoundsStay
  <2>4. CASE Taking
    <3>1. ~Takes("started")
      BY <2>2, Taken DEF Typed, NoBound, Bound
    <3>2. request'.kind # "confirm"
      BY <2>4, <3>1, TakingAsks DEF Typed, NoRequest
    <3>3. request = NoRequest
      BY <2>4, TakingFrame, Taken DEF Typed
    <3>4. step' \in {step, "batch_finalization"}
      BY <2>4 DEF Taking, BatchStarted, TreeTx, ConnectorTx, TreeSigningStarted, TreeNonces,
                  TreeSignature, BatchFinalization, BatchFinalized, BatchFailed, Skip, Throw
    <3> QED BY <2>2, <2>3, <3>2, <3>3, <3>4 DEF NoRequest
  <2>5. CASE RequestAnswered
    <3>1. request.state = "ok" /\ step' = StepAfter(request.kind) /\ request' = NoRequest
      BY <2>5 DEF RequestAnswered, Throw
    <3>2. request.kind \in {"nonces", "signatures", "forfeits"}
      BY <2>2, <3>1 DEF Typed, TypeOK, NoRequest
    <3> QED BY <2>3, <3>1, <3>2 DEF StepAfter, NoRequest
  <2>6. CASE ~Taking /\ ~RequestAnswered
    <3>1. step' = step
      BY <2>6 DEF Next, ServerNext, CallerNext, JoinNext, Taking, vars,
         ServerStartsBatch, ServerBuildsTree, ServerAggregates, ServerFinalizes, ServerCompletes,
         ServerFailsBatch, DeliverEvent, Begin, RegisterIntent, RegisterFails, IntentRegistered,
         DeleteIntent, StreamBreaks, StreamTimesOut, StreamReopens, ServerAnswers
    <3>2. request'.kind = request.kind
      <4>1. CASE request' = request
        BY <4>1
      <4>2. CASE ServerAnswers
        <5>1. request' # NoRequest
          BY <4>2, <2>6, OthersKeep DEF ServerAnswers, NoRequest, Typed, TypeOK
        <5> QED BY <2>6, <5>1, OthersKeepAsked DEF Typed
      <4> QED BY <2>6, <4>1, <4>2, OthersKeep
    <3> QED BY <2>2, <2>3, <3>1, <3>2
  <2> QED BY <2>4, <2>5, <2>6
<1>3. CASE ~(phase # "idle" /\ Given("nonces"))
  <2>1. /\ request.batch = batch /\ phase # "idle" /\ request.kind = "nonces"
        /\ request'.kind = "nonces" /\ UNCHANGED <<inbox, outbox>>
    BY <1>1, <1>3, GivenEffect DEF Given
  <2> QED BY <2>1 DEF RequestInOrder, NoRequest, NoBound
<1> QED BY <1>2, <1>3

LEMMA NoncesStep ==
  ASSUME Typed, SigningFits, NoncesAreCurrent, TreeStays, [Next]_vars
  PROVE  NoncesAreCurrent'
<1> SUFFICES ASSUME phase' # "idle", NEW g \in given', g.kind = "nonces", g.batch = batch'
             PROVE  g.tree = session'.tree /\ ValidTree(g.tree, g.batch)'
  BY DEF NoncesAreCurrent
<1>1. ASSUME ValidTree(g.tree, g.batch)
      PROVE  ValidTree(g.tree, g.batch)'
  BY <1>1, OthersKeep, TakingFrame DEF ValidTree, OpensFirst, TreeOf
<1>2. ~\E ours \in BOOLEAN : ServerStartsBatch(ours)
  BY DEF ServerStartsBatch
<1>3. CASE phase # "idle" /\ g \in given /\ batch' = batch
  <2>1. Given("nonces")
    BY <1>3 DEF Given
  <2> QED BY <1>1, <1>3, <2>1, TreeKept DEF NoncesAreCurrent
<1>4. CASE ~(phase # "idle" /\ g \in given /\ batch' = batch)
  <2>1. /\ request.batch = batch /\ request.kind = "nonces" /\ session' = session
        /\ g.tree = session.tree /\ g.batch = batch
    BY <1>2, <1>4, GivenEffect
  <2> QED BY <1>1, <2>1 DEF SigningFits
<1> QED BY <1>3, <1>4

LEMMA AggregatedStep ==
  ASSUME Typed, AggregatedHasNonces, [Next]_vars
  PROVE  AggregatedHasNonces'
<1> USE DEF client, server
<1> SUFFICES ASSUME phase' = "aggregated", intent' = "confirmed", HasSession
             PROVE  Given("nonces")'
  BY OthersKeep, TakingFrame DEF AggregatedHasNonces, HasSession
<1>1. CASE ServerAggregates
  BY <1>1 DEF ServerAggregates, Given
<1>2. CASE ~ServerAggregates
  <2>1. phase = "aggregated" /\ intent = "confirmed"
    BY <1>2, TakingFrame DEF Next, ServerNext, CallerNext, JoinNext, Taking, vars, ServerStartsBatch,
       ServerBuildsTree, ServerFinalizes, ServerCompletes, ServerFailsBatch, DeliverEvent, Begin,
       RegisterIntent, RegisterFails, IntentRegistered, DeleteIntent, RequestAnswered, StreamBreaks,
       StreamTimesOut, StreamReopens, ServerAnswers, Accepts, InPhase, Typed, TypeOK
  <2>2. batch' = batch /\ given \subseteq given'
    BY <2>1, GivenEffect DEF ServerStartsBatch
  <2> QED BY <2>1, <2>2 DEF AggregatedHasNonces, Given
<1> QED BY <1>1, <1>2

LEMMA SignsStep ==
  ASSUME Typed, SigningFits, NoncesAreCurrent, AggregatedHasNonces, SignsItsTree, [Next]_vars
  PROVE  SignsItsTree'
<1> SUFFICES ASSUME NEW g \in given', g.kind = "signatures"
             PROVE  /\ [g EXCEPT !.kind = "nonces"] \in given'
                    /\ ValidTree(g.tree, g.batch)'
                    /\ g.tree \subseteq session'.aggregated
  BY DEF SignsItsTree
<1>1. /\ given \subseteq [kind : {"nonces", "signatures", "forfeits"},
                         batch : Batches, tree : SUBSET Chunk]
      /\ session \in [tree : SUBSET Chunk, nonces : SUBSET Chunk, aggregated : SUBSET Chunk]
      /\ TypeOK
  BY DEF Typed, TypeOK
<1>2. session.aggregated \subseteq session'.aggregated
  BY <1>1, OthersKeep, TakingSession
<1>3. ASSUME ValidTree(g.tree, g.batch)
      PROVE  ValidTree(g.tree, g.batch)'
  BY <1>3, OthersKeep, TakingFrame DEF ValidTree, OpensFirst, TreeOf
<1>4. CASE g \in given
  <2>1. /\ [g EXCEPT !.kind = "nonces"] \in given /\ ValidTree(g.tree, g.batch)
        /\ g.tree \subseteq session.aggregated
    BY <1>4 DEF SignsItsTree
  <2>2. [g EXCEPT !.kind = "nonces"].batch = g.batch
    BY <1>1, <1>4
  <2>3. [g EXCEPT !.kind = "nonces"] \in given'
    BY <2>1, <2>2, GivenEffect
  <2> QED BY <1>2, <1>3, <2>1, <2>3
<1>5. CASE g \notin given
  <2>1. /\ request.batch = batch /\ phase # "idle" /\ InPhase("signatures")
        /\ request.kind = "signatures" /\ given \subseteq given'
        /\ g = [kind |-> "signatures", batch |-> batch, tree |-> session.tree]
    BY <1>5, GivenEffect
  <2>2. phase = "aggregated" /\ intent = "confirmed"
    BY <2>1 DEF InPhase
  <2>3. PICK n \in given : n.kind = "nonces" /\ n.batch = batch
    BY <2>1, <2>2 DEF SigningFits, AggregatedHasNonces, Given
  <2>4. n.tree = session.tree /\ ValidTree(session.tree, batch)
    BY <2>1, <2>3 DEF NoncesAreCurrent
  <2>5. [g EXCEPT !.kind = "nonces"] = n
    BY <1>1, <2>1, <2>3, <2>4
  <2>6. session.tree \subseteq session.aggregated
    BY <2>1 DEF SigningFits
  <2> QED BY <1>2, <1>3, <2>1, <2>3, <2>4, <2>5, <2>6
<1> QED BY <1>4, <1>5

\* The server forgets only what concerns the number it gives to a new batch.
LEMMA SignedStays ==
  ASSUME Typed, [Next]_vars, NEW b, Signed(b),
         b # batch' \/ ~\E ours \in BOOLEAN : ServerStartsBatch(ours)
  PROVE  Signed(b)'
<1>1. PICK g \in given : g.kind = "signatures" /\ g.batch = b
  BY DEF Signed
<1>2. g \in given'
  BY <1>1, GivenEffect
<1> QED BY <1>1, <1>2 DEF Signed

LEMMA ConnectorsStep ==
  ASSUME Typed, ConnectorsAreEarned, [Next]_vars
  PROVE  ConnectorsAreEarned'
<1> USE DEF client, server
<1>1. HasSession' = HasSession
  BY OthersKeep, TakingFrame DEF HasSession
<1> SUFFICES ASSUME HasSession
             PROVE  /\ \A i \in DOMAIN inbox' : inbox'[i].type = "connector" => Signed(inbox[i].batch)'
                    /\ \A i \in DOMAIN outbox' : outbox'[i].type = "connector" => Signed(outbox[i].batch)'
                    /\ \A i \in DOMAIN connectorChunks' : Signed(connectorChunks[i].batch)'
  BY <1>1 DEF ConnectorsAreEarned
<1>2. /\ \A i \in DOMAIN inbox : inbox[i].type = "connector" => Signed(inbox[i].batch)
      /\ \A i \in DOMAIN outbox : outbox[i].type = "connector" => Signed(outbox[i].batch)
      /\ \A i \in DOMAIN connectorChunks : Signed(connectorChunks[i].batch)
  BY DEF ConnectorsAreEarned
\* A new batch.
<1>3. CASE \E ours \in BOOLEAN : ServerStartsBatch(ours)
  <2>1. /\ \A i \in DOMAIN inbox : inbox[i].batch # batch'
        /\ \A i \in DOMAIN outbox : outbox[i].batch # batch'
        /\ \A i \in DOMAIN connectorChunks : connectorChunks[i].batch # batch'
    BY <1>3, NumberIsNew DEF Typed
  <2>2. UNCHANGED <<inbox, connectorChunks>>
    BY <1>3 DEF ServerStartsBatch
  <2>3. \A i \in DOMAIN outbox' : \/ \E j \in DOMAIN outbox : outbox'[i] = outbox[j]
                                  \/ outbox'[i].type = "started"
    <3>1. PICK e \in BatchEvent : e.type = "started" /\ outbox' = outbox \o <<e>>
      BY <1>3, NumberIsNew DEF Typed
    <3> QED BY <3>1, AppendedOne DEF Typed, TypeOK
  <2>4. \A i \in DOMAIN inbox' : inbox'[i].type = "connector" => Signed(inbox[i].batch)'
    <3>1. \A i \in DOMAIN inbox : inbox[i].type = "connector" =>
            \E g \in given' : g.kind = "signatures" /\ g.batch = inbox[i].batch
      BY <1>2, <2>1, SignedStays DEF Signed
    <3> QED BY <2>2, <3>1 DEF Signed
  <2>5. \A i \in DOMAIN outbox' : outbox'[i].type = "connector" => Signed(outbox[i].batch)'
    <3>1. \A i \in DOMAIN outbox : outbox[i].type = "connector" =>
            \E g \in given' : g.kind = "signatures" /\ g.batch = outbox[i].batch
      BY <1>2, <2>1, SignedStays DEF Signed
    <3> QED BY <2>3, <3>1 DEF Signed
  <2>6. \A i \in DOMAIN connectorChunks' : Signed(connectorChunks[i].batch)'
    <3>1. \A i \in DOMAIN connectorChunks :
            \E g \in given' : g.kind = "signatures" /\ g.batch = connectorChunks[i].batch
      BY <1>2, <2>1, SignedStays DEF Signed
    <3> QED BY <2>2, <3>1 DEF Signed
  <2> QED BY <2>4, <2>5, <2>6
\* The same batch, or none.
<1>4. CASE ~\E ours \in BOOLEAN : ServerStartsBatch(ours)
  <2>1. batch' = batch /\ given \subseteq given'
    BY <1>4, GivenEffect
  <2>2. ASSUME NEW b, Signed(b)
        PROVE  Signed(b)'
    BY <2>1, <2>2 DEF Signed
  <2>3. \A i \in DOMAIN inbox' : inbox'[i].type = "connector" => Signed(inbox[i].batch)'
    <3>1. \A i \in DOMAIN inbox' : inbox'[i].type = "connector" => Signed(inbox'[i].batch)
      BY <1>2, EventsComeFrom
    <3> QED BY <2>1, <3>1 DEF Signed
  <2>4. \A i \in DOMAIN outbox' : outbox'[i].type = "connector" => Signed(outbox[i].batch)'
    <3>1. \A i \in DOMAIN outbox' : outbox'[i].type = "connector" => Signed(outbox'[i].batch)
      BY <1>2, EventsComeFrom DEF Bound
    <3> QED BY <2>1, <3>1 DEF Signed
  <2>5. \A i \in DOMAIN connectorChunks' : Signed(connectorChunks[i].batch)'
    <3>1. CASE UNCHANGED connectorChunks
      BY <1>2, <2>1, <3>1 DEF Signed
    <3>2. CASE connectorChunks' # connectorChunks
      <4>1. ConnectorTx /\ connectorChunks' = Append(connectorChunks, [batch |-> Head(inbox).batch])
        BY <3>2, OthersKeep DEF Taking, BatchStarted, TreeTx, ConnectorTx, TreeSigningStarted,
           TreeNonces, TreeSignature, BatchFinalization, BatchFinalized, BatchFailed, Skip, Throw
      <4>2. Takes("connector")
        BY <4>1 DEF ConnectorTx
      <4>3. Signed(Head(inbox).batch)
        BY <1>2, <4>2, Taken DEF Typed
      <4>4. \A i \in DOMAIN connectorChunks' :
               connectorChunks'[i] \in {connectorChunks[j] : j \in DOMAIN connectorChunks}
                                         \cup {[batch |-> Head(inbox).batch]}
        BY <4>1 DEF Typed, TypeOK
      <4>5. \A i \in DOMAIN connectorChunks' : Signed(connectorChunks'[i].batch)
        BY <1>2, <4>3, <4>4
      <4> QED BY <2>1, <4>5 DEF Signed
    <3> QED BY <3>1, <3>2
  <2> QED BY <2>3, <2>4, <2>5
<1> QED BY <1>3, <1>4

LEMMA ForfeitsStep ==
  ASSUME Typed, ConnectorsAreEarned, ForfeitsComeLast, [Next]_vars
  PROVE  ForfeitsComeLast'
<1> USE DEF client, server
<1> SUFFICES ASSUME request'.kind = "forfeits", HasSession
             PROVE  Signed(request.batch)'
  BY OthersKeep, TakingFrame DEF ForfeitsComeLast, HasSession, Signed
<1>1. CASE Taking
  <2>1. BatchFinalization /\ request' = [kind |-> "forfeits", batch |-> Head(inbox).batch, state |-> "sent"]
        /\ ConnectorsFit(Head(inbox).batch) /\ NeedsForfeit
    <3>1. request = NoRequest /\ NoRequest.kind = "none"
      BY <1>1, TakingFrame, Taken DEF Typed, NoRequest
    <3> QED BY <1>1, <3>1 DEF Taking, BatchStarted, TreeTx, ConnectorTx, TreeSigningStarted,
           TreeNonces, TreeSignature, BatchFinalization, BatchFinalized, BatchFailed, Skip, Throw, Asks
  <2>2. 1 \in DOMAIN connectorChunks /\ connectorChunks[1].batch = Head(inbox).batch
    BY <2>1 DEF ConnectorsFit, Typed, TypeOK
  <2>3. Signed(Head(inbox).batch)
    BY <2>2 DEF ConnectorsAreEarned
  <2>4. given' = given
    BY <1>1, TakingFrame
  <2> QED BY <2>1, <2>3, <2>4 DEF Signed
<1>2. CASE ~Taking
  <2>1. request.kind = "forfeits" /\ request'.batch = request.batch
    BY <1>2, OthersKeepAsked DEF Typed, NoRequest
  <2>2. Signed(request.batch)
    BY <2>1 DEF ForfeitsComeLast, Signed
  <2>3. request.batch # batch' \/ ~\E ours \in BOOLEAN : ServerStartsBatch(ours)
    BY NumberIsNew DEF Typed
  <2>4. \E g \in given' : g.kind = "signatures" /\ g.batch = request.batch
    BY <2>2, <2>3, SignedStays DEF Signed
  <2> QED BY <2>1, <2>4 DEF Signed
<1> QED BY <1>1, <1>2

LEMMA StreamStep ==
  ASSUME Typed, StreamStays, [Next]_vars
  PROVE  StreamStays'
<1> USE DEF client, server
<1>1. CASE Taking
  BY <1>1 DEF Taking, BatchStarted, TreeTx, ConnectorTx, TreeSigningStarted, Takes,
         TreeNonces, TreeSignature, BatchFinalization, BatchFinalized, BatchFailed, Skip, Throw, StreamStays
<1> QED BY <1>1 DEF Next, ServerNext, CallerNext, JoinNext, Taking, vars, StreamStays, Throw,
       ServerStartsBatch, ServerBuildsTree, ServerAggregates, ServerFinalizes, ServerCompletes,
       ServerFailsBatch, DeliverEvent, Begin, RegisterIntent, RegisterFails, IntentRegistered,
       DeleteIntent, RequestAnswered, StreamBreaks, StreamTimesOut, StreamReopens, ServerAnswers

-----------------------------------------------------------------------------
(* What the caller can count on once it has done its part. *)

\* A failure that comes first goes on coming first when events are appended.
LEMMA FirstFailsGrows ==
  ASSUME NEW s \in Seq(BatchEvent), NEW t \in Seq(BatchEvent), FirstFails(s),
         \A i \in DOMAIN s : i \in DOMAIN t /\ t[i] = s[i]
  PROVE  FirstFails(t)
<1>1. PICK k \in DOMAIN s : s[k].type = "failed" /\ \A i \in 1 .. k - 1 : s[i].type \notin Bound
  BY DEF FirstFails
<1>2. \A i \in 1 .. k - 1 : i \in DOMAIN s
  OBVIOUS
<1> QED BY <1>1, <1>2 DEF FirstFails

\* It is nearer when the event before it is taken away.
LEMMA FirstFailsNears ==
  ASSUME NEW s \in Seq(BatchEvent), NEW t \in Seq(BatchEvent), FirstFails(s), s[1].type \notin Bound,
         s # <<>>, t = Tail(s)
  PROVE  FirstFails(t)
<1>1. PICK k \in DOMAIN s : s[k].type = "failed" /\ \A i \in 1 .. k - 1 : s[i].type \notin Bound
  BY DEF FirstFails
<1>2. k # 1
  BY <1>1 DEF Bound
<1>3. k - 1 \in DOMAIN t /\ t[k - 1] = s[k]
  BY <1>2
<1>4. \A i \in 1 .. (k - 1) - 1 : t[i] = s[i + 1] /\ i + 1 \in 1 .. k - 1
  OBVIOUS
<1> QED BY <1>1, <1>3, <1>4 DEF FirstFails

\* It is the first event when that one starts or ends a batch.
LEMMA FirstFailsFirst ==
  ASSUME NEW s \in Seq(BatchEvent), FirstFails(s), s[1].type \in Bound
  PROVE  s[1].type = "failed"
<1>1. PICK k \in DOMAIN s : s[k].type = "failed" /\ \A i \in 1 .. k - 1 : s[i].type \notin Bound
  BY DEF FirstFails
<1>2. k = 1
  BY <1>1
<1> QED BY <1>1, <1>2

LEMMA NextBoundStep ==
  ASSUME Typed, NextBoundFails, call = "joining", call' = "joining", stream = "open", [Next]_vars
  PROVE  NextBoundFails'
<1> USE DEF client, server
<1>1. inbox \in Seq(BatchEvent) /\ outbox \in Seq(BatchEvent) /\ TypeOK
  BY DEF Typed, TypeOK
<1>2. ASSUME NEW ev \in Seq(BatchEvent), outbox' = outbox \o ev, inbox' = inbox
      PROVE  NextBoundFails'
  <2>1. outbox \o ev \in Seq(BatchEvent)
        /\ \A i \in DOMAIN outbox : i \in DOMAIN (outbox \o ev) /\ (outbox \o ev)[i] = outbox[i]
    BY <1>1, Appended
  <2>2. FirstFails(outbox) => FirstFails(outbox \o ev)
    BY <1>1, <2>1, FirstFailsGrows
  <2> QED BY <1>2, <2>2 DEF NextBoundFails, FirstFails, NoBound
<1>3. CASE ServerBuildsTree \/ ServerAggregates \/ ServerFinalizes
  BY <1>2, <1>3, WithinBatch DEF Emits
<1>4. CASE \E ours \in BOOLEAN : ServerStartsBatch(ours)
  <2>1. PICK e \in BatchEvent : outbox' = outbox \o <<e>> /\ inbox' = inbox
    BY <1>1, <1>4, NumberIsNew DEF ServerStartsBatch
  <2>2. <<e>> \in Seq(BatchEvent)
    OBVIOUS
  <2> QED BY <1>2, <2>1, <2>2
<1>5. CASE ServerCompletes \/ ServerFailsBatch
  <2>1. phase # "idle" /\ inbox' = inbox /\ \E type \in {"finalized", "failed"} :
            outbox' = outbox \o <<[type |-> type, batch |-> batch]>>
    BY <1>5 DEF ServerCompletes, ServerFailsBatch, ServerEmits
  <2>2. PICK e \in BatchEvent : outbox' = outbox \o <<e>>
    BY <2>1 DEF Typed, BatchEvent
  <2>3. <<e>> \in Seq(BatchEvent)
    OBVIOUS
  <2> QED BY <1>2, <2>1, <2>2, <2>3
<1>6. CASE DeliverEvent
  <2>1. /\ outbox # <<>> /\ outbox' = Tail(outbox) /\ outbox' \in Seq(BatchEvent)
        /\ inbox' = Append(inbox, outbox[1]) /\ inbox' \in Seq(BatchEvent)
        /\ \A i \in DOMAIN inbox : i \in DOMAIN inbox' /\ inbox'[i] = inbox[i]
        /\ DOMAIN inbox' = DOMAIN inbox \cup {Len(inbox) + 1}
        /\ inbox'[Len(inbox) + 1] = outbox[1]
    BY <1>1, <1>6 DEF DeliverEvent, Listens
  <2>2. CASE FirstFails(inbox)
    <3>1. FirstFails(inbox')
      BY <1>1, <2>1, <2>2, FirstFailsGrows
    <3> QED BY <3>1 DEF NextBoundFails, FirstFails
  <2>3. CASE NoBound(inbox) /\ FirstFails(outbox) /\ outbox[1].type \in Bound
    <3>1. outbox[1].type = "failed"
      BY <1>1, <2>3, FirstFailsFirst
    <3>2. \A i \in 1 .. (Len(inbox) + 1) - 1 : i \in DOMAIN inbox
      BY <1>1
    <3>3. FirstFails(inbox')
      BY <2>1, <2>3, <3>1, <3>2 DEF FirstFails, NoBound
    <3> QED BY <3>3 DEF NextBoundFails, FirstFails
  <2>4. CASE NoBound(inbox) /\ FirstFails(outbox) /\ outbox[1].type \notin Bound
    <3>1. FirstFails(outbox')
      BY <1>1, <2>1, <2>4, FirstFailsNears
    <3>2. NoBound(inbox')
      BY <2>1, <2>4 DEF NoBound
    <3> QED BY <3>1, <3>2 DEF NextBoundFails, FirstFails, NoBound
  <2> QED BY <2>2, <2>3, <2>4 DEF NextBoundFails
<1>7. CASE Taking
  <2>1. PICK type : Takes(type)
    BY <1>7, TakingFrame
  <2>2. inbox # <<>> /\ inbox' = Tail(inbox) /\ inbox' \in Seq(BatchEvent)
        /\ Head(inbox) = inbox[1] /\ outbox' = outbox
    BY <1>1, <1>7, <2>1, Taken, TakingFrame DEF Takes
  <2>3. inbox[1].type # "failed"
    BY <1>1, <1>7, <2>2 DEF Taking, BatchStarted, TreeTx, ConnectorTx, TreeSigningStarted, TreeNonces,
           TreeSignature, BatchFinalization, BatchFinalized, BatchFailed, Throw, Takes
  <2>4. CASE FirstFails(inbox)
    <3>1. inbox[1].type \notin Bound
      BY <1>1, <2>3, <2>4, FirstFailsFirst
    <3>2. FirstFails(inbox')
      BY <1>1, <2>2, <2>4, <3>1, FirstFailsNears
    <3> QED BY <3>2 DEF NextBoundFails, FirstFails
  <2>5. CASE NoBound(inbox) /\ FirstFails(outbox)
    <3>1. NoBound(inbox')
      BY <1>1, <2>1, <2>5, Taken DEF NoBound
    <3> QED BY <2>2, <2>5, <3>1 DEF NextBoundFails, FirstFails, NoBound
  <2> QED BY <2>4, <2>5 DEF NextBoundFails
<1>8. CASE ServerAnswers \/ CallerNext \/ StreamBreaks \/ StreamTimesOut \/ StreamReopens
           \/ UNCHANGED vars
  <2>1. UNCHANGED <<inbox, outbox>>
    BY <1>8 DEF ServerAnswers, CallerNext, Begin, RegisterIntent, RegisterFails, IntentRegistered,
                DeleteIntent, RequestAnswered, StreamBreaks, StreamTimesOut, StreamReopens, vars
  <2> QED BY <2>1 DEF NextBoundFails, FirstFails, NoBound
<1> QED BY <1>3, <1>4, <1>5, <1>6, <1>7, <1>8 DEF Next, ServerNext, JoinNext, Taking

\* The server does not forget that it has settled the intent.
LEMMA SettledStays ==
  ASSUME intent = "settled", call \in {"joining", "resolved"}, [Next]_vars
  PROVE  intent' = "settled"
BY TakingFrame DEF Next, ServerNext, CallerNext, JoinNext, Taking, client, server, vars,
   ServerStartsBatch, ServerBuildsTree, ServerAggregates, ServerFinalizes, ServerCompletes,
   ServerFailsBatch, DeliverEvent, ServerAnswers, Accepts, InPhase, Begin, RegisterIntent,
   RegisterFails, IntentRegistered, DeleteIntent, RequestAnswered, StreamBreaks, StreamTimesOut,
   StreamReopens

LEMMA DecidedStep ==
  ASSUME Typed, Decided, call = "joining", call' = "joining", stream = "open", [Next]_vars
  PROVE  Decided'
<1> USE DEF client, server
<1>1. inbox \in Seq(BatchEvent) /\ outbox \in Seq(BatchEvent) /\ TypeOK
  BY DEF Typed, TypeOK
<1>2. CASE intent = "settled"
  BY <1>2, SettledStays DEF Decided
<1>3. CASE NextBoundFails
  BY <1>3, NextBoundStep DEF Decided
<1>4. CASE /\ phase \in {"aggregated", "finalizing"} /\ intent = "confirmed"
           /\ NoBound(inbox) /\ NoBound(outbox)
  <2>1. CASE ServerCompletes
    BY <1>4, <2>1 DEF ServerCompletes, Decided
  <2>2. CASE ServerFailsBatch
    <3>1. [type |-> "failed", batch |-> batch] \in BatchEvent
      BY <1>4 DEF Typed, BatchEvent
    <3>2. outbox' = outbox \o <<[type |-> "failed", batch |-> batch]>> /\ inbox' = inbox
      BY <2>2 DEF ServerFailsBatch, ServerEmits
    <3> DEFINE e == [type |-> "failed", batch |-> batch]
    <3> HIDE DEF e
    <3>3. /\ DOMAIN outbox' = DOMAIN outbox \cup {Len(outbox) + 1}
          /\ \A i \in DOMAIN outbox : outbox'[i] = outbox[i]
          /\ outbox'[Len(outbox) + 1] = e /\ e.type = "failed"
      BY <1>1, <3>1, <3>2, AppendedOne DEF e
    <3>4. \A i \in 1 .. (Len(outbox) + 1) - 1 : i \in DOMAIN outbox
      BY <1>1
    <3>5. FirstFails(outbox)'
      BY <1>4, <3>3, <3>4 DEF FirstFails, NoBound
    <3> QED BY <1>4, <3>2, <3>5 DEF Decided, NextBoundFails, NoBound
  <2>3. CASE ~ServerCompletes /\ ~ServerFailsBatch
    <3>1. phase' \in {"aggregated", "finalizing"} /\ intent' = "confirmed"
      BY <1>4, <2>3, TakingFrame DEF Next, ServerNext, CallerNext, JoinNext, Taking, vars,
         ServerStartsBatch, ServerBuildsTree, ServerAggregates, ServerFinalizes, DeliverEvent,
         ServerAnswers, Accepts, Begin, RegisterIntent, RegisterFails, IntentRegistered,
         DeleteIntent, RequestAnswered, StreamBreaks, StreamTimesOut, StreamReopens
    <3>2. NoBound(inbox)' /\ NoBound(outbox)'
      BY <1>4, <3>1, BoundsStay
    <3> QED BY <3>1, <3>2 DEF Decided
  <2> QED BY <2>1, <2>2, <2>3
<1> QED BY <1>2, <1>3, <1>4 DEF Decided

\* The step that completes the caller's part is an answer of the server, in the
\* phase of the batch that the request was for.
LEMMA CommitsOnAnswer ==
  ASSUME Typed, GivenByJoin, call' = "joining", Committed', [Next]_vars
  PROVE  call = "joining" /\ (Committed \/ (/\ ServerAnswers /\ request' = [request EXCEPT !.state = "ok"]
                                            /\ request.kind \in {"signatures", "forfeits"}))
<1> USE DEF client, server
<1>1. TypeOK
  BY DEF Typed
<1>2. HasSession' = HasSession /\ NeedsForfeit' = NeedsForfeit
      /\ (~HasSession => NeedsForfeit)
  BY OthersKeep, TakingFrame DEF HasSession, NeedsForfeit
<1>3. CASE Taking
  <2>1. call = "joining" /\ request'.state # "ok"
    BY <1>1, <1>3, TakingAsks, TakingFrame, Taken DEF NoRequest
  <2>2. step' = step \/ (step' = "batch_finalization" /\ step = "tree_nonces_aggregated" /\ ~NeedsForfeit)
    BY <1>3 DEF Taking, BatchStarted, TreeTx, ConnectorTx, TreeSigningStarted, TreeNonces,
                TreeSignature, BatchFinalization, BatchFinalized, BatchFailed, Skip, Throw
  <2> QED BY <1>2, <2>1, <2>2 DEF Committed
<1>4. CASE RequestAnswered
  <2>1. call = "joining" /\ request.state = "ok" /\ step' = StepAfter(request.kind)
        /\ request' = NoRequest
    BY <1>4 DEF RequestAnswered, Throw
  <2>2. request.kind \in {"confirm", "nonces", "signatures", "forfeits"}
    BY <1>1, <2>1 DEF TypeOK, NoRequest
  <2>3. \/ step' = "batch_finalization"
        \/ step' = "tree_nonces_aggregated" /\ ~NeedsForfeit
    BY <1>2, <2>1 DEF Committed, NoRequest
  <2> QED BY <1>2, <2>1, <2>2, <2>3 DEF Committed, StepAfter
<1>5. CASE ServerAnswers
  <2>1. call = "joining" /\ step' = step
    BY <1>5 DEF ServerAnswers
  <2>2. request # NoRequest
    BY <1>5 DEF ServerAnswers, NoRequest
  <2>3. request \in [kind : {"confirm", "nonces", "signatures", "forfeits"},
                     batch : Batches, state : {"sent", "ok", "error"}]
    BY <1>1, <2>2 DEF TypeOK
  <2>4. PICK state \in {"ok", "error"} : request' = [request EXCEPT !.state = state]
    BY <1>5 DEF ServerAnswers
  <2> QED BY <1>2, <1>5, <2>1, <2>3, <2>4 DEF Committed
<1>6. CASE IntentRegistered
  <2>1. call = "opening" /\ UNCHANGED <<request, step>>
    BY <1>6 DEF IntentRegistered
  <2> QED BY <2>1 DEF GivenByJoin, Committed, NoRequest
<1>7. CASE ~Taking /\ ~RequestAnswered /\ ~ServerAnswers /\ ~IntentRegistered
  <2>1. UNCHANGED <<call, request, step>>
    BY <1>7 DEF Next, ServerNext, CallerNext, JoinNext, Taking, vars,
       ServerStartsBatch, ServerBuildsTree, ServerAggregates, ServerFinalizes, ServerCompletes,
       ServerFailsBatch, DeliverEvent, Begin, RegisterIntent, RegisterFails,
       DeleteIntent, StreamBreaks, StreamTimesOut, StreamReopens, Throw
  <2> QED BY <1>2, <2>1 DEF Committed
<1> QED BY <1>3, <1>4, <1>5, <1>6, <1>7

LEMMA CommitmentStep ==
  ASSUME Typed, RequestInOrder, GivenByJoin, StreamStays, CommitmentHolds, [Next]_vars
  PROVE  CommitmentHolds'
<1> USE DEF client, server
<1> SUFFICES ASSUME provider = "rest"
             PROVE  /\ call' = "joining" /\ Committed' => Decided'
                    /\ call' = "resolved" => intent' = "settled"
  BY OthersKeep, TakingFrame DEF CommitmentHolds
<1>1. inbox \in Seq(BatchEvent) /\ TypeOK
  BY DEF Typed, TypeOK
<1>2. ASSUME call' = "joining", Committed'
      PROVE  Decided'
  <2>1. CASE Committed /\ call = "joining"
    BY <1>2, <2>1, DecidedStep DEF CommitmentHolds, StreamStays
  <2>2. CASE /\ ServerAnswers /\ request' = [request EXCEPT !.state = "ok"]
             /\ request.kind \in {"signatures", "forfeits"}
    <3>1. request # NoRequest
      BY <2>2 DEF ServerAnswers, NoRequest
    <3>2. request \in [kind : {"confirm", "nonces", "signatures", "forfeits"},
                       batch : Batches, state : {"sent", "ok", "error"}]
      BY <1>1, <3>1 DEF TypeOK
    <3>3. request.batch = batch /\ InPhase(request.kind) /\ Accepts(request)
      BY <2>2, <3>2 DEF ServerAnswers
    <3>4. phase \in {"aggregated", "finalizing"} /\ intent = "confirmed" /\ intent' = intent
      BY <2>2, <3>3 DEF InPhase, Accepts
    <3>5. NoBound(inbox) /\ NoBound(outbox)
      BY <3>1, <3>3, <3>4 DEF RequestInOrder
    <3>6. UNCHANGED <<phase, inbox, outbox>>
      BY <2>2 DEF ServerAnswers
    <3> QED BY <3>4, <3>5, <3>6 DEF Decided, NoBound
  <2> QED BY <1>2, <2>1, <2>2, CommitsOnAnswer
<1>3. ASSUME call' = "resolved"
      PROVE  intent' = "settled"
  <2>1. CASE call = "resolved"
    BY <2>1, SettledStays DEF CommitmentHolds
  <2>2. CASE call # "resolved"
    <3>1. BatchFinalized /\ step = "batch_finalization" /\ Takes("finalized")
      <4>1. CASE Taking
        BY <1>3, <2>2, <4>1 DEF Taking, BatchStarted, TreeTx, ConnectorTx, TreeSigningStarted, TreeNonces,
           TreeSignature, BatchFinalization, BatchFinalized, BatchFailed, Skip, Throw
      <4> QED BY <1>3, <2>2, <4>1 DEF Next, ServerNext, CallerNext, JoinNext, Taking, vars,
         ServerStartsBatch, ServerBuildsTree, ServerAggregates, ServerFinalizes, ServerCompletes,
         ServerFailsBatch, DeliverEvent, Begin, RegisterIntent, RegisterFails, IntentRegistered,
         DeleteIntent, RequestAnswered, StreamBreaks, StreamTimesOut, StreamReopens, ServerAnswers, Throw
    <3>2. call = "joining" /\ 1 \in DOMAIN inbox /\ inbox[1].type = "finalized"
      BY <1>1, <3>1, Taken
    <3>3. Decided
      BY <3>1, <3>2 DEF CommitmentHolds, Committed
    <3>4. ~NextBoundFails
      BY <1>1, <3>2, FirstFailsFirst DEF NextBoundFails, NoBound, Bound
    <3>5. ~NoBound(inbox)
      BY <3>2 DEF NoBound, Bound
    <3> QED BY <3>1, <3>2, <3>3, <3>4, <3>5, SettledStays DEF Decided
  <2> QED BY <2>1, <2>2
<1> QED BY <1>2, <1>3

-----------------------------------------------------------------------------
(* The invariant. *)

LEMMA InitInv ==
  ASSUME Init
  PROVE  Inv
<1>1. TypeOK
  <2>1. 0 \in 0 .. MaxBatches
    BY ConstantsAssumption
  <2>2. session \in [tree : SUBSET Chunk, nonces : SUBSET Chunk, aggregated : SUBSET Chunk]
    BY DEF Init
  <2> QED BY <2>1, <2>2 DEF Init, FreshJoin, TypeOK, Step
<1>2. Typed /\ EventsInOrder /\ RequestInOrder /\ GivenByJoin
  BY <1>1 DEF Init, FreshJoin, Typed, EventsInOrder, RequestInOrder, GivenByJoin
<1>3. /\ SigningFits /\ NoncesAreCurrent /\ TreeStays /\ AggregatedHasNonces /\ SignsItsTree
      /\ ConnectorsAreEarned /\ ForfeitsComeLast /\ StreamStays /\ CommitmentHolds
  BY DEF Init, FreshJoin, NoRequest, SigningFits, NoncesAreCurrent, TreeStays, AggregatedHasNonces,
         SignsItsTree, ConnectorsAreEarned, ForfeitsComeLast, StreamStays, CommitmentHolds
<1> QED BY <1>2, <1>3 DEF Inv

LEMMA StepInv ==
  ASSUME Inv, [Next]_vars
  PROVE  Inv'
BY TypeStep, EventsStep, RequestStep, GivenByJoinStep, SigningStep, NoncesStep, TreeStaysStep,
   AggregatedStep, SignsStep, ConnectorsStep, ForfeitsStep, StreamStep, CommitmentStep DEF Inv

LEMMA Inductive == Spec => []Inv
BY InitInv, StepInv, PTL DEF Spec

-----------------------------------------------------------------------------
(* The theorems. *)

\* The locals of Batch.join, its session, the requests of its handlers and the
\* events on their way keep the shapes the code gives them.
THEOREM TypesHold == Spec => []TypeOK
<1>1. Inv => TypeOK
  BY DEF Inv, Typed
<1> QED BY <1>1, Inductive, PTL

\* Signatures go out only for the tree whose nonces were sent, which is the
\* batch's own and holds the outputs its caller checks for. (createBatchHandler)
THEOREM SignsOwnTree == Spec => []SignsItsTree
<1>1. Inv => SignsItsTree
  BY DEF Inv
<1> QED BY <1>1, Inductive, PTL

\* A caller that signs a tree signs its forfeits after it. (Batch.join)
THEOREM ForfeitsAfterSignatures == Spec => []ForfeitsComeLast
<1>1. Inv => ForfeitsComeLast
  BY DEF Inv
<1> QED BY <1>1, Inductive, PTL

\* When join resolves and no event was lost, the server has settled the intent,
\* although join never compares the batches of its events. (Batch.join)
THEOREM ResolvesOnlySettled == Spec => []ResolvesSettled
<1>1. Inv => ResolvesSettled
  BY DEF Inv, CommitmentHolds, ResolvesSettled
<1> QED BY <1>1, Inductive, PTL

=============================================================================
