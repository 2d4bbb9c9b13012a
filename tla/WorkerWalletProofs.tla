------------------------- MODULE WorkerWalletProofs -------------------------
(***************************************************************************)
(* Proofs about WorkerWallet for any number of pages, calls and jobs: a     *)
(* call is handled at most once, whatever is retried, lost or timed out,    *)
(* and an initialised bus goes on ticking.  And about one page whose         *)
(* initialisations are not interrupted: one wallet reports to it.           *)
(***************************************************************************)
EXTENDS WorkerWallet, SequenceTheorems, TLAPS

-----------------------------------------------------------------------------
(* What the arguments need to know of the types. *)

PageType == [open : {"no", "creating", "yes"}, setup : {"none", "bus", "wallet"},
             pinging : BOOLEAN, inbox : Seq(Message)]
CallType == [stage : {"idle", "ping", "reinit", "post", "sent"},
             request : Requests, attempt : 0 .. MaxRetries,
             runs : Nat, outcome : Outcome]
JobType == [stage : Stage, page : Pages, for : Waiter, wallet : Wallets \cup {NoWallet}]
HandlerType == [wallet : Wallets \cup {NoWallet}, indexer : BOOLEAN,
                funds : {"none", "live", "dead"}, contracts : Wallets \cup {NoWallet}]

Types ==
    /\ page \in [Pages -> PageType]
    /\ call \in [Calls -> CallType]
    /\ job \in [Jobs -> JobType]
    /\ handler \in HandlerType

(* The inductive invariant.  A call's request is in one place: in the inbox  *)
(* of its page before it runs, or in a job, once it does.                    *)
For(p, i) == page[p].inbox[i].for

InboxHas(c) ==
    \A p \in Pages : \A i \in DOMAIN page[p].inbox : For(p, i) = c =>
        /\ p = PageOf[c]
        /\ page[p].inbox[i].kind \in Requests
        /\ call[c].stage = "sent" /\ call[c].runs = 0

InboxHasOne(c) ==
    \A p \in Pages : \A i, k \in DOMAIN page[p].inbox :
        For(p, i) = c /\ For(p, k) = c => i = k

JobHas(c) ==
    \A j \in Jobs : job[j].for = c =>
        job[j].page = PageOf[c] /\ call[c].stage = "sent" /\ call[c].runs = 1

JobHasOne(c) == \A j, k \in Jobs : job[j].for = c /\ job[k].for = c => j = k

Runs(c) == call[c].runs <= 1 /\ (call[c].stage # "sent" => call[c].runs = 0)

Once(c) == InboxHas(c) /\ InboxHasOne(c) /\ JobHas(c) /\ JobHasOne(c) /\ Runs(c)

OnceInv == Types /\ \A c \in Calls : Once(c)

-----------------------------------------------------------------------------
(* Inboxes. *)

\* The messages of s for w are among those of t, so many places later.
Fewer(s, t, w) ==
    \E d \in Nat : \A i \in DOMAIN s :
        s[i].for = w => i + d \in DOMAIN t /\ s[i] = t[i + d]

\* An inbox has the messages it has.
LEMMA FewerSame ==
    ASSUME NEW s \in Seq(Message), NEW w PROVE Fewer(s, s, w)
  <1>1. \A i \in DOMAIN s : s[i].for = w => i + 0 \in DOMAIN s /\ s[i] = s[i + 0]
    OBVIOUS
  <1> QED BY <1>1 DEF Fewer

\* Taking the first message adds none.
LEMMA FewerTail ==
    ASSUME NEW s \in Seq(Message), s # <<>>, NEW w
    PROVE  Tail(s) \in Seq(Message) /\ Fewer(Tail(s), s, w)
  <1>1. \A i \in DOMAIN Tail(s) :
            Tail(s)[i].for = w => i + 1 \in DOMAIN s /\ Tail(s)[i] = s[i + 1]
    OBVIOUS
  <1>2. 1 \in Nat /\ Tail(s) \in Seq(Message)
    OBVIOUS
  <1> QED BY <1>1, <1>2 DEF Fewer

\* Posting a message of another waiter adds none of w's.
LEMMA FewerAppend ==
    ASSUME NEW s \in Seq(Message), NEW t \in Seq(Message), NEW w, Fewer(s, t, w),
           NEW m \in Message, m.for # w
    PROVE  Append(s, m) \in Seq(Message) /\ Fewer(Append(s, m), t, w)
  <1>1. PICK d \in Nat : \A i \in DOMAIN s :
            s[i].for = w => i + d \in DOMAIN t /\ s[i] = t[i + d]
    BY DEF Fewer
  <1>2. \A i \in DOMAIN Append(s, m) : Append(s, m)[i].for = w =>
            i + d \in DOMAIN t /\ Append(s, m)[i] = t[i + d]
    BY <1>1
  <1>3. Append(s, m) \in Seq(Message)
    OBVIOUS
  <1>4. Fewer(Append(s, m), t, w)
    BY <1>2, Zenon DEF Fewer
  <1> QED BY <1>3, <1>4

\* Disowning the messages of a waiter, or all of them, leaves none of its own
\* and adds none.
LEMMA DisownedInbox ==
    ASSUME NEW s \in Seq(Message), NEW w \in Waiter
    PROVE  /\ Disowned(s, w) \in Seq(Message)
           /\ \A v \in Calls : Fewer(Disowned(s, w), s, v)
           /\ w # Nobody => \A i \in DOMAIN Disowned(s, w) : Disowned(s, w)[i].for # w
  <1> DEFINE t == Disowned(s, w)
  <1>1. \A m \in Message : [m EXCEPT !.for = Nobody] \in Message
    BY DEF Message, Waiter
  <1>2. t \in Seq(Message)
    BY <1>1 DEF Disowned
  <1>3. \A i \in DOMAIN t : /\ i \in DOMAIN s
                            /\ s[i].for = w => t[i].for = Nobody
                            /\ s[i].for # w => t[i] = s[i]
    BY DEF Disowned, Message
  <1>4. \A v \in Calls : \A i \in DOMAIN t :
            t[i].for = v => i + 0 \in DOMAIN s /\ t[i] = s[i + 0]
    BY <1>2, <1>3, WorkerAssumption
  <1>5. \A v \in Calls : Fewer(t, s, v)
    BY <1>4 DEF Fewer
  <1>6. w # Nobody => \A i \in DOMAIN t : t[i].for # w
    BY <1>3
  <1> QED BY <1>2, <1>5, <1>6

-----------------------------------------------------------------------------
(* What a step does to the requests of a call. *)

NoMore(c) ==
    /\ \A p \in Pages : Fewer(page'[p].inbox, page[p].inbox, c)
    /\ \A j \in Jobs : job'[j].for = c => job[j].for = c /\ job'[j].page = job[j].page

\* A step that adds no message and no job of a call leaves it as it was.
LEMMA Kept ==
    ASSUME Types, Types', NEW c \in Calls, Once(c), call'[c] = call[c], NoMore(c)
    PROVE  Once(c)'
  <1>1. InboxHas(c)'
    <2> SUFFICES ASSUME NEW p \in Pages, NEW i \in DOMAIN page'[p].inbox,
                        page'[p].inbox[i].for = c
                 PROVE  /\ p = PageOf[c]
                        /\ page'[p].inbox[i].kind \in Requests
                        /\ call'[c].stage = "sent" /\ call'[c].runs = 0
      BY DEF InboxHas, For
    <2>1. PICK d \in Nat : i + d \in DOMAIN page[p].inbox
                              /\ page'[p].inbox[i] = page[p].inbox[i + d]
      BY DEF NoMore, Fewer
    <2> QED BY <2>1 DEF Once, InboxHas, For
  <1>2. InboxHasOne(c)'
    <2> SUFFICES ASSUME NEW p \in Pages, NEW i \in DOMAIN page'[p].inbox,
                        NEW k \in DOMAIN page'[p].inbox,
                        page'[p].inbox[i].for = c, page'[p].inbox[k].for = c
                 PROVE  i = k
      BY DEF InboxHasOne, For
    <2>1. PICK d \in Nat : \A n \in DOMAIN page'[p].inbox :
              page'[p].inbox[n].for = c => n + d \in DOMAIN page[p].inbox
                                           /\ page'[p].inbox[n] = page[p].inbox[n + d]
      BY DEF NoMore, Fewer
    <2>2. i + d = k + d
      BY <2>1 DEF Once, InboxHasOne, For
    <2>3. page'[p].inbox \in Seq(Message)
      BY DEF Types, PageType
    <2>4. i \in Nat /\ k \in Nat
      BY <2>3
    <2> QED BY <2>2, <2>4
  <1>3. JobHas(c)' /\ JobHasOne(c)'
    BY DEF Once, JobHas, JobHasOne, NoMore
  <1>4. Runs(c)'
    BY DEF Once, Runs
  <1> QED BY <1>1, <1>2, <1>3, <1>4 DEF Once

\* A call nothing of which is left may go back to where it has not run.
LEMMA Gone ==
    ASSUME NEW c \in Calls, call'[c].stage # "sent", call'[c].runs = 0,
           \A p \in Pages : \A i \in DOMAIN page'[p].inbox : page'[p].inbox[i].for # c,
           \A j \in Jobs : job'[j].for # c
    PROVE  Once(c)'
  BY DEF Once, InboxHas, InboxHasOne, JobHas, JobHasOne, Runs, For

\* In particular one that had nothing posted.
LEMMA Unsent ==
    ASSUME Types, NEW c \in Calls, Once(c), call[c].stage # "sent",
           call'[c].stage # "sent", call'[c].runs = 0, NoMore(c)
    PROVE  Once(c)'
  <1>1. \A p \in Pages : \A i \in DOMAIN page[p].inbox : page[p].inbox[i].for # c
    BY DEF Once, InboxHas, For
  <1>2. \A j \in Jobs : job'[j].for # c
    BY DEF Once, JobHas, NoMore
  <1>3. ASSUME NEW p \in Pages, NEW i \in DOMAIN page'[p].inbox
        PROVE  page'[p].inbox[i].for # c
    BY <1>1 DEF NoMore, Fewer
  <1> QED BY <1>2, <1>3, Gone

\* A waiting call, released or ended together with others.
Released(c) ==
    /\ call[c].stage # "sent" /\ call'[c].stage # "sent"
    /\ call'[c].runs \in {0, call[c].runs}

LEMMA ReleasedOnce ==
    ASSUME Types, NEW c \in Calls, Once(c), Released(c), NoMore(c)
    PROVE  Once(c)'
  <1>1. call[c].runs = 0
    BY DEF Once, Runs, Released
  <1>2. call'[c].runs = 0
    BY <1>1 DEF Released
  <1> QED BY <1>2, Unsent DEF Released

-----------------------------------------------------------------------------
(* What the page does with an answer. *)

Less(new, old) ==
    new \in PageType /\ \A c \in Calls : Fewer(new.inbox, old.inbox, c)

\* A page is no more than itself.
LEMMA LessSame == ASSUME NEW pg \in PageType PROVE Less(pg, pg)
  <1>1. pg.inbox \in Seq(Message)
    BY DEF PageType
  <1> QED BY <1>1, FewerSame DEF Less

\* What has fewer messages of a call than that which has fewer.
LEMMA LessTrans ==
    ASSUME NEW a \in PageType, NEW b \in PageType, NEW e \in PageType,
           Less(a, b), Less(b, e)
    PROVE  Less(a, e)
  <1> SUFFICES ASSUME NEW c \in Calls PROVE Fewer(a.inbox, e.inbox, c)
    BY DEF Less
  <1>1. PICK d1 \in Nat : \A i \in DOMAIN a.inbox : a.inbox[i].for = c =>
            i + d1 \in DOMAIN b.inbox /\ a.inbox[i] = b.inbox[i + d1]
    BY DEF Less, Fewer
  <1>2. PICK d2 \in Nat : \A i \in DOMAIN b.inbox : b.inbox[i].for = c =>
            i + d2 \in DOMAIN e.inbox /\ b.inbox[i] = e.inbox[i + d2]
    BY DEF Less, Fewer
  <1>3. d1 + d2 \in Nat
    OBVIOUS
  <1>4. ASSUME NEW i \in DOMAIN a.inbox, a.inbox[i].for = c
        PROVE  i + (d1 + d2) \in DOMAIN e.inbox /\ a.inbox[i] = e.inbox[i + (d1 + d2)]
    <2>1. i \in Nat
      BY DEF PageType
    <2>2. i + (d1 + d2) = (i + d1) + d2
      BY <2>1
    <2>3. i + d1 \in DOMAIN b.inbox /\ a.inbox[i] = b.inbox[i + d1]
      BY <1>1, <1>4
    <2> QED BY <1>2, <1>4, <2>2, <2>3
  <1> QED BY <1>3, <1>4 DEF Fewer

\* Posting what the page itself waits for adds no request.
LEMMA PostedLess ==
    ASSUME NEW pg \in PageType, NEW w \in {Setup, Ping},
           NEW kind \in {"PING", "INITIALIZE_MESSAGE_BUS", "INIT_WALLET"}
    PROVE  Less(Posted(pg, kind, w), pg)
  <1> DEFINE m == [kind |-> kind, for |-> w]
  <1>1. m \in Message /\ m.for = w /\ w \notin Calls
    BY WorkerAssumption DEF Message, Waiter
  <1>2. pg.inbox \in Seq(Message)
    BY DEF PageType
  <1>3. ASSUME NEW c \in Calls PROVE Fewer(Append(pg.inbox, m), pg.inbox, c)
    <2>1. Fewer(pg.inbox, pg.inbox, c) /\ m.for # c
      BY <1>1, <1>2, FewerSame
    <2> QED BY <2>1, <1>1, <1>2, FewerAppend
  <1>4. Append(pg.inbox, m) \in Seq(Message)
    BY <1>1, <1>2
  <1>5. Posted(pg, kind, w) \in PageType
    BY <1>4 DEF Posted, PageType
  <1>6. Posted(pg, kind, w).inbox = Append(pg.inbox, m)
    BY DEF Posted, PageType
  <1> QED BY <1>3, <1>5, <1>6 DEF Less

\* Initialising the worker again adds no request.
LEMMA ReinitializedLess ==
    ASSUME NEW pg \in PageType PROVE Less(Reinitialized(pg), pg)
  <1>1. CASE pg.setup # "none"
    BY <1>1, LessSame DEF Reinitialized
  <1>2. CASE pg.setup = "none"
    <2> DEFINE new == [pg EXCEPT !.setup = "bus"]
    <2>1. new \in PageType /\ new.inbox = pg.inbox
      BY DEF PageType
    <2>2. Less(Posted(new, "INITIALIZE_MESSAGE_BUS", Setup), new)
      BY <2>1, PostedLess
    <2> HIDE DEF new
    <2>3. Less(Posted(new, "INITIALIZE_MESSAGE_BUS", Setup), pg)
      BY <2>1, <2>2 DEF Less
    <2> QED BY <2>3, <1>2 DEF Reinitialized, new
  <1> QED BY <1>1, <1>2

\* An idle call is one.
LEMMA IdleType ==
    ASSUME NEW outcome \in Outcome
    PROVE  /\ [IdleCall EXCEPT !.outcome = outcome] \in CallType
           /\ [IdleCall EXCEPT !.outcome = outcome].stage = "idle"
           /\ [IdleCall EXCEPT !.outcome = outcome].runs = 0
  BY WorkerAssumption DEF IdleCall, CallType, MaxRetries

\* The calls at a stage that is not "sent" are released.
LEMMA ReleasesCalls ==
    ASSUME Types, NEW p \in Pages, NEW from \in {"ping", "reinit"},
           NEW to \in {"reinit", "post"}, NEW outcome \in Outcome,
           call' = MovedOn(p, from, to) \/ call' = Ended(p, from, outcome)
    PROVE  /\ call' \in [Calls -> CallType]
           /\ \A c \in Calls : call'[c] = call[c] \/ Released(c)
  <1>1. \A c \in Calls : call'[c] \in {call[c], [call[c] EXCEPT !.stage = to],
                                       [IdleCall EXCEPT !.outcome = outcome]}
    BY DEF MovedOn, Ended
  <1>2. \A c \in Calls : call'[c] # call[c] => call[c].stage = from
    BY DEF MovedOn, Ended
  <1>3. call' = [c \in Calls |-> call'[c]]
    BY DEF MovedOn, Ended
  <1>4. ASSUME NEW c \in Calls
        PROVE  call'[c] \in CallType /\ (call'[c] = call[c] \/ Released(c))
    <2>1. call[c] \in CallType
      BY DEF Types
    <2>2. /\ [call[c] EXCEPT !.stage = to] \in CallType
          /\ [call[c] EXCEPT !.stage = to].stage = to
          /\ [call[c] EXCEPT !.stage = to].runs = call[c].runs
      BY <2>1 DEF CallType
    <2>3. call'[c] \in CallType
      BY <1>1, <2>1, <2>2, IdleType
    <2>4. call'[c] # call[c] => call'[c].stage # "sent"
      BY <1>1, <2>2, IdleType
    <2>5. call'[c].runs \in {0, call[c].runs}
      BY <1>1, <2>2, IdleType
    <2>6. call'[c] # call[c] => call[c].stage # "sent"
      BY <1>2
    <2> QED BY <2>3, <2>4, <2>5, <2>6 DEF Released
  <1> QED BY <1>3, <1>4

\* Steps that only release calls.
LEMMA OnceKept ==
    ASSUME Types, Types', \A c \in Calls : Once(c),
           \A c \in Calls : NoMore(c) /\ (call'[c] = call[c] \/ Released(c))
    PROVE  \A c \in Calls : Once(c)'
  BY Kept, ReleasedOnce

\* A setup's answer releases the calls that wait for it.
LEMMA SetupLess ==
    ASSUME Types, NEW p \in Pages, NEW pg \in PageType, NEW outcome \in Outcome,
           SetupAnswered(p, pg, outcome)
    PROVE  /\ page' = [page EXCEPT ![p] = page'[p]] /\ Less(page'[p], pg)
           /\ call' \in [Calls -> CallType]
           /\ \A c \in Calls : call'[c] = call[c] \/ Released(c)
  <1>1. page \in [Pages -> PageType] /\ call \in [Calls -> CallType]
    BY DEF Types
  <1>2. CASE outcome = "ok" /\ pg.setup = "bus" /\ UNCHANGED call
             /\ page' = [page EXCEPT
                    ![p] = Posted([pg EXCEPT !.setup = "wallet"], "INIT_WALLET", Setup)]
    <2> DEFINE new == [pg EXCEPT !.setup = "wallet"]
    <2>1. new \in PageType /\ new.inbox = pg.inbox
      BY DEF PageType
    <2>2. page'[p] = Posted(new, "INIT_WALLET", Setup)
      BY <1>1, <1>2
    <2>3. Less(page'[p], new)
      BY <2>1, <2>2, PostedLess
    <2>4. Less(page'[p], pg)
      BY <2>1, <2>3 DEF Less
    <2> QED BY <1>1, <1>2, <2>2, <2>4
  <1>3. CASE outcome = "ok" /\ call' = MovedOn(p, "reinit", "post")
             /\ page' = [page EXCEPT ![p] = [pg EXCEPT !.setup = "none", !.open = "yes"]]
    <2> DEFINE new == [pg EXCEPT !.setup = "none", !.open = "yes"]
    <2>1. new \in PageType /\ new.inbox = pg.inbox
      BY DEF PageType
    <2>2. Less(new, pg)
      BY <2>1, LessSame DEF Less
    <2>3. page'[p] = new
      BY <1>1, <1>3
    <2> QED BY <1>3, <2>2, <2>3, ReleasesCalls
  <1>4. CASE /\ page' = [page EXCEPT ![p] = [pg EXCEPT !.setup = "none",
                             !.open = IF @ = "creating" THEN "no" ELSE @]]
             /\ call' = Ended(p, "reinit", outcome)
    <2> DEFINE new == [pg EXCEPT !.setup = "none",
                             !.open = IF @ = "creating" THEN "no" ELSE @]
    <2>1. new \in PageType /\ new.inbox = pg.inbox
      BY DEF PageType
    <2>2. Less(new, pg)
      BY <2>1, LessSame DEF Less
    <2>3. page'[p] = new
      BY <1>1, <1>4
    <2> QED BY <1>4, <2>2, <2>3, ReleasesCalls
  <1> QED BY <1>2, <1>3, <1>4 DEF SetupAnswered

\* An answered call has ended, or is about to be repeated: then it was refused.
LEMMA CallLess ==
    ASSUME Types, NEW p \in Pages, NEW pg \in PageType, NEW w \in Calls,
           NEW outcome \in Outcome, CallAnswered(p, pg, w, outcome)
    PROVE  /\ page' = [page EXCEPT ![p] = page'[p]] /\ Less(page'[p], pg)
           /\ call' = [call EXCEPT ![w] = call'[w]] /\ call'[w] \in CallType
           /\ call'[w].stage # "sent"
           /\ \/ call'[w].runs = 0
              \/ outcome = "notInitialized" /\ call'[w].runs = call[w].runs
  <1>1. page \in [Pages -> PageType] /\ call \in [Calls -> CallType]
    BY DEF Types
  <1>2. CASE Retries(w, outcome)
    <2>1. page' = [page EXCEPT ![p] = Reinitialized(pg)] /\ outcome = "notInitialized"
          /\ call' = [call EXCEPT ![w].stage = "reinit", ![w].attempt = @ + 1]
          /\ call[w].attempt < MaxRetries
      BY <1>2 DEF CallAnswered, Retries
    <2>2. page'[p] = Reinitialized(pg)
      BY <1>1, <2>1
    <2>3. /\ call'[w] = [call[w] EXCEPT !.stage = "reinit", !.attempt = @ + 1]
          /\ call' = [call EXCEPT ![w] = call'[w]]
      BY <1>1, <2>1
    <2>4. call[w] \in CallType
      BY <1>1
    <2>5. call[w].attempt + 1 \in 0 .. MaxRetries
      BY <2>1, <2>4 DEF CallType, MaxRetries
    <2>6. call'[w] \in CallType /\ call'[w].stage = "reinit" /\ call'[w].runs = call[w].runs
      BY <2>3, <2>4, <2>5 DEF CallType
    <2> QED BY <2>1, <2>2, <2>3, <2>6, ReinitializedLess
  <1>3. CASE ~Retries(w, outcome)
    <2>1. /\ page' = [page EXCEPT ![p] = pg]
          /\ call' = [call EXCEPT ![w] = [IdleCall EXCEPT !.outcome = outcome]]
      BY <1>3 DEF CallAnswered
    <2>2. page'[p] = pg /\ call'[w] = [IdleCall EXCEPT !.outcome = outcome]
      BY <1>1, <2>1
    <2>3. page' = [page EXCEPT ![p] = page'[p]] /\ call' = [call EXCEPT ![w] = call'[w]]
      BY <2>1, <2>2
    <2>4. Less(page'[p], pg)
      BY <2>2, LessSame
    <2>5. call'[w] \in CallType /\ call'[w].stage = "idle" /\ call'[w].runs = 0
      BY <2>2, IdleType
    <2>6. call'[w].stage # "sent"
      BY <2>5
    <2> QED BY <2>3, <2>4, <2>5, <2>6
  <1> QED BY <1>2, <1>3

\* What any answer does to a page and to the calls.
Answered(p, pg, w, outcome) ==
    /\ page' = [page EXCEPT ![p] = page'[p]] /\ Less(page'[p], pg)
    /\ call' \in [Calls -> CallType]
    /\ \A c \in Calls : c # w => call'[c] = call[c] \/ Released(c)
    /\ w \in Calls => /\ call'[w].stage # "sent"
                      /\ \/ call'[w].runs = 0
                         \/ outcome = "notInitialized" /\ call'[w].runs = call[w].runs

LEMMA AnswerLess ==
    ASSUME Types, NEW p \in Pages, NEW pg \in PageType, NEW w \in Waiter,
           NEW outcome \in Outcome, Answer(p, pg, w, outcome)
    PROVE  Answered(p, pg, w, outcome)
  <1>1. page \in [Pages -> PageType] /\ call \in [Calls -> CallType]
    BY DEF Types
  <1>2. CASE w = Setup /\ SetupAnswered(p, pg, outcome)
    BY <1>2, SetupLess, WorkerAssumption DEF Answered
  <1>3. CASE w \in Calls /\ CallAnswered(p, pg, w, outcome)
    <2>1. /\ page' = [page EXCEPT ![p] = page'[p]] /\ Less(page'[p], pg)
          /\ call' = [call EXCEPT ![w] = call'[w]] /\ call'[w] \in CallType
          /\ call'[w].stage # "sent"
          /\ \/ call'[w].runs = 0
             \/ outcome = "notInitialized" /\ call'[w].runs = call[w].runs
      BY <1>3, CallLess
    <2>2. call' \in [Calls -> CallType] /\ \A c \in Calls : c # w => call'[c] = call[c]
      BY <1>1, <2>1
    <2> QED BY <2>1, <2>2 DEF Answered
  <1>4. CASE w = Nobody /\ page' = [page EXCEPT ![p] = pg] /\ UNCHANGED call
    <2>1. page'[p] = pg /\ w \notin Calls
      BY <1>1, <1>4, WorkerAssumption
    <2> QED BY <1>1, <1>4, <2>1, LessSame DEF Answered
  <1> QED BY <1>2, <1>3, <1>4 DEF Answer

-----------------------------------------------------------------------------
(* The steps.  First those that end a job, or take a message. *)

\* Only the answered page changes, and it has no more requests than before.
LEMMA AnsweredPages ==
    ASSUME Types, NEW p \in Pages, NEW pg \in PageType, Less(pg, page[p]),
           page' = [page EXCEPT ![p] = page'[p]], Less(page'[p], pg)
    PROVE  /\ page' \in [Pages -> PageType]
           /\ \A q \in Pages, c \in Calls : Fewer(page'[q].inbox, page[q].inbox, c)
  <1>1. page \in [Pages -> PageType] /\ page'[p] \in PageType
    BY DEF Types, Less
  <1>2. page' \in [Pages -> PageType] /\ \A q \in Pages : q # p => page'[q] = page[q]
    BY <1>1
  <1>3. Less(page'[p], page[p])
    BY <1>1, LessTrans
  <1>4. \A q \in Pages : Less(page'[q], page[q])
    BY <1>1, <1>2, <1>3, LessSame
  <1> QED BY <1>2, <1>4 DEF Less

\* A changed job is a job, and a call keeps or loses it.
LEMMA JobChanged ==
    ASSUME Types, NEW j \in Jobs, NEW x \in JobType, job' = [job EXCEPT ![j] = x],
           NEW c \in Calls, x.for = c => job[j].for = c /\ x.page = job[j].page
    PROVE  /\ job' \in [Jobs -> JobType]
           /\ \A k \in Jobs : job'[k].for = c => job[k].for = c /\ job'[k].page = job[k].page
  BY DEF Types

\* The job of a call is all that is left of it.
LEMMA OnlyJob ==
    ASSUME Types, NEW c \in Calls, Once(c), NEW j \in Jobs, job[j].for = c
    PROVE  /\ \A p \in Pages : \A i \in DOMAIN page[p].inbox : page[p].inbox[i].for # c
           /\ \A k \in Jobs : k # j => job[k].for # c
  <1>1. call[c].runs = 1
    BY DEF Once, JobHas
  <1>2. \A p \in Pages : \A i \in DOMAIN page[p].inbox : page[p].inbox[i].for # c
    BY <1>1 DEF Once, InboxHas, For
  <1> QED BY <1>2 DEF Once, JobHasOne

\* An answer to a job's sender, who is then not its sender any more.
LEMMA JobAnswered ==
    ASSUME OnceInv, NEW j \in Jobs, NEW x \in JobType, x.for = Nobody,
           job' = [job EXCEPT ![j] = x], handler' \in HandlerType,
           NEW outcome \in Outcome \ {"notInitialized"},
           Answer(job[j].page, page[job[j].page], job[j].for, outcome)
    PROVE  OnceInv'
  <1> DEFINE p == job[j].page
             w == job[j].for
  <1>1. Types /\ \A c \in Calls : Once(c)
    BY DEF OnceInv
  <1>2. p \in Pages /\ w \in Waiter /\ page[p] \in PageType
    BY <1>1 DEF Types, JobType
  <1>3. Less(page[p], page[p]) /\ Answered(p, page[p], w, outcome)
    BY <1>1, <1>2, LessSame, AnswerLess
  <1> HIDE DEF p, w
  <1>4. /\ page' \in [Pages -> PageType]
        /\ \A q \in Pages, c \in Calls : Fewer(page'[q].inbox, page[q].inbox, c)
    BY <1>1, <1>2, <1>3, AnsweredPages DEF Answered
  <1>5. Nobody \notin Calls
    BY WorkerAssumption
  <1>6. job' \in [Jobs -> JobType]
    BY <1>1 DEF Types
  <1>7. Types'
    BY <1>3, <1>4, <1>6 DEF Types, Answered
  <1>8. ASSUME NEW c \in Calls, c # w PROVE Once(c)'
    <2>1. NoMore(c)
      BY <1>1, <1>4, <1>5, JobChanged DEF NoMore
    <2>2. call'[c] = call[c] \/ Released(c)
      BY <1>3, <1>8 DEF Answered
    <2> QED BY <1>1, <1>7, <2>1, <2>2, Kept, ReleasedOnce
  <1>9. ASSUME NEW c \in Calls, c = w PROVE Once(c)'
    <2>1. /\ \A q \in Pages : \A i \in DOMAIN page[q].inbox : page[q].inbox[i].for # c
          /\ \A k \in Jobs : k # j => job[k].for # c
      BY <1>1, <1>9, OnlyJob DEF w
    <2>2. \A q \in Pages : \A i \in DOMAIN page'[q].inbox : page'[q].inbox[i].for # c
      BY <1>4, <1>9, <2>1 DEF Fewer
    <2>3. \A k \in Jobs : job'[k].for # c
      BY <1>1, <1>5, <1>9, <2>1 DEF Types
    <2>4. call'[c].stage # "sent" /\ call'[c].runs = 0
      BY <1>3, <1>9 DEF Answered
    <2> QED BY <1>9, <2>2, <2>3, <2>4, Gone
  <1>10. \A c \in Calls : Once(c)'
    BY <1>8, <1>9
  <1> QED BY <1>7, <1>10 DEF OnceInv

\* A job that goes on, or ends without an answer.
LEMMA JobGoesOn ==
    ASSUME OnceInv, NEW j \in Jobs, NEW x \in JobType,
           x.for # Nobody => x.for = job[j].for /\ x.page = job[j].page,
           job' = [job EXCEPT ![j] = x], handler' \in HandlerType,
           UNCHANGED <<page, call>>
    PROVE  OnceInv'
  <1>1. Types /\ \A c \in Calls : Once(c)
    BY DEF OnceInv
  <1>2. Types'
    BY <1>1 DEF Types
  <1>3. Nobody \notin Calls
    BY WorkerAssumption
  <1>4. \A p \in Pages : page'[p] = page[p] /\ page[p].inbox \in Seq(Message)
    BY <1>1 DEF Types, PageType
  <1>5. \A c \in Calls : NoMore(c)
    BY <1>1, <1>3, <1>4, JobChanged, FewerSame DEF NoMore
  <1>6. \A c \in Calls : Once(c)'
    BY <1>1, <1>2, <1>5, OnceKept
  <1> QED BY <1>2, <1>6 DEF OnceInv

\* The page whose first message was taken.
LEMMA RestLess ==
    ASSUME Types, NEW p \in Pages, page[p].inbox # <<>>
    PROVE  /\ Rest(p) \in PageType /\ Less(Rest(p), page[p])
           /\ Rest(p).inbox = Tail(page[p].inbox)
           /\ Sender(p) \in Waiter /\ Sender(p) = page[p].inbox[1].for
           /\ page[p].inbox \in Seq(Message) /\ 1 \in DOMAIN page[p].inbox
  <1>1. page[p] \in PageType
    BY DEF Types
  <1>2. page[p].inbox \in Seq(Message)
    BY <1>1 DEF PageType
  <1>3. 1 \in DOMAIN page[p].inbox /\ Head(page[p].inbox) = page[p].inbox[1]
        /\ page[p].inbox[1] \in Message
    BY <1>2
  <1>4. Tail(page[p].inbox) \in Seq(Message)
        /\ \A c \in Calls : Fewer(Tail(page[p].inbox), page[p].inbox, c)
    BY <1>2, FewerTail
  <1>5. Rest(p) \in PageType /\ Rest(p).inbox = Tail(page[p].inbox)
    BY <1>1, <1>4 DEF Rest, PageType
  <1>6. Less(Rest(p), page[p])
    BY <1>4, <1>5 DEF Less
  <1>7. Sender(p) \in Waiter /\ Sender(p) = page[p].inbox[1].for
    BY <1>3 DEF Sender, Message
  <1> QED BY <1>2, <1>3, <1>5, <1>6, <1>7

\* A request that is taken has not run, and is all that is left of its call.
LEMMA OnlyMessage ==
    ASSUME Types, NEW p \in Pages, page[p].inbox # <<>>,
           NEW c \in Calls, Once(c), Sender(p) = c
    PROVE  /\ p = PageOf[c] /\ call[c].stage = "sent" /\ call[c].runs = 0
           /\ Head(page[p].inbox).kind \in Requests
           /\ \A q \in Pages : q # p => \A i \in DOMAIN page[q].inbox : page[q].inbox[i].for # c
           /\ \A i \in DOMAIN Tail(page[p].inbox) : Tail(page[p].inbox)[i].for # c
           /\ \A j \in Jobs : job[j].for # c
  <1>1. /\ page[p].inbox \in Seq(Message) /\ 1 \in DOMAIN page[p].inbox
        /\ page[p].inbox[1].for = c
    BY RestLess
  <1>2. /\ p = PageOf[c] /\ call[c].stage = "sent" /\ call[c].runs = 0
        /\ page[p].inbox[1].kind \in Requests
        /\ \A q \in Pages : q # p => \A i \in DOMAIN page[q].inbox : page[q].inbox[i].for # c
    BY <1>1 DEF Once, InboxHas, For
  <1>3. Head(page[p].inbox) = page[p].inbox[1]
    BY <1>1
  <1>4. ASSUME NEW i \in DOMAIN Tail(page[p].inbox) PROVE Tail(page[p].inbox)[i].for # c
    <2>1. /\ i \in Nat /\ i + 1 \in DOMAIN page[p].inbox /\ i + 1 # 1
          /\ Tail(page[p].inbox)[i] = page[p].inbox[i + 1]
      BY <1>1
    <2> QED BY <1>1, <2>1 DEF Once, InboxHasOne, For
  <1>5. \A j \in Jobs : job[j].for # c
    BY <1>2 DEF Once, JobHas
  <1> QED BY <1>2, <1>3, <1>4, <1>5

\* A message that is answered at once.
LEMMA MessageAnswered ==
    ASSUME OnceInv, NEW p \in Pages, page[p].inbox # <<>>, NEW outcome \in Outcome,
           Answer(p, Rest(p), Sender(p), outcome), job' = job, handler' \in HandlerType
    PROVE  OnceInv'
  <1> DEFINE w == Sender(p)
  <1>1. Types /\ \A c \in Calls : Once(c)
    BY DEF OnceInv
  <1>2. Rest(p) \in PageType /\ Less(Rest(p), page[p]) /\ w \in Waiter
        /\ Rest(p).inbox = Tail(page[p].inbox)
    BY <1>1, RestLess
  <1>3. Answered(p, Rest(p), w, outcome)
    BY <1>1, <1>2, AnswerLess
  <1> HIDE DEF w
  <1>4. /\ page' \in [Pages -> PageType]
        /\ \A q \in Pages, c \in Calls : Fewer(page'[q].inbox, page[q].inbox, c)
    BY <1>1, <1>2, <1>3, AnsweredPages DEF Answered
  <1>5. Types'
    BY <1>1, <1>3, <1>4 DEF Types, Answered
  <1>6. ASSUME NEW c \in Calls, c # w PROVE Once(c)'
    <2>1. NoMore(c)
      BY <1>4 DEF NoMore
    <2>2. call'[c] = call[c] \/ Released(c)
      BY <1>3, <1>6 DEF Answered
    <2> QED BY <1>1, <1>5, <2>1, <2>2, Kept, ReleasedOnce
  <1>7. ASSUME NEW c \in Calls, c = w PROVE Once(c)'
    <2>1. /\ call[c].runs = 0
          /\ \A q \in Pages : q # p => \A i \in DOMAIN page[q].inbox : page[q].inbox[i].for # c
          /\ \A i \in DOMAIN Rest(p).inbox : Rest(p).inbox[i].for # c
          /\ \A j \in Jobs : job'[j].for # c
      BY <1>1, <1>2, <1>7, OnlyMessage DEF w
    <2>2. \A q \in Pages : q # p => page'[q] = page[q]
      BY <1>1, <1>3 DEF Answered, Types
    <2>3. \A i \in DOMAIN page'[p].inbox : page'[p].inbox[i].for # c
      BY <1>3, <2>1 DEF Answered, Less, Fewer
    <2>4. \A q \in Pages : \A i \in DOMAIN page'[q].inbox : page'[q].inbox[i].for # c
      BY <2>1, <2>2, <2>3
    <2>5. call'[c].stage # "sent" /\ call'[c].runs = 0
      BY <1>3, <1>7, <2>1 DEF Answered
    <2> QED BY <2>1, <2>4, <2>5, Gone
  <1>8. \A c \in Calls : Once(c)'
    BY <1>6, <1>7
  <1> QED BY <1>5, <1>8 DEF OnceInv

\* A step of a page that posts no request, and at most releases calls.
LEMMA PageChanged ==
    ASSUME OnceInv, NEW p \in Pages,
           page' = [page EXCEPT ![p] = page'[p]], Less(page'[p], page[p]),
           call' \in [Calls -> CallType],
           \A c \in Calls : call'[c] = call[c] \/ Released(c),
           job' \in [Jobs -> JobType],
           \A j \in Jobs, c \in Calls :
               job'[j].for = c => job[j].for = c /\ job'[j].page = job[j].page,
           handler' \in HandlerType
    PROVE  OnceInv'
  <1>1. Types /\ \A c \in Calls : Once(c)
    BY DEF OnceInv
  <1>2. page[p] \in PageType /\ Less(page[p], page[p])
    BY <1>1, LessSame DEF Types
  <1>3. /\ page' \in [Pages -> PageType]
        /\ \A q \in Pages, c \in Calls : Fewer(page'[q].inbox, page[q].inbox, c)
    BY <1>1, <1>2, AnsweredPages
  <1>4. Types'
    BY <1>1, <1>3 DEF Types
  <1>5. \A c \in Calls : NoMore(c)
    BY <1>3 DEF NoMore
  <1>6. \A c \in Calls : Once(c)'
    BY <1>1, <1>4, <1>5, OnceKept
  <1> QED BY <1>4, <1>6 DEF OnceInv

\* A message that is not a request is taken by a job.
LEMMA SetupTaken ==
    ASSUME OnceInv, NEW p \in Pages, page[p].inbox # <<>>,
           Head(page[p].inbox).kind \notin {"read", "clear"},
           page' = [page EXCEPT ![p] = Rest(p)], call' = call,
           NEW j \in Jobs, NEW x \in JobType, x.for = Sender(p),
           job' = [job EXCEPT ![j] = x], handler' \in HandlerType
    PROVE  OnceInv'
  <1>1. Types /\ \A c \in Calls : Once(c)
    BY DEF OnceInv
  <1>2. Sender(p) \notin Calls
    BY <1>1, OnlyMessage, WorkerAssumption
  <1>3. /\ job' \in [Jobs -> JobType]
        /\ \A k \in Jobs, c \in Calls :
               job'[k].for = c => job[k].for = c /\ job'[k].page = job[k].page
    BY <1>1, <1>2 DEF Types
  <1>4. page'[p] = Rest(p) /\ Rest(p) \in PageType
    BY <1>1, RestLess DEF Types
  <1>5. page' = [page EXCEPT ![p] = page'[p]] /\ Less(page'[p], page[p])
    BY <1>1, <1>4, RestLess
  <1>6. call' \in [Calls -> CallType]
    BY <1>1 DEF Types
  <1> QED BY <1>3, <1>5, <1>6, PageChanged

\* A request is routed to the handler: now it has run, and its job is what is
\* left of it.
LEMMA RequestTaken ==
    ASSUME OnceInv, NEW p \in Pages, page[p].inbox # <<>>,
           page' = [page EXCEPT ![p] = Rest(p)],
           call' = IF Sender(p) \in Calls THEN [call EXCEPT ![Sender(p)].runs = @ + 1]
                   ELSE call,
           NEW j \in Jobs, NEW x \in JobType, x.for = Sender(p), x.page = p,
           job' = [job EXCEPT ![j] = x], handler' \in HandlerType
    PROVE  OnceInv'
  <1> DEFINE w == Sender(p)
  <1>1. Types /\ \A c \in Calls : Once(c)
    BY DEF OnceInv
  <1>2. /\ Rest(p) \in PageType /\ Less(Rest(p), page[p])
        /\ Rest(p).inbox = Tail(page[p].inbox)
    BY <1>1, RestLess
  <1>3. page'[p] = Rest(p) /\ \A q \in Pages : q # p => page'[q] = page[q]
    BY <1>1 DEF Types
  <1>4. page' = [page EXCEPT ![p] = page'[p]] /\ Less(page'[p], Rest(p))
    BY <1>2, <1>3, LessSame
  <1>5. /\ page' \in [Pages -> PageType]
        /\ \A q \in Pages, c \in Calls : Fewer(page'[q].inbox, page[q].inbox, c)
    BY <1>1, <1>2, <1>4, AnsweredPages
  <1>6. job' \in [Jobs -> JobType]
    BY <1>1 DEF Types
  <1>7. /\ \A c \in Calls : c # w => call'[c] = call[c]
        /\ w \in Calls => call'[w] = [call[w] EXCEPT !.runs = @ + 1]
    <2>1. call \in [Calls -> CallType]
      BY <1>1 DEF Types
    <2>2. CASE w \in Calls
      BY <2>1, <2>2
    <2>3. CASE w \notin Calls
      BY <2>1, <2>3
    <2> QED BY <2>2, <2>3
  <1>8. call' \in [Calls -> CallType]
    <2>1. call \in [Calls -> CallType]
      BY <1>1 DEF Types
    <2>2. CASE w \in Calls
      <3>1. call' = [call EXCEPT ![w] = call'[w]] /\ call[w] \in CallType
        BY <2>1, <2>2
      <3>2. call'[w] \in CallType
        BY <1>7, <2>2, <3>1 DEF CallType
      <3> QED BY <2>1, <3>1, <3>2
    <2>3. CASE w \notin Calls
      BY <2>1, <2>3
    <2> QED BY <2>2, <2>3
  <1>9. Types'
    BY <1>5, <1>6, <1>8 DEF Types
  <1> HIDE DEF w
  <1>10. ASSUME NEW c \in Calls, c # w PROVE Once(c)'
    <2>1. \A k \in Jobs : job'[k].for = c => job[k].for = c /\ job'[k].page = job[k].page
      BY <1>1, <1>10, JobChanged DEF w
    <2>2. NoMore(c) /\ call'[c] = call[c]
      BY <1>5, <1>7, <1>10, <2>1 DEF NoMore
    <2> QED BY <1>1, <1>9, <2>2, Kept
  <1>11. ASSUME NEW c \in Calls, c = w PROVE Once(c)'
    <2>1. /\ p = PageOf[c] /\ call[c].stage = "sent" /\ call[c].runs = 0
          /\ \A q \in Pages : q # p => \A i \in DOMAIN page[q].inbox : page[q].inbox[i].for # c
          /\ \A i \in DOMAIN Rest(p).inbox : Rest(p).inbox[i].for # c
          /\ \A k \in Jobs : job[k].for # c
      BY <1>1, <1>2, <1>11, OnlyMessage DEF w
    <2>2. \A q \in Pages : \A i \in DOMAIN page'[q].inbox : page'[q].inbox[i].for # c
      BY <1>3, <2>1
    <2>3. job'[j] = x /\ \A k \in Jobs : k # j => job'[k] = job[k]
      BY <1>1 DEF Types
    <2>4. call'[c].stage = "sent" /\ call'[c].runs = 1
      <3>1. call[c] \in CallType
        BY <1>1 DEF Types
      <3> QED BY <1>7, <1>11, <2>1, <3>1 DEF CallType
    <2>5. InboxHas(c)' /\ InboxHasOne(c)'
      BY <2>2 DEF InboxHas, InboxHasOne, For
    <2>6. JobHas(c)' /\ JobHasOne(c)'
      BY <2>1, <2>3, <2>4 DEF JobHas, JobHasOne
    <2>7. Runs(c)'
      BY <2>4 DEF Runs
    <2> QED BY <2>5, <2>6, <2>7 DEF Once
  <1>12. \A c \in Calls : Once(c)'
    BY <1>10, <1>11
  <1> QED BY <1>9, <1>12 DEF OnceInv

-----------------------------------------------------------------------------
(* The steps of the pages. *)

\* A page that stops listening for an answer.
LEMMA DisownedLess ==
    ASSUME NEW pg \in PageType, NEW w \in Waiter
    PROVE  LET new == [pg EXCEPT !.inbox = Disowned(@, w)] IN
           /\ new \in PageType /\ Less(new, pg)
           /\ w # Nobody => \A i \in DOMAIN new.inbox : new.inbox[i].for # w
  <1> DEFINE new == [pg EXCEPT !.inbox = Disowned(@, w)]
  <1>1. pg.inbox \in Seq(Message)
    BY DEF PageType
  <1>2. /\ Disowned(pg.inbox, w) \in Seq(Message)
        /\ \A c \in Calls : Fewer(Disowned(pg.inbox, w), pg.inbox, c)
        /\ w # Nobody => \A i \in DOMAIN Disowned(pg.inbox, w) :
                             Disowned(pg.inbox, w)[i].for # w
    BY <1>1, DisownedInbox
  <1>3. new \in PageType /\ new.inbox = Disowned(pg.inbox, w)
    BY <1>2 DEF PageType
  <1> HIDE DEF new
  <1>4. Less(new, pg) /\ (w # Nobody => \A i \in DOMAIN new.inbox : new.inbox[i].for # w)
    BY <1>2, <1>3 DEF Less
  <1> QED BY <1>3, <1>4 DEF new

\* Jobs that are disowned are nobody's.
LEMMA DisownedJobs ==
    ASSUME Types, NEW p \in Pages, NEW w \in Waiter, DisownJobs(p, w)
    PROVE  /\ job' \in [Jobs -> JobType]
           /\ \A j \in Jobs, c \in Calls :
                  job'[j].for = c => job[j].for = c /\ job'[j].page = job[j].page
           /\ w # Nobody => \A j \in Jobs : job[j].page = p => job'[j].for # w
  <1>1. Nobody \notin Calls /\ Nobody \in Waiter
    BY WorkerAssumption DEF Waiter
  <1>2. \A x \in JobType : [x EXCEPT !.for = Nobody] \in JobType
    BY <1>1 DEF JobType
  <1>3. \A j \in Jobs : job[j] \in JobType /\ job'[j] =
            IF job[j].page = p /\ job[j].for = w THEN [job[j] EXCEPT !.for = Nobody] ELSE job[j]
    BY DEF DisownJobs, Types
  <1>4. job' \in [Jobs -> JobType]
    BY <1>2, <1>3 DEF DisownJobs
  <1>5. ASSUME NEW j \in Jobs
        PROVE  /\ \A c \in Calls :
                      job'[j].for = c => job[j].for = c /\ job'[j].page = job[j].page
               /\ w # Nobody /\ job[j].page = p => job'[j].for # w
    BY <1>1, <1>3 DEF JobType
  <1> QED BY <1>4, <1>5

\* create() posts an initialisation.
LEMMA CreateOnce == ASSUME OnceInv, NEW p \in Pages, Create(p) PROVE OnceInv'
  <1> DEFINE new == [page[p] EXCEPT !.open = "creating"]
  <1>1. Types /\ page[p] \in PageType
    BY DEF OnceInv, Types
  <1>2. new \in PageType /\ new.inbox = page[p].inbox
    BY <1>1 DEF PageType
  <1>3. page' = [page EXCEPT ![p] = Reinitialized(new)] /\ page'[p] = Reinitialized(new)
    BY <1>1 DEF Create, Types
  <1> HIDE DEF new
  <1>4. page' = [page EXCEPT ![p] = page'[p]] /\ Less(page'[p], page[p])
    BY <1>2, <1>3, ReinitializedLess DEF Less
  <1>5. UNCHANGED <<call, job, handler>>
    BY DEF Create, worker
  <1>6. /\ call' \in [Calls -> CallType] /\ job' \in [Jobs -> JobType]
        /\ handler' \in HandlerType
    BY <1>1, <1>5 DEF Types
  <1> QED BY <1>4, <1>5, <1>6, PageChanged

\* A call begins with a ping.
LEMMA BeginOnce ==
    ASSUME OnceInv, NEW c \in Calls, NEW request \in Requests, Begin(c, request)
    PROVE  OnceInv'
  <1> DEFINE p == PageOf[c]
             x == [IdleCall EXCEPT !.stage = "ping", !.request = request]
             new == [page[p] EXCEPT !.pinging = TRUE]
  <1>1. Types /\ p \in Pages /\ page[p] \in PageType /\ call \in [Calls -> CallType]
    BY WorkerAssumption DEF OnceInv, Types
  <1>2. x \in CallType /\ x.stage = "ping" /\ x.runs = 0
    <2>1. IdleCall \in CallType /\ IdleCall.runs = 0
      BY WorkerAssumption DEF IdleCall, CallType, MaxRetries, Outcome
    <2> QED BY <2>1 DEF CallType
  <1>3. call' = [call EXCEPT ![c] = x] /\ call[c].stage = "idle"
    BY DEF Begin
  <1>4. call'[c] = x /\ \A d \in Calls : d # c => call'[d] = call[d]
    BY <1>1, <1>3
  <1> HIDE DEF x
  <1>5. Released(c)
    BY <1>2, <1>3, <1>4 DEF Released
  <1>6. call' \in [Calls -> CallType]
    BY <1>1, <1>2, <1>3
  <1>7. page' = [page EXCEPT ![p] = page'[p]] /\ Less(page'[p], page[p])
    <2>1. CASE page' = page
      BY <1>1, <2>1, LessSame DEF Types
    <2>2. CASE page' = [page EXCEPT ![p] = Posted(new, "PING", Ping)]
      <3>1. new \in PageType /\ new.inbox = page[p].inbox
        BY <1>1 DEF PageType
      <3>2. page'[p] = Posted(new, "PING", Ping)
        BY <1>1, <2>2 DEF Types
      <3> HIDE DEF new
      <3>3. Less(page'[p], page[p])
        BY <3>1, <3>2, PostedLess DEF Less
      <3> QED BY <2>2, <3>2, <3>3
    <2> QED BY <2>1, <2>2 DEF Begin
  <1>8. UNCHANGED <<job, handler>>
    BY DEF Begin, worker
  <1>9. job' \in [Jobs -> JobType] /\ handler' \in HandlerType
    BY <1>1, <1>8 DEF Types
  <1> QED BY <1>1, <1>4, <1>5, <1>6, <1>7, <1>8, <1>9, PageChanged

\* The request is posted: its message is what there is of the call.
LEMMA PostOnce == ASSUME OnceInv, NEW c \in Calls, Post(c) PROVE OnceInv'
  <1> DEFINE p == PageOf[c]
             m == [kind |-> call[c].request, for |-> c]
             s == page[p].inbox
  <1>1. Types /\ p \in Pages /\ page[p] \in PageType /\ call[c] \in CallType
        /\ \A d \in Calls : Once(d)
    BY WorkerAssumption DEF OnceInv, Types
  <1>2. /\ call[c].stage = "post" /\ call' = [call EXCEPT ![c].stage = "sent"]
        /\ page' = [page EXCEPT ![p] = Posted(@, call[c].request, c)]
        /\ UNCHANGED <<job, handler>>
    BY DEF Post, worker
  <1>3. m \in Message /\ m.for = c /\ m.kind \in Requests
    BY <1>1 DEF Message, Waiter, CallType
  <1>4. s \in Seq(Message)
    BY <1>1 DEF PageType
  <1> HIDE DEF s, m
  <1>5. Append(s, m) \in Seq(Message)
    BY <1>3, <1>4
  <1>6. page'[p] = [page[p] EXCEPT !.inbox = Append(s, m)]
        /\ \A q \in Pages : q # p => page'[q] = page[q]
    BY <1>1, <1>2 DEF Posted, Types, s, m
  <1>7. page'[p] \in PageType /\ page'[p].inbox = Append(s, m)
    BY <1>1, <1>5, <1>6 DEF PageType
  <1>8. page' \in [Pages -> PageType]
    BY <1>1, <1>2, <1>7 DEF Types
  <1>9. /\ call'[c] = [call[c] EXCEPT !.stage = "sent"]
        /\ \A d \in Calls : d # c => call'[d] = call[d]
    BY <1>1, <1>2 DEF Types
  <1>10. call'[c] \in CallType /\ call'[c].stage = "sent" /\ call'[c].runs = call[c].runs
    BY <1>1, <1>9 DEF CallType
  <1>11. call' \in [Calls -> CallType]
    BY <1>1, <1>2, <1>10 DEF Types
  <1>12. Types'
    BY <1>1, <1>2, <1>8, <1>11 DEF Types
  <1>13. ASSUME NEW d \in Calls, d # c PROVE Once(d)'
    <2>1. Fewer(Append(s, m), s, d)
      BY <1>3, <1>4, <1>13, FewerSame, FewerAppend
    <2>2. \A q \in Pages : q # p => Fewer(page'[q].inbox, page[q].inbox, d)
      <3>1. \A q \in Pages : page[q].inbox \in Seq(Message)
        BY <1>1 DEF Types, PageType
      <3> QED BY <1>6, <3>1, FewerSame
    <2>3. NoMore(d)
      BY <1>2, <1>7, <2>1, <2>2 DEF NoMore, s
    <2> QED BY <1>1, <1>9, <1>12, <1>13, <2>3, Kept
  <1>14. Once(c)'
    <2>1. /\ \A q \in Pages : \A i \in DOMAIN page[q].inbox : page[q].inbox[i].for # c
          /\ \A j \in Jobs : job[j].for # c
          /\ call[c].runs = 0
      BY <1>1, <1>2 DEF Once, InboxHas, JobHas, Runs, For
    <2>2. \A i \in DOMAIN page'[p].inbox : page'[p].inbox[i].for = c =>
              i = Len(s) + 1 /\ page'[p].inbox[i] = m
      <3>1. \A i \in DOMAIN s : s[i].for # c
        BY <1>1, <2>1 DEF s
      <3>2. \A i \in DOMAIN Append(s, m) : Append(s, m)[i].for = c =>
                i = Len(s) + 1 /\ Append(s, m)[i] = m
        BY <1>3, <1>4, <3>1
      <3> QED BY <1>7, <3>2
    <2>3. \A q \in Pages : q # p => \A i \in DOMAIN page'[q].inbox : page'[q].inbox[i].for # c
      BY <1>6, <2>1
    <2>4. InboxHas(c)'
      BY <1>3, <1>10, <2>1, <2>2, <2>3 DEF InboxHas, For
    <2>5. InboxHasOne(c)'
      BY <2>2, <2>3 DEF InboxHasOne, For
    <2>6. JobHas(c)' /\ JobHasOne(c)'
      BY <1>2, <2>1 DEF JobHas, JobHasOne
    <2>7. Runs(c)'
      BY <1>10, <2>1 DEF Runs
    <2> QED BY <2>4, <2>5, <2>6, <2>7 DEF Once
  <1>15. \A d \in Calls : Once(d)'
    BY <1>13, <1>14
  <1> QED BY <1>12, <1>15 DEF OnceInv

\* No PONG: the page initialises the worker again.
LEMMA PingTimesOutOnce ==
    ASSUME OnceInv, NEW p \in Pages, PingTimesOut(p) PROVE OnceInv'
  <1> DEFINE mute == [page[p] EXCEPT !.inbox = Disowned(@, Ping)]
             new == Unanswered(p)
  <1>1. Types /\ page[p] \in PageType
    BY DEF OnceInv, Types
  <1>2. mute \in PageType /\ Less(mute, page[p])
    BY <1>1, DisownedLess DEF Waiter
  <1>3. new \in PageType /\ new.inbox = mute.inbox
    BY <1>1, <1>2 DEF PageType, Unanswered
  <1>4. page' = [page EXCEPT ![p] = Reinitialized(new)]
    BY DEF PingTimesOut
  <1>5. page'[p] = Reinitialized(new)
    BY <1>1, <1>4 DEF Types
  <1> HIDE DEF new, mute
  <1>6. Less(new, page[p])
    BY <1>2, <1>3 DEF Less
  <1>7. page' = [page EXCEPT ![p] = page'[p]] /\ Less(page'[p], page[p])
    <2>1. Less(page'[p], new)
      BY <1>3, <1>5, ReinitializedLess
    <2>2. page'[p] \in PageType
      BY <2>1 DEF Less
    <2>3. Less(page'[p], page[p])
      BY <1>1, <1>3, <1>6, <2>1, <2>2, LessTrans
    <2> QED BY <1>4, <1>5, <2>3
  <1>8. /\ call' \in [Calls -> CallType]
        /\ \A c \in Calls : call'[c] = call[c] \/ Released(c)
    <2>1. call' = MovedOn(p, "ping", "reinit")
      BY DEF PingTimesOut
    <2> QED BY <1>1, <2>1, ReleasesCalls DEF Outcome
  <1>9. UNCHANGED <<job, handler>>
    BY DEF PingTimesOut, worker
  <1>10. job' \in [Jobs -> JobType] /\ handler' \in HandlerType
    BY <1>1, <1>9 DEF Types
  <1> QED BY <1>7, <1>8, <1>9, <1>10, PageChanged

\* An initialisation takes too long.
LEMMA SetupTimesOutOnce ==
    ASSUME OnceInv, NEW p \in Pages, SetupTimesOut(p) PROVE OnceInv'
  <1> DEFINE mute == [page[p] EXCEPT !.inbox = Disowned(@, Setup)]
  <1>1. Types /\ page[p] \in PageType
    BY DEF OnceInv, Types
  <1>2. mute \in PageType /\ Less(mute, page[p])
    BY <1>1, DisownedLess DEF Waiter
  <1>3. SetupAnswered(p, mute, "timeout") /\ DisownJobs(p, Setup) /\ UNCHANGED handler
    BY DEF SetupTimesOut
  <1> HIDE DEF mute
  <1>4. /\ page' = [page EXCEPT ![p] = page'[p]] /\ Less(page'[p], mute)
        /\ call' \in [Calls -> CallType]
        /\ \A c \in Calls : call'[c] = call[c] \/ Released(c)
    BY <1>1, <1>2, <1>3, SetupLess DEF Outcome
  <1>5. Less(page'[p], page[p])
    <2>1. page'[p] \in PageType
      BY <1>4 DEF Less
    <2> QED BY <1>1, <1>2, <1>4, <2>1, LessTrans
  <1>6. /\ job' \in [Jobs -> JobType]
        /\ \A j \in Jobs, c \in Calls :
               job'[j].for = c => job[j].for = c /\ job'[j].page = job[j].page
    BY <1>1, <1>3, DisownedJobs DEF Waiter
  <1>7. handler' \in HandlerType
    BY <1>1, <1>3 DEF Types
  <1> QED BY <1>4, <1>5, <1>6, <1>7, PageChanged

\* A request takes too long: its message or its job is nobody's from now on.
LEMMA CallTimesOutOnce ==
    ASSUME OnceInv, NEW c \in Calls, CallTimesOut(c) PROVE OnceInv'
  <1> DEFINE p == PageOf[c]
             mute == [page[p] EXCEPT !.inbox = Disowned(@, c)]
  <1>1. Types /\ p \in Pages /\ page[p] \in PageType /\ c \in Waiter /\ c # Nobody
        /\ \A d \in Calls : Once(d)
    BY WorkerAssumption DEF OnceInv, Types, Waiter
  <1>2. /\ mute \in PageType /\ Less(mute, page[p])
        /\ \A i \in DOMAIN mute.inbox : mute.inbox[i].for # c
    BY <1>1, DisownedLess
  <1>3. CallAnswered(p, mute, c, "timeout") /\ DisownJobs(p, c) /\ UNCHANGED handler
    BY DEF CallTimesOut
  <1> HIDE DEF mute
  <1>4. /\ page' = [page EXCEPT ![p] = page'[p]] /\ Less(page'[p], mute)
        /\ call' = [call EXCEPT ![c] = call'[c]] /\ call'[c] \in CallType
        /\ call'[c].stage # "sent" /\ call'[c].runs = 0
    BY <1>1, <1>2, <1>3, CallLess DEF Outcome
  <1>5. /\ page' \in [Pages -> PageType]
        /\ \A q \in Pages, d \in Calls : Fewer(page'[q].inbox, page[q].inbox, d)
    BY <1>1, <1>2, <1>4, AnsweredPages
  <1>6. /\ job' \in [Jobs -> JobType]
        /\ \A j \in Jobs, d \in Calls :
               job'[j].for = d => job[j].for = d /\ job'[j].page = job[j].page
        /\ \A j \in Jobs : job[j].page = p => job'[j].for # c
    BY <1>1, <1>3, DisownedJobs
  <1>7. call' \in [Calls -> CallType] /\ \A d \in Calls : d # c => call'[d] = call[d]
    BY <1>1, <1>4 DEF Types
  <1>8. Types'
    BY <1>1, <1>3, <1>5, <1>6, <1>7 DEF Types
  <1>9. ASSUME NEW d \in Calls, d # c PROVE Once(d)'
    BY <1>1, <1>5, <1>6, <1>7, <1>8, <1>9, Kept DEF NoMore
  <1>10. Once(c)'
    <2>1. \A q \in Pages : q # p => \A i \in DOMAIN page[q].inbox : page[q].inbox[i].for # c
      BY <1>1 DEF Once, InboxHas, For
    <2>2. \A q \in Pages : q # p => page'[q] = page[q]
      BY <1>1, <1>4 DEF Types
    <2>3. \A i \in DOMAIN page'[p].inbox : page'[p].inbox[i].for # c
      BY <1>2, <1>4 DEF Less, Fewer
    <2>4. \A q \in Pages : \A i \in DOMAIN page'[q].inbox : page'[q].inbox[i].for # c
      BY <2>1, <2>2, <2>3
    <2>5. \A j \in Jobs : job'[j].for # c
      BY <1>1, <1>6 DEF Once, JobHas
    <2> QED BY <1>4, <2>4, <2>5, Gone
  <1>11. \A d \in Calls : Once(d)'
    BY <1>9, <1>10
  <1> QED BY <1>8, <1>11 DEF OnceInv

\* A closed page forgets its calls; nobody waits for what it posted.
LEMMA CloseOnce == ASSUME OnceInv, NEW p \in Pages, Close(p) PROVE OnceInv'
  <1> DEFINE t == [i \in DOMAIN page[p].inbox |-> [page[p].inbox[i] EXCEPT !.for = Nobody]]
  <1>1. Types /\ page[p] \in PageType /\ Nobody \in Waiter /\ Nobody \notin Calls
        /\ \A c \in Calls : Once(c)
    BY WorkerAssumption DEF OnceInv, Types, Waiter
  <1>2. t \in Seq(Message) /\ \A i \in DOMAIN t : t[i].for = Nobody
    <2>1. \A m \in Message : [m EXCEPT !.for = Nobody] \in Message
                             /\ [m EXCEPT !.for = Nobody].for = Nobody
      BY <1>1 DEF Message
    <2>2. page[p].inbox \in Seq(Message)
      BY <1>1 DEF PageType
    <2> QED BY <2>1, <2>2
  <1>3. /\ page' = [page EXCEPT ![p] = [NewPage EXCEPT !.inbox = t]]
        /\ call' = [c \in Calls |-> IF PageOf[c] = p THEN IdleCall ELSE call[c]]
        /\ job' = [j \in Jobs |-> IF job[j].page = p THEN [job[j] EXCEPT !.for = Nobody]
                                  ELSE job[j]]
        /\ UNCHANGED handler
    BY DEF Close
  <1> HIDE DEF t
  <1>4. [NewPage EXCEPT !.inbox = t] \in PageType /\ [NewPage EXCEPT !.inbox = t].inbox = t
    BY <1>2 DEF NewPage, PageType
  <1>5. /\ page'[p].inbox = t /\ page' \in [Pages -> PageType]
        /\ \A q \in Pages : q # p => page'[q] = page[q]
    BY <1>1, <1>3, <1>4 DEF Types
  <1>6. IdleCall \in CallType /\ IdleCall.stage = "idle" /\ IdleCall.runs = 0
    BY WorkerAssumption DEF IdleCall, CallType, MaxRetries, Outcome
  <1>7. call' \in [Calls -> CallType]
        /\ \A c \in Calls : call'[c] = IF PageOf[c] = p THEN IdleCall ELSE call[c]
    BY <1>1, <1>3, <1>6 DEF Types
  <1>8. ASSUME NEW j \in Jobs
        PROVE  /\ job'[j] \in JobType
               /\ \A c \in Calls : job'[j].for = c =>
                      job[j].for = c /\ job'[j].page = job[j].page /\ job[j].page # p
    <2>1. job[j] \in JobType
      BY <1>1 DEF Types
    <2> QED BY <1>1, <1>3, <2>1 DEF JobType
  <1>9. job' \in [Jobs -> JobType]
    BY <1>3, <1>8
  <1>10. Types'
    BY <1>1, <1>3, <1>5, <1>7, <1>9 DEF Types
  <1>11. ASSUME NEW c \in Calls, PageOf[c] # p PROVE Once(c)'
    <2>1. \A q \in Pages : page[q].inbox \in Seq(Message)
      BY <1>1 DEF Types, PageType
    <2>2. \A q \in Pages : q # p => Fewer(page'[q].inbox, page[q].inbox, c)
      BY <1>5, <2>1, FewerSame
    <2>3. Fewer(t, page[p].inbox, c)
      <3>1. 0 \in Nat /\ \A i \in DOMAIN t : t[i].for # c
        BY <1>1, <1>2
      <3> QED BY <3>1 DEF Fewer
    <2>4. NoMore(c)
      BY <1>5, <1>8, <2>2, <2>3 DEF NoMore
    <2> QED BY <1>1, <1>7, <1>10, <1>11, <2>4, Kept
  <1>12. ASSUME NEW c \in Calls, PageOf[c] = p PROVE Once(c)'
    <2>1. \A q \in Pages : q # p => \A i \in DOMAIN page[q].inbox : page[q].inbox[i].for # c
      BY <1>1, <1>12 DEF Once, InboxHas, For
    <2>2. \A q \in Pages : \A i \in DOMAIN page'[q].inbox : page'[q].inbox[i].for # c
      BY <1>1, <1>2, <1>5, <2>1
    <2>3. \A j \in Jobs : job'[j].for # c
      BY <1>1, <1>8, <1>12 DEF Once, JobHas
    <2>4. call'[c].stage # "sent" /\ call'[c].runs = 0
      BY <1>6, <1>7, <1>12
    <2> QED BY <2>2, <2>3, <2>4, Gone
  <1>13. \A c \in Calls : Once(c)'
    BY <1>11, <1>12
  <1> QED BY <1>10, <1>13 DEF OnceInv

\* A killed worker leaves no job, and perhaps no message.
LEMMA KillOnce == ASSUME OnceInv, Kill PROVE OnceInv'
  <1>1. Types /\ \A c \in Calls : Once(c)
    BY DEF OnceInv
  <1>2. /\ UNCHANGED call /\ job' = [j \in Jobs |-> IdleJob] /\ handler' = NewHandler
        /\ \/ page' = page
           \/ page' = [p \in Pages |-> [page[p] EXCEPT !.inbox = <<>>]]
    BY DEF Kill
  <1>3. IdleJob \in JobType /\ IdleJob.for \notin Calls
    BY WorkerAssumption DEF IdleJob, JobType, Stage, Waiter
  <1>4. NewHandler \in HandlerType
    BY DEF NewHandler, HandlerType
  <1>5. \A p \in Pages : page[p] \in PageType
    BY <1>1 DEF Types
  <1>6. ASSUME NEW p \in Pages PROVE Less(page'[p], page[p])
    <2>1. CASE page' = page
      BY <1>5, <2>1, LessSame
    <2>2. CASE page' = [q \in Pages |-> [page[q] EXCEPT !.inbox = <<>>]]
      <3>1. page'[p] \in PageType /\ page'[p].inbox = <<>>
        <4>1. <<>> \in Seq(Message)
          BY EmptySeq
        <4>2. page'[p] = [page[p] EXCEPT !.inbox = <<>>] /\ page[p] \in PageType
          BY <1>5, <2>2
        <4> QED BY <4>1, <4>2 DEF PageType
      <3>2. \A c \in Calls : Fewer(<<>>, page[p].inbox, c)
        <4>1. <<>> \in Seq(Message) /\ Len(<<>>) = 0
          BY EmptySeq
        <4>2. DOMAIN <<>> = 1 .. 0
          BY <4>1
        <4>3. 0 \in Nat /\ \A i \in DOMAIN <<>> : FALSE
          BY <4>2
        <4> QED BY <4>3 DEF Fewer
      <3> QED BY <3>1, <3>2 DEF Less
    <2> QED BY <1>2, <2>1, <2>2
  <1>7. page' \in [Pages -> PageType]
    <2>1. \A p \in Pages : page'[p] \in PageType
      BY <1>6 DEF Less
    <2>2. page' = [p \in Pages |-> page'[p]]
      BY <1>1, <1>2 DEF Types
    <2> QED BY <2>1, <2>2
  <1>8. Types'
    BY <1>1, <1>2, <1>3, <1>4, <1>7 DEF Types
  <1>9. \A c \in Calls : NoMore(c) /\ call'[c] = call[c]
    BY <1>2, <1>3, <1>6 DEF NoMore, Less
  <1>10. \A c \in Calls : Once(c)'
    BY <1>1, <1>8, <1>9, OnceKept
  <1> QED BY <1>8, <1>10 DEF OnceInv

-----------------------------------------------------------------------------
(* The steps of the worker. *)

\* A PONG moves the calls on that wait for it.
LEMMA TakePingOnce == ASSUME OnceInv, NEW p \in Pages, TakePing(p) PROVE OnceInv'
  <1>1. Types /\ page[p].inbox # <<>>
    BY DEF OnceInv, TakePing, Took
  <1>2. Rest(p) \in PageType /\ Less(Rest(p), page[p])
    BY <1>1, RestLess
  <1>3. \E x \in {TRUE, FALSE} : page' = [page EXCEPT ![p] = [Rest(p) EXCEPT !.pinging = x]]
    <2>1. Rest(p) = [Rest(p) EXCEPT !.pinging = Rest(p).pinging]
          /\ Rest(p).pinging \in {TRUE, FALSE}
      BY <1>2 DEF PageType
    <2> QED BY <2>1, Zenon DEF TakePing
  <1>4. PICK x \in {TRUE, FALSE} : page' = [page EXCEPT ![p] = [Rest(p) EXCEPT !.pinging = x]]
    BY <1>3
  <1>5. page'[p] = [Rest(p) EXCEPT !.pinging = x]
    BY <1>1, <1>4 DEF Types
  <1>6. page' = [page EXCEPT ![p] = page'[p]] /\ Less(page'[p], page[p])
    <2>1. page'[p] \in PageType /\ page'[p].inbox = Rest(p).inbox
      BY <1>2, <1>5 DEF PageType
    <2> QED BY <1>2, <1>4, <1>5, <2>1 DEF Less
  <1>7. /\ call' \in [Calls -> CallType]
        /\ \A c \in Calls : call'[c] = call[c] \/ Released(c)
    <2>1. CASE call' = MovedOn(p, "ping", "post")
      BY <1>1, <2>1, ReleasesCalls DEF Outcome
    <2>2. CASE call' = call
      BY <1>1, <2>2 DEF Types
    <2> QED BY <2>1, <2>2 DEF TakePing
  <1>8. UNCHANGED <<job, handler>>
    BY DEF TakePing, worker
  <1>9. job' \in [Jobs -> JobType] /\ handler' \in HandlerType
    BY <1>1, <1>8 DEF Types
  <1> QED BY <1>6, <1>7, <1>8, <1>9, PageChanged

\* The jobs that messages become.
LEMMA JobForType ==
    ASSUME Types, NEW p \in Pages, page[p].inbox # <<>>, NEW stage \in Stage
    PROVE  /\ JobFor(p, stage) \in JobType
           /\ JobFor(p, stage).for = Sender(p) /\ JobFor(p, stage).page = p
  <1>1. Sender(p) \in Waiter
    BY RestLess
  <1>2. handler.wallet \in Wallets \cup {NoWallet}
    BY DEF Types, HandlerType
  <1> QED BY <1>1, <1>2 DEF JobFor, JobType

\* INITIALIZE_MESSAGE_BUS, whether or not handlers have to be stopped first.
LEMMA TakeInitOnce ==
    ASSUME OnceInv, NEW j \in Jobs, NEW p \in Pages, TakeInit(j, p) PROVE OnceInv'
  <1>1. /\ Types /\ page[p].inbox # <<>>
        /\ Head(page[p].inbox).kind \notin {"read", "clear"}
    BY DEF OnceInv, TakeInit, Took
  <1>2. PICK stage \in {"building", "stopping"} : job' = [job EXCEPT ![j] = JobFor(p, stage)]
    BY DEF TakeInit, StopHandlers
  <1>3. JobFor(p, stage) \in JobType /\ JobFor(p, stage).for = Sender(p)
    BY <1>1, JobForType DEF Stage
  <1>4. handler' \in HandlerType
    <2>1. handler \in HandlerType
      BY <1>1 DEF Types
    <2>2. CASE handler' = handler
      BY <2>1, <2>2
    <2>3. CASE handler' = [handler EXCEPT !.funds = "none", !.contracts = NoWallet,
                               !.indexer = IF handler.wallet = NoWallet THEN FALSE ELSE @]
      BY <2>1, <2>3 DEF HandlerType
    <2> QED BY <2>2, <2>3 DEF TakeInit, StopHandlers
  <1>5. page' = [page EXCEPT ![p] = Rest(p)] /\ call' = call
    BY DEF TakeInit
  <1> QED BY <1>1, <1>2, <1>3, <1>4, <1>5, SetupTaken

\* INIT_WALLET: refused, answered at once, or taken by a job.
LEMMA TakeInitWalletOnce ==
    ASSUME OnceInv, NEW j \in Jobs, NEW p \in Pages, TakeInitWallet(j, p) PROVE OnceInv'
  <1>1. /\ Types /\ page[p].inbox # <<>> /\ handler \in HandlerType
        /\ Head(page[p].inbox).kind \notin {"read", "clear"}
    BY DEF OnceInv, TakeInitWallet, Took, Types
  <1>2. CASE Rejected(p, "notInitialized")
    BY <1>1, <1>2, MessageAnswered DEF Rejected, Outcome, worker
  <1>3. CASE /\ handler' = [handler EXCEPT !.indexer = TRUE] /\ job' = job
             /\ Answer(p, Rest(p), Sender(p), "ok")
    <2>1. handler' \in HandlerType
      BY <1>1, <1>3 DEF HandlerType
    <2> QED BY <1>1, <1>3, <2>1, MessageAnswered DEF Outcome
  <1>4. ASSUME NEW stage \in {"refreshing", "contracts"},
               handler' = [handler EXCEPT !.indexer = TRUE],
               job' = [job EXCEPT ![j] = JobFor(p, stage)],
               page' = [page EXCEPT ![p] = Rest(p)], call' = call
        PROVE  OnceInv'
    <2>1. handler' \in HandlerType
      BY <1>1, <1>4 DEF HandlerType
    <2>2. JobFor(p, stage) \in JobType /\ JobFor(p, stage).for = Sender(p)
      BY <1>1, JobForType DEF Stage
    <2> QED BY <1>1, <1>4, <2>1, <2>2, SetupTaken
  <1> QED BY <1>2, <1>3, <1>4 DEF TakeInitWallet

\* A request is refused or routed.
LEMMA TakeRequestOnce ==
    ASSUME OnceInv, NEW j \in Jobs, NEW p \in Pages, NEW request \in Requests,
           TakeRequest(j, p, request)
    PROVE  OnceInv'
  <1>1. Types /\ page[p].inbox # <<>> /\ handler \in HandlerType
    BY DEF OnceInv, TakeRequest, Took, Types
  <1>2. ASSUME NEW outcome \in {"notInitialized", "noWallet"}, Rejected(p, outcome)
        PROVE  OnceInv'
    BY <1>1, <1>2, MessageAnswered DEF Rejected, Outcome, worker
  <1>3. ASSUME NEW stage \in {"clearing", "running"}, handler' \in HandlerType,
               page' = [page EXCEPT ![p] = Rest(p)],
               call' = IF Sender(p) \in Calls THEN [call EXCEPT ![Sender(p)].runs = @ + 1]
                       ELSE call,
               job' = [job EXCEPT ![j] = JobFor(p, stage)]
        PROVE  OnceInv'
    <2>1. /\ JobFor(p, stage) \in JobType
          /\ JobFor(p, stage).for = Sender(p) /\ JobFor(p, stage).page = p
      BY <1>1, JobForType DEF Stage
    <2> QED BY <1>1, <1>3, <2>1, RequestTaken
  <1>4. CASE /\ page' = [page EXCEPT ![p] = Rest(p)]
             /\ call' = IF Sender(p) \in Calls THEN [call EXCEPT ![Sender(p)].runs = @ + 1]
                        ELSE call
             /\ handler' = [handler EXCEPT !.funds = IF @ = "live" THEN "dead" ELSE @,
                                           !.contracts = NoWallet]
             /\ job' = [job EXCEPT ![j] = JobFor(p, "clearing")]
    <2>1. handler' \in HandlerType
      BY <1>1, <1>4 DEF HandlerType
    <2> QED BY <1>3, <1>4, <2>1
  <1>5. CASE /\ page' = [page EXCEPT ![p] = Rest(p)]
             /\ call' = IF Sender(p) \in Calls THEN [call EXCEPT ![Sender(p)].runs = @ + 1]
                        ELSE call
             /\ handler' = handler
             /\ job' = [job EXCEPT ![j] = JobFor(p, "running")]
    BY <1>1, <1>3, <1>5
  <1> QED BY <1>2, <1>4, <1>5 DEF TakeRequest

\* A job at another stage, with another wallet, or idle.
LEMMA NextJob ==
    ASSUME Types, NEW j \in Jobs
    PROVE  /\ IdleJob \in JobType /\ IdleJob.for = Nobody
           /\ \A stage \in Stage :
                LET x == [job[j] EXCEPT !.stage = stage] IN
                x \in JobType /\ x.for = job[j].for /\ x.page = job[j].page
           /\ \A stage \in Stage :
                LET x == [job[j] EXCEPT !.stage = stage, !.wallet = NoWallet] IN
                x \in JobType /\ x.for = job[j].for /\ x.page = job[j].page
           /\ LET x == [job[j] EXCEPT !.for = Nobody] IN x \in JobType /\ x.for = Nobody
  <1>1. job[j] \in JobType
    BY DEF Types
  <1>2. IdleJob \in JobType /\ IdleJob.for = Nobody
    BY WorkerAssumption DEF IdleJob, JobType, Stage, Waiter
  <1> QED BY <1>1, <1>2 DEF JobType, Waiter

\* A job ends with an answer.
LEMMA JobEnds ==
    ASSUME OnceInv, NEW j \in Jobs, Freed(j), handler' \in HandlerType,
           NEW outcome \in {"ok", "failed"},
           Answer(job[j].page, page[job[j].page], job[j].for, outcome)
    PROVE  OnceInv'
  <1>1. Types
    BY DEF OnceInv
  <1>2. IdleJob \in JobType /\ IdleJob.for = Nobody
    BY <1>1, NextJob
  <1>3. job' = [job EXCEPT ![j] = IdleJob]
    BY DEF Freed
  <1>4. outcome \in Outcome \ {"notInitialized"}
    BY DEF Outcome
  <1> QED BY <1>2, <1>3, <1>4, JobAnswered

\* The awaits of the worker that end.
LEMMA WorkOnce == ASSUME OnceInv, NEW j \in Jobs, Work(j) PROVE OnceInv'
  <1>1. Types /\ handler \in HandlerType /\ job \in [Jobs -> JobType]
    BY DEF OnceInv, Types
  <1>2. IdleJob \in JobType /\ IdleJob.for = Nobody
    BY <1>1, NextJob
  <1>3. CASE HandlersStopped(j)
    <2>1. handler' \in HandlerType
      BY <1>1, <1>3 DEF HandlersStopped, HandlerType
    <2>2. job' = [job EXCEPT ![j] = [job[j] EXCEPT !.stage = "building"]]
      BY <1>1, <1>3 DEF HandlersStopped
    <2>3. UNCHANGED <<page, call>>
      BY <1>3 DEF HandlersStopped
    <2> QED BY <1>1, <2>1, <2>2, <2>3, NextJob, JobGoesOn DEF Stage
  <1>4. CASE ServicesBuilt(j)
    <2>1. handler' \in HandlerType
      BY <1>1, <1>4 DEF ServicesBuilt, HandlerType
    <2> QED BY <1>4, <2>1, JobEnds DEF ServicesBuilt
  <1>5. CASE ContractsReady(j)
    <2>1. handler' \in HandlerType
      BY <1>1, <1>5 DEF ContractsReady, HandlerType, JobType
    <2>2. job' = [job EXCEPT ![j] = [job[j] EXCEPT !.stage = "refreshing",
                                                  !.wallet = NoWallet]]
      BY <1>1, <1>5 DEF ContractsReady
    <2>3. UNCHANGED <<page, call>>
      BY <1>5 DEF ContractsReady
    <2> QED BY <1>1, <2>1, <2>2, <2>3, NextJob, JobGoesOn DEF Stage
  <1>6. CASE Refreshed(j)
    <2>1. handler' \in HandlerType
      BY <1>1, <1>6 DEF Refreshed, HandlerType
    <2>2. CASE /\ Freed(j)
               /\ Answer(job[j].page, page[job[j].page], job[j].for, "failed")
      BY <2>1, <2>2, JobEnds
    <2>3. CASE job' = [job EXCEPT ![j].stage = "subscribing"] /\ UNCHANGED <<page, call>>
      <3>1. job' = [job EXCEPT ![j] = [job[j] EXCEPT !.stage = "subscribing"]]
        BY <1>1, <2>3
      <3> QED BY <1>1, <2>1, <2>3, <3>1, NextJob, JobGoesOn DEF Stage
    <2> QED BY <1>6, <2>2, <2>3 DEF Refreshed
  <1>7. CASE Subscribed(j)
    <2>1. handler' \in HandlerType
      BY <1>1, <1>7 DEF Subscribed, HandlerType
    <2> QED BY <1>7, <2>1, JobEnds DEF Subscribed
  <1>8. CASE RequestDone(j)
    BY <1>1, <1>8, JobEnds DEF RequestDone
  <1>9. CASE Cleared(j)
    <2>1. handler' \in HandlerType
      BY <1>1, <1>9 DEF Cleared, HandlerType
    <2> QED BY <1>9, <2>1, JobEnds DEF Cleared
  <1> QED BY <1>3, <1>4, <1>5, <1>6, <1>7, <1>8, <1>9 DEF Work

\* The awaits that fail or take too long.
LEMMA TroubleOnce == ASSUME OnceInv, NEW j \in Jobs, Trouble(j) PROVE OnceInv'
  <1>1. Types /\ handler \in HandlerType /\ job \in [Jobs -> JobType]
    BY DEF OnceInv, Types
  <1>2. IdleJob \in JobType /\ IdleJob.for = Nobody
    BY <1>1, NextJob
  <1>3. CASE BuildFails(j)
    BY <1>1, <1>2, <1>3, JobGoesOn DEF BuildFails, Freed
  <1>4. CASE HandlingFails(j)
    BY <1>1, <1>4, JobEnds DEF HandlingFails
  <1>5. CASE HandlingTimesOut(j)
    <2> DEFINE x == [job[j] EXCEPT !.for = Nobody]
    <2>1. x \in JobType /\ x.for = Nobody
      BY <1>1, NextJob
    <2>2. job' = [job EXCEPT ![j] = x]
      BY <1>1, <1>5 DEF HandlingTimesOut
    <2> HIDE DEF x
    <2>3. /\ Answer(job[j].page, page[job[j].page], job[j].for, "timeout")
          /\ handler' \in HandlerType
      BY <1>1, <1>5 DEF HandlingTimesOut
    <2>4. "timeout" \in Outcome \ {"notInitialized"}
      BY DEF Outcome
    <2> QED BY <2>1, <2>2, <2>3, <2>4, JobAnswered
  <1> QED BY <1>3, <1>4, <1>5 DEF Trouble

-----------------------------------------------------------------------------
(* The theorems about any pages. *)

\* Nothing has been posted yet.
LEMMA OnceInit == Init => OnceInv
  <1> SUFFICES ASSUME Init PROVE OnceInv
    OBVIOUS
  <1>1. <<>> \in Seq(Message) /\ DOMAIN <<>> = 1 .. 0
    BY EmptySeq
  <1>2. NewPage \in PageType /\ NewPage.inbox = <<>>
    BY <1>1 DEF NewPage, PageType
  <1>3. IdleCall \in CallType /\ IdleCall.stage = "idle" /\ IdleCall.runs = 0
    BY WorkerAssumption DEF IdleCall, CallType, MaxRetries, Outcome
  <1>4. IdleJob \in JobType /\ IdleJob.for \notin Calls
    BY WorkerAssumption DEF IdleJob, JobType, Stage, Waiter
  <1>5. NewHandler \in HandlerType
    BY DEF NewHandler, HandlerType
  <1>6. Types
    BY <1>2, <1>3, <1>4, <1>5 DEF Init, Types
  <1>7. ASSUME NEW c \in Calls PROVE Once(c)
    <2>1. \A p \in Pages : \A i \in DOMAIN page[p].inbox : FALSE
      BY <1>1, <1>2 DEF Init
    <2>2. InboxHas(c) /\ InboxHasOne(c)
      BY <2>1 DEF InboxHas, InboxHasOne, For
    <2>3. JobHas(c) /\ JobHasOne(c) /\ Runs(c)
      BY <1>3, <1>4 DEF Init, JobHas, JobHasOne, Runs
    <2> QED BY <2>2, <2>3 DEF Once
  <1> QED BY <1>6, <1>7 DEF OnceInv

\* Every step of the pages and of the worker keeps each request in one place.
LEMMA OnceStep == OnceInv /\ [Next]_vars => OnceInv'
  <1> SUFFICES ASSUME OnceInv, [Next]_vars PROVE OnceInv'
    OBVIOUS
  <1>1. ASSUME NEW p \in Pages, PageStep(p) \/ TakePing(p) PROVE OnceInv'
    BY <1>1, CreateOnce, PingTimesOutOnce, SetupTimesOutOnce, CloseOnce, TakePingOnce
       DEF PageStep
  <1>2. ASSUME NEW c \in Calls, CallStep(c) PROVE OnceInv'
    BY <1>2, PostOnce, CallTimesOutOnce, BeginOnce DEF CallStep
  <1>3. ASSUME NEW j \in Jobs, Work(j) \/ Trouble(j) PROVE OnceInv'
    BY <1>3, WorkOnce, TroubleOnce
  <1>4. ASSUME NEW j \in Jobs, NEW p \in Pages, Take(j, p) PROVE OnceInv'
    BY <1>4, TakeInitOnce, TakeInitWalletOnce, TakeRequestOnce DEF Take
  <1>5. ASSUME UNCHANGED <<page, call, job, handler>> PROVE OnceInv'
    BY <1>5 DEF OnceInv, Types, Once, InboxHas, InboxHasOne, JobHas, JobHasOne, Runs, For
  <1>6. ASSUME TickStarts \/ TickEnds \/ UNCHANGED vars PROVE OnceInv'
    BY <1>5, <1>6 DEF TickStarts, TickEnds, vars, worker
  <1>7. CASE Kill
    BY <1>7, KillOnce
  <1> QED BY <1>1, <1>2, <1>3, <1>4, <1>6, <1>7 DEF Next

\* A call of the wallet is handled at most once, whatever is repeated after a
\* restart, lost, timed out or closed (sendMessageWithRetry): for any number of
\* pages, of calls and of messages handled at once.
THEOREM CallsHandledOnce == Spec => []HandledOnce
  <1>1. OnceInv => HandledOnce
    BY DEF OnceInv, Once, Runs, HandledOnce
  <1> QED BY <1>1, OnceInit, OnceStep, PTL DEF Spec

\* What clients are told about funds is delivered by ticks.
KeepsTicking == initialized => tick # "none"

\* An initialised bus has a tick scheduled or running, whatever re-initialises
\* or kills it (scheduleNextTick, runTick).
THEOREM BusKeepsTicking == Spec => []KeepsTicking
  <1>1. Init => KeepsTicking
    BY DEF Init, KeepsTicking
  <1>2. KeepsTicking /\ [Next]_vars => KeepsTicking'
    BY DEF KeepsTicking, Next, vars, worker, PageStep, CallStep, Take, Work, Trouble,
           Create, PingTimesOut, SetupTimesOut, Close, TakePing, Post, CallTimesOut, Begin,
           HandlersStopped, ServicesBuilt, ContractsReady, Refreshed, Subscribed,
           RequestDone, Cleared, BuildFails, HandlingFails, HandlingTimesOut,
           TakeInit, StopHandlers, TakeInitWallet, TakeRequest, Rejected,
           TickStarts, TickEnds, Kill
  <1> QED BY <1>1, <1>2, PTL DEF Spec

-----------------------------------------------------------------------------
(* One page whose initialisations are not interrupted.  Its messages are      *)
(* never disowned; an initialisation is one message or one job.               *)

Alone == "interrupt" \notin Events /\ \A p, q \in Pages : p = q

BusStages == {"stopping", "building"}
WalletStages == {"contracts", "refreshing", "subscribing"}

In(s) == {s[i] : i \in DOMAIN s}
Mail(p) == In(page[p].inbox)
SetupOnce(s) == \A i, k \in DOMAIN s : s[i].for = Setup /\ s[k].for = Setup => i = k
NoSetup(s) == \A m \in In(s) : m.for # Setup

\* What a message is, and who waits for its answer.
Expected(p, m) ==
    \/ m.kind = "PING" /\ m.for = Ping
    \/ m.kind = "INITIALIZE_MESSAGE_BUS" /\ m.for = Setup /\ page[p].setup = "bus"
    \/ m.kind = "INIT_WALLET" /\ m.for = Setup /\ page[p].setup = "wallet"
    \/ m.for \in Calls /\ m.kind = call[m.for].request /\ call[m.for].stage = "sent"

MailExpected ==
    \A p \in Pages : SetupOnce(page[p].inbox) /\ \A m \in Mail(p) : Expected(p, m)

SetupJobs ==
    \A j \in Jobs :
        /\ job[j].stage \in BusStages \cup WalletStages => job[j].for = Setup
        /\ job[j].for = Setup =>
             /\ \/ job[j].stage \in BusStages /\ page[job[j].page].setup = "bus"
                \/ job[j].stage \in WalletStages /\ page[job[j].page].setup = "wallet"
             /\ \A p \in Pages : NoSetup(page[p].inbox)
             /\ \A k \in Jobs : job[k].for = Setup => j = k

PingsAreShared == \A p \in Pages : page[p].pinging => \E c \in Calls : call[c].stage = "ping"

PagesAreOpen == \A c \in Calls : call[c].stage # "idle" => page[PageOf[c]].open = "yes"

\* clear() is called alone, and not while the worker is initialised.
ClearsAlone ==
    \A c \in Calls : call[c].stage # "idle" /\ call[c].request = "clear" =>
        /\ \A d \in Calls : d # c => call[d].stage = "idle"
        /\ call[c].stage # "reinit" => page[PageOf[c]].setup = "none"

ClearsUndisturbed ==
    \A j \in Jobs : job[j].stage = "clearing" => \A p \in Pages :
        /\ page[p].setup = "none" /\ page[p].open = "yes"
        /\ page[p].pinging => \E m \in Mail(p) : m.for = Ping

BusFollows ==
    \A j \in Jobs :
        /\ job[j].stage \in BusStages => ~initialized
        /\ job[j].stage \in WalletStages \cup {"clearing"} => initialized

Protocol ==
    /\ MailExpected /\ SetupJobs /\ PingsAreShared /\ PagesAreOpen
    /\ ClearsAlone /\ ClearsUndisturbed /\ BusFollows

\* What the worker has of a wallet meanwhile.
DownIsEmpty == ~initialized => live = {} /\ handler.contracts = NoWallet
WorkFits ==
    \A j \in Jobs :
        /\ job[j].stage = "clearing" => live = {}
        /\ job[j].stage = "subscribing" => handler.funds # "live"
        /\ job[j].stage = "contracts" => job[j].wallet = handler.wallet

HandlerFits == DownIsEmpty /\ WorkFits /\ OneWalletReports

ReportInv == OnceInv /\ Protocol /\ HandlerFits

-----------------------------------------------------------------------------
(* Inboxes. *)

\* What is left of an inbox whose first message is taken.
LEMMA InTail ==
    ASSUME NEW s \in Seq(Message), s # <<>>
    PROVE  /\ In(s) = In(Tail(s)) \cup {Head(s)}
           /\ SetupOnce(s) => SetupOnce(Tail(s)) /\ (Head(s).for = Setup => NoSetup(Tail(s)))
  <1>1. Len(s) \in Nat /\ Len(s) # 0 /\ DOMAIN s = 1 .. Len(s) /\ Head(s) = s[1]
    OBVIOUS
  <1>2. DOMAIN Tail(s) = 1 .. (Len(s) - 1) /\ \A i \in DOMAIN Tail(s) : Tail(s)[i] = s[i + 1]
    OBVIOUS
  <1>3. ASSUME NEW m \in In(s) PROVE m \in In(Tail(s)) \cup {Head(s)}
    <2>1. PICK i \in DOMAIN s : m = s[i]
      BY DEF In
    <2>2. CASE i = 1
      BY <1>1, <2>1, <2>2
    <2>3. CASE i # 1
      <3>1. i - 1 \in DOMAIN Tail(s) /\ Tail(s)[i - 1] = s[i]
        BY <1>1, <1>2, <2>3
      <3> QED BY <2>1, <3>1 DEF In
    <2> QED BY <2>2, <2>3
  <1>4. ASSUME NEW m \in In(Tail(s)) PROVE \E i \in DOMAIN s : i # 1 /\ m = s[i]
    <2>1. PICK i \in DOMAIN Tail(s) : m = Tail(s)[i]
      BY DEF In
    <2>2. i + 1 \in DOMAIN s /\ i + 1 # 1 /\ m = s[i + 1]
      BY <1>1, <1>2, <2>1
    <2> QED BY <2>2
  <1>5. In(s) = In(Tail(s)) \cup {Head(s)}
    <2>1. \A i \in DOMAIN s : s[i] \in In(s)
      BY Zenon DEF In
    <2>2. 1 \in DOMAIN s
      BY <1>1
    <2>3. Head(s) \in In(s) /\ \A m \in In(Tail(s)) : m \in In(s)
      BY <1>1, <1>4, <2>1, <2>2
    <2> QED BY <1>3, <2>3
  <1>6. ASSUME SetupOnce(s) PROVE SetupOnce(Tail(s))
    <2> SUFFICES ASSUME NEW i \in DOMAIN Tail(s), NEW k \in DOMAIN Tail(s),
                        Tail(s)[i].for = Setup, Tail(s)[k].for = Setup
                 PROVE  i = k
      BY DEF SetupOnce
    <2>1. i + 1 \in DOMAIN s /\ k + 1 \in DOMAIN s /\ s[i + 1].for = Setup /\ s[k + 1].for = Setup
          /\ i \in Nat /\ k \in Nat
      BY <1>1, <1>2
    <2>2. i + 1 = k + 1
      BY <1>6, <2>1 DEF SetupOnce
    <2> QED BY <2>1, <2>2
  <1>7. ASSUME SetupOnce(s), Head(s).for = Setup PROVE NoSetup(Tail(s))
    BY <1>1, <1>4, <1>7 DEF SetupOnce, NoSetup
  <1> QED BY <1>5, <1>6, <1>7

\* An inbox with another message.
LEMMA InAppend ==
    ASSUME NEW s \in Seq(Message), NEW m \in Message
    PROVE  /\ In(Append(s, m)) = In(s) \cup {m}
           /\ SetupOnce(s) /\ (m.for = Setup => NoSetup(s)) => SetupOnce(Append(s, m))
  <1> DEFINE t == Append(s, m)
  <1>1. /\ Len(s) \in Nat /\ DOMAIN s = 1 .. Len(s) /\ DOMAIN t = 1 .. (Len(s) + 1)
        /\ t[Len(s) + 1] = m /\ \A i \in DOMAIN s : t[i] = s[i]
    OBVIOUS
  <1> HIDE DEF t
  <1>2. \A i \in DOMAIN t : i = Len(s) + 1 \/ i \in DOMAIN s
    BY <1>1
  <1>3. DOMAIN s \subseteq DOMAIN t /\ Len(s) + 1 \in DOMAIN t
    BY <1>1
  <1>4. In(t) = In(s) \cup {m}
    BY <1>1, <1>2, <1>3 DEF In
  <1>5. ASSUME SetupOnce(s), m.for = Setup => NoSetup(s) PROVE SetupOnce(t)
    BY <1>1, <1>2, <1>5 DEF SetupOnce, NoSetup, In
  <1> QED BY <1>4, <1>5 DEF t

\* A page that posts.
LEMMA PostedMail ==
    ASSUME NEW pg \in PageType, NEW kind, NEW w, [kind |-> kind, for |-> w] \in Message
    PROVE  LET new == Posted(pg, kind, w) IN
           /\ new \in PageType
           /\ new.setup = pg.setup /\ new.open = pg.open /\ new.pinging = pg.pinging
           /\ In(new.inbox) = In(pg.inbox) \cup {[kind |-> kind, for |-> w]}
           /\ SetupOnce(pg.inbox) /\ (w = Setup => NoSetup(pg.inbox)) => SetupOnce(new.inbox)
  <1> DEFINE new == Posted(pg, kind, w)
             m == [kind |-> kind, for |-> w]
  <1>1. pg.inbox \in Seq(Message)
    BY DEF PageType
  <1>2. Append(pg.inbox, m) \in Seq(Message)
    BY <1>1
  <1>3. /\ new \in PageType /\ new.inbox = Append(pg.inbox, m)
        /\ new.setup = pg.setup /\ new.open = pg.open /\ new.pinging = pg.pinging
    BY <1>2 DEF Posted, PageType
  <1>4. m.for = w
    OBVIOUS
  <1> QED BY <1>1, <1>3, <1>4, InAppend

\* The messages of a page itself.
LEMMA SetupMessages ==
    /\ [kind |-> "INITIALIZE_MESSAGE_BUS", for |-> Setup] \in Message
    /\ [kind |-> "INIT_WALLET", for |-> Setup] \in Message
    /\ [kind |-> "PING", for |-> Ping] \in Message
  BY DEF Message, Waiter

\* A page that initialises the worker again.
LEMMA ReinitializedMail ==
    ASSUME NEW pg \in PageType
    PROVE  LET new == Reinitialized(pg) IN
           /\ new \in PageType /\ new.open = pg.open /\ new.pinging = pg.pinging
           /\ pg.setup # "none" => new = pg
           /\ pg.setup = "none" =>
                /\ new.setup = "bus"
                /\ In(new.inbox) = In(pg.inbox)
                       \cup {[kind |-> "INITIALIZE_MESSAGE_BUS", for |-> Setup]}
                /\ SetupOnce(pg.inbox) /\ NoSetup(pg.inbox) => SetupOnce(new.inbox)
  <1> DEFINE mid == [pg EXCEPT !.setup = "bus"]
  <1>1. /\ mid \in PageType /\ mid.setup = "bus" /\ mid.open = pg.open
        /\ mid.pinging = pg.pinging /\ mid.inbox = pg.inbox
    BY DEF PageType
  <1>2. CASE pg.setup # "none"
    BY <1>2 DEF Reinitialized
  <1>3. CASE pg.setup = "none"
    <2>1. Reinitialized(pg) = Posted(mid, "INITIALIZE_MESSAGE_BUS", Setup)
      BY <1>3 DEF Reinitialized
    <2> HIDE DEF mid
    <2> DEFINE new == Posted(mid, "INITIALIZE_MESSAGE_BUS", Setup)
    <2>2. /\ new \in PageType
          /\ new.setup = mid.setup /\ new.open = mid.open /\ new.pinging = mid.pinging
          /\ In(new.inbox) = In(mid.inbox)
                 \cup {[kind |-> "INITIALIZE_MESSAGE_BUS", for |-> Setup]}
          /\ SetupOnce(mid.inbox) /\ NoSetup(mid.inbox) => SetupOnce(new.inbox)
      BY <1>1, PostedMail, SetupMessages, Zenon
    <2> HIDE DEF new
    <2> QED BY <1>1, <1>3, <2>1, <2>2 DEF new
  <1> QED BY <1>2, <1>3

\* Of one page.
LEMMA OnePage ==
    ASSUME Alone, Types, NEW p \in Pages
    PROVE  /\ \A q \in Pages : q = p
           /\ \A c \in Calls : PageOf[c] = p
           /\ \A j \in Jobs : job[j].page = p
           /\ page[p] \in PageType /\ page[p].inbox \in Seq(Message)
           /\ \A x : page' = [page EXCEPT ![p] = x] => page'[p] = x
  BY WorkerAssumption DEF Alone, Types, JobType, PageType

\* A message is taken.
LEMMA MailTaken ==
    ASSUME Types, NEW p \in Pages, page[p].inbox # <<>>
    PROVE  LET m == Head(page[p].inbox) IN
           /\ m \in Message /\ m \in Mail(p) /\ m.for = Sender(p)
           /\ Rest(p) \in PageType /\ Rest(p).setup = page[p].setup
           /\ Rest(p).open = page[p].open /\ Rest(p).pinging = page[p].pinging
           /\ Mail(p) = In(Rest(p).inbox) \cup {m}
           /\ SetupOnce(page[p].inbox) =>
                SetupOnce(Rest(p).inbox) /\ (m.for = Setup => NoSetup(Rest(p).inbox))
  <1>1. page[p] \in PageType /\ page[p].inbox \in Seq(Message)
    BY DEF Types, PageType
  <1>2. Head(page[p].inbox) \in Message
    BY <1>1
  <1>3. Rest(p) \in PageType /\ Rest(p).inbox = Tail(page[p].inbox)
    BY RestLess
  <1>4. Rest(p).setup = page[p].setup /\ Rest(p).open = page[p].open
        /\ Rest(p).pinging = page[p].pinging
    BY <1>1 DEF Rest, PageType
  <1>5. Mail(p) = In(Rest(p).inbox) \cup {Head(page[p].inbox)}
    BY <1>1, <1>3, InTail DEF Mail
  <1>6. SetupOnce(page[p].inbox) =>
          /\ SetupOnce(Rest(p).inbox)
          /\ Head(page[p].inbox).for = Setup => NoSetup(Rest(p).inbox)
    BY <1>1, <1>3, InTail
  <1> QED BY <1>2, <1>3, <1>4, <1>5, <1>6 DEF Sender

\* A timer that fires finds nothing that an answer could come of.
LEMMA NothingDisowned ==
    ASSUME Alone, Types, NEW p \in Pages, NEW w, TimerFires(p, w)
    PROVE  /\ \A m \in Mail(p) : m.for # w
           /\ [page[p] EXCEPT !.inbox = Disowned(@, w)] = page[p]
           /\ \A j \in Jobs : job[j].stage # "idle" => job[j].for # w
  <1>1. page[p] \in PageType /\ page[p].inbox \in Seq(Message) /\ \A j \in Jobs : job[j].page = p
    BY OnePage
  <1>2. Lost(p, w)
    BY DEF TimerFires, Alone
  <1>3. Disowned(page[p].inbox, w) = [i \in DOMAIN page[p].inbox |-> page[p].inbox[i]]
    BY <1>2 DEF Lost, Disowned
  <1>4. Disowned(page[p].inbox, w) = page[p].inbox
    BY <1>1, <1>3
  <1>5. [page[p] EXCEPT !.inbox = Disowned(@, w)] = page[p]
    BY <1>1, <1>4 DEF PageType
  <1> QED BY <1>1, <1>2, <1>5 DEF Lost, Mail, In


-----------------------------------------------------------------------------
(* Answers, as that page and the worker see them. *)

\* The page of p, perhaps without some messages; its own ping is left.
Trimmed(p, pg) ==
    /\ pg \in PageType
    /\ pg.setup = page[p].setup /\ pg.open = page[p].open /\ pg.pinging = page[p].pinging
    /\ In(pg.inbox) \subseteq Mail(p) /\ SetupOnce(pg.inbox)
    /\ \A m \in Mail(p) : m.for = Ping => m \in In(pg.inbox)

\* The jobs go on, have ended, or answer nobody any more.
FewerJobs ==
    \A k \in Jobs :
        /\ job'[k].stage \in BusStages =>
               job[k].stage \in BusStages /\ job'[k].for = job[k].for
        /\ job'[k].stage \in WalletStages =>
               job[k].stage \in WalletStages /\ job'[k].for = job[k].for
        /\ job'[k].for = Setup =>
               job[k].for = Setup /\ job'[k].stage \in BusStages \cup WalletStages
        /\ job'[k].stage = "clearing" => job[k].stage = "clearing"

\* A job that is freed is one less.
LEMMA FreedFewer ==
    ASSUME Types, SetupJobs, NEW j \in Jobs, Freed(j)
    PROVE  FewerJobs /\ job'[j].for = Nobody /\ \A k \in Jobs : k # j => job'[k] = job[k]
  <1>1. /\ job'[j] = IdleJob /\ IdleJob.for = Nobody /\ IdleJob.stage = "idle"
        /\ \A k \in Jobs : k # j => job'[k] = job[k]
    BY DEF Types, Freed, IdleJob
  <1>2. Nobody # Setup
    BY WorkerAssumption
  <1> QED BY <1>1, <1>2 DEF FewerJobs, SetupJobs, BusStages, WalletStages

\* A job that goes on at another stage of the same initialisation.
LEMMA StagedFewer ==
    ASSUME Types, SetupJobs, NEW j \in Jobs, NEW x, job' = [job EXCEPT ![j] = x],
           x.for = job[j].for,
           \/ job[j].stage \in BusStages /\ x.stage \in BusStages
           \/ job[j].stage \in WalletStages /\ x.stage \in WalletStages
    PROVE  FewerJobs
  <1>1. job'[j] = x /\ \A k \in Jobs : k # j => job'[k] = job[k]
    BY DEF Types
  <1> QED BY <1>1 DEF FewerJobs, SetupJobs, BusStages, WalletStages

\* The answer to a page's own initialisation.
LEMMA SetupAnsweredView ==
    ASSUME Types, NEW p \in Pages, NEW pg \in PageType, NEW outcome \in Outcome,
           pg.setup # "none", SetupAnswered(p, pg, outcome), \A c \in Calls : PageOf[c] = p,
           SetupOnce(pg.inbox), NoSetup(pg.inbox)
    PROVE  /\ page'[p].pinging = pg.pinging /\ (pg.open = "yes" => page'[p].open = "yes")
           /\ In(pg.inbox) \subseteq In(page'[p].inbox) /\ SetupOnce(page'[p].inbox)
           /\ \/ /\ page'[p].setup = "wallet" /\ call' = call
                 /\ In(page'[p].inbox) =
                        In(pg.inbox) \cup {[kind |-> "INIT_WALLET", for |-> Setup]}
              \/ /\ page'[p].setup = "none" /\ In(page'[p].inbox) = In(pg.inbox)
                 /\ \A c \in Calls :
                       \/ call'[c] = call[c] /\ call[c].stage # "reinit"
                       \/ /\ call[c].stage = "reinit"
                          /\ \/ call'[c].stage = "idle"
                             \/ call'[c].stage = "post" /\ call'[c].request = call[c].request
  <1>1. page \in [Pages -> PageType] /\ call \in [Calls -> CallType]
    BY DEF Types
  <1>2. CASE outcome = "ok" /\ pg.setup = "bus" /\ UNCHANGED call
             /\ page' = [page EXCEPT
                    ![p] = Posted([pg EXCEPT !.setup = "wallet"], "INIT_WALLET", Setup)]
    <2> DEFINE mid == [pg EXCEPT !.setup = "wallet"]
               new == Posted(mid, "INIT_WALLET", Setup)
    <2>1. mid \in PageType /\ mid.setup = "wallet" /\ mid.open = pg.open
          /\ mid.pinging = pg.pinging /\ mid.inbox = pg.inbox
      BY DEF PageType
    <2>2. page'[p] = new
      BY <1>1, <1>2
    <2> HIDE DEF mid
    <2>3. /\ new \in PageType
          /\ new.setup = mid.setup /\ new.open = mid.open /\ new.pinging = mid.pinging
          /\ In(new.inbox) = In(mid.inbox) \cup {[kind |-> "INIT_WALLET", for |-> Setup]}
          /\ SetupOnce(mid.inbox) /\ NoSetup(mid.inbox) => SetupOnce(new.inbox)
      BY <2>1, PostedMail, SetupMessages, Zenon
    <2> HIDE DEF new
    <2> QED BY <1>2, <2>1, <2>2, <2>3
  <1>3. CASE outcome = "ok" /\ call' = MovedOn(p, "reinit", "post")
             /\ page' = [page EXCEPT ![p] = [pg EXCEPT !.setup = "none", !.open = "yes"]]
    <2>1. page'[p] = [pg EXCEPT !.setup = "none", !.open = "yes"]
      BY <1>1, <1>3
    <2>2. page'[p].setup = "none" /\ page'[p].open = "yes"
          /\ page'[p].pinging = pg.pinging /\ page'[p].inbox = pg.inbox
      BY <2>1 DEF PageType
    <2>3. \A c \in Calls : call'[c] = IF call[c].stage = "reinit"
                                      THEN [call[c] EXCEPT !.stage = "post"] ELSE call[c]
      BY <1>3 DEF MovedOn
    <2>4. \A c \in Calls : [call[c] EXCEPT !.stage = "post"].stage = "post"
                           /\ [call[c] EXCEPT !.stage = "post"].request = call[c].request
      BY <1>1 DEF CallType
    <2> QED BY <2>2, <2>3, <2>4
  <1>4. CASE /\ page' = [page EXCEPT ![p] = [pg EXCEPT !.setup = "none",
                             !.open = IF @ = "creating" THEN "no" ELSE @]]
             /\ call' = Ended(p, "reinit", outcome)
    <2>1. page'[p] = [pg EXCEPT !.setup = "none",
                             !.open = IF @ = "creating" THEN "no" ELSE @]
      BY <1>1, <1>4
    <2>2. page'[p].setup = "none" /\ (pg.open = "yes" => page'[p].open = "yes")
          /\ page'[p].pinging = pg.pinging /\ page'[p].inbox = pg.inbox
      BY <2>1 DEF PageType
    <2>3. \A c \in Calls : call'[c] = IF call[c].stage = "reinit"
                                      THEN [IdleCall EXCEPT !.outcome = outcome] ELSE call[c]
      BY <1>4 DEF Ended
    <2> QED BY <2>2, <2>3, IdleType
  <1> QED BY <1>2, <1>3, <1>4 DEF SetupAnswered

\* The answer to a call.
LEMMA CallAnsweredView ==
    ASSUME Types, NEW p \in Pages, NEW pg \in PageType, NEW c \in Calls,
           NEW outcome \in Outcome, CallAnswered(p, pg, c, outcome)
    PROVE  /\ \A d \in Calls : d # c => call'[d] = call[d]
           /\ \/ call'[c].stage = "idle" /\ page'[p] = pg
              \/ /\ outcome = "notInitialized" /\ page'[p] = Reinitialized(pg)
                 /\ call'[c].stage = "reinit" /\ call'[c].request = call[c].request
  <1>1. page \in [Pages -> PageType] /\ call \in [Calls -> CallType]
    BY DEF Types
  <1>2. CASE Retries(c, outcome)
    <2>1. /\ page' = [page EXCEPT ![p] = Reinitialized(pg)] /\ outcome = "notInitialized"
          /\ call' = [call EXCEPT ![c].stage = "reinit", ![c].attempt = @ + 1]
      BY <1>2 DEF CallAnswered, Retries
    <2>2. page'[p] = Reinitialized(pg)
      BY <1>1, <2>1
    <2>3. call'[c] = [call[c] EXCEPT !.stage = "reinit", !.attempt = @ + 1]
          /\ \A d \in Calls : d # c => call'[d] = call[d]
      BY <1>1, <2>1
    <2>4. call'[c].stage = "reinit" /\ call'[c].request = call[c].request
      BY <1>1, <2>3 DEF CallType
    <2> QED BY <2>1, <2>2, <2>3, <2>4
  <1>3. CASE ~Retries(c, outcome)
    <2>1. /\ page' = [page EXCEPT ![p] = pg]
          /\ call' = [call EXCEPT ![c] = [IdleCall EXCEPT !.outcome = outcome]]
      BY <1>3 DEF CallAnswered
    <2>2. page'[p] = pg /\ call'[c] = [IdleCall EXCEPT !.outcome = outcome]
          /\ \A d \in Calls : d # c => call'[d] = call[d]
      BY <1>1, <2>1
    <2> QED BY <2>2, IdleType
  <1> QED BY <1>2, <1>3

\* An initialisation is answered: nothing of it is left at the worker.
LEMMA SetupAnsweredProtocol ==
    ASSUME Alone, Types, Types', Protocol, BusFollows', NEW p \in Pages, NEW pg,
           Trimmed(p, pg), NoSetup(pg.inbox), page[p].setup # "none",
           NEW outcome \in Outcome, SetupAnswered(p, pg, outcome),
           FewerJobs, \A k \in Jobs : job'[k].for # Setup
    PROVE  Protocol'
  <1> DEFINE new == page'[p]
             init == [kind |-> "INIT_WALLET", for |-> Setup]
  <1>1. /\ \A q \in Pages : q = p
        /\ \A c \in Calls : PageOf[c] = p
        /\ \A k \in Jobs : job[k].page = p
    BY OnePage
  <1>2. /\ new.pinging = page[p].pinging /\ (page[p].open = "yes" => new.open = "yes")
        /\ In(pg.inbox) \subseteq In(new.inbox) /\ SetupOnce(new.inbox)
        /\ \/ /\ new.setup = "wallet" /\ call' = call
              /\ In(new.inbox) = In(pg.inbox) \cup {init}
           \/ /\ new.setup = "none" /\ In(new.inbox) = In(pg.inbox)
              /\ \A c \in Calls :
                    \/ call'[c] = call[c] /\ call[c].stage # "reinit"
                    \/ /\ call[c].stage = "reinit"
                       /\ \/ call'[c].stage = "idle"
                          \/ call'[c].stage = "post" /\ call'[c].request = call[c].request
    BY <1>1, SetupAnsweredView DEF Trimmed
  <1> HIDE DEF new
  <1>3. \A c \in Calls :
            \/ call'[c] = call[c]
            \/ /\ call[c].stage = "reinit" /\ new.setup = "none"
               /\ \/ call'[c].stage = "idle"
                  \/ call'[c].stage = "post" /\ call'[c].request = call[c].request
    BY <1>2
  <1>4. MailExpected'
    <2>1. ASSUME NEW m \in In(new.inbox) PROVE Expected(p, m)'
      <3>1. CASE m = init /\ new.setup = "wallet"
        BY <3>1 DEF Expected, new
      <3>2. CASE m \in In(pg.inbox)
        <4>1. Expected(p, m) /\ m.for # Setup
          BY <3>2 DEF Protocol, MailExpected, Trimmed, NoSetup
        <4>2. m.for \in Calls /\ call[m.for].stage = "sent" => call'[m.for] = call[m.for]
          BY <1>3
        <4> QED BY <4>1, <4>2 DEF Expected
      <3> QED BY <1>2, <3>1, <3>2
    <2> QED BY <1>1, <1>2, <2>1 DEF MailExpected, Mail, new
  <1>5. SetupJobs'
    BY DEF FewerJobs, Protocol, SetupJobs
  <1>6. PingsAreShared'
    BY <1>1, <1>2, <1>3 DEF Protocol, PingsAreShared, new
  <1>7. PagesAreOpen'
    BY <1>1, <1>2, <1>3 DEF Protocol, PagesAreOpen, new
  <1>8. ClearsAlone'
    BY <1>1, <1>3 DEF Protocol, ClearsAlone, new
  <1>9. ClearsUndisturbed'
    BY DEF FewerJobs, Protocol, ClearsUndisturbed
  <1> QED BY <1>4, <1>5, <1>6, <1>7, <1>8, <1>9 DEF Protocol

\* A call is answered: nothing of it is left at the worker.  Only one that is
\* not initialised makes it be sent again.
LEMMA CallAnsweredProtocol ==
    ASSUME Alone, Types, Types', Protocol, BusFollows', NEW p \in Pages, NEW pg,
           Trimmed(p, pg), NEW c \in Calls, call[c].stage = "sent",
           \A m \in In(pg.inbox) : m.for # c,
           NEW outcome \in Outcome, CallAnswered(p, pg, c, outcome), FewerJobs,
           outcome = "notInitialized" => ~initialized'
    PROVE  Protocol'
  <1> DEFINE new == page'[p]
             init == [kind |-> "INITIALIZE_MESSAGE_BUS", for |-> Setup]
  <1>1. /\ \A q \in Pages : q = p
        /\ \A d \in Calls : PageOf[d] = p
        /\ \A k \in Jobs : job[k].page = p
        /\ \A k \in Jobs : job'[k].page = p
    BY OnePage DEF Types, JobType
  <1>2. \A d \in Calls : d # c => call'[d] = call[d]
    BY CallAnsweredView DEF Trimmed
  <1>3. \/ call'[c].stage = "idle" /\ new = pg
        \/ /\ outcome = "notInitialized" /\ new = Reinitialized(pg)
           /\ call'[c].stage = "reinit" /\ call'[c].request = call[c].request
    BY CallAnsweredView DEF Trimmed
  <1> HIDE DEF new
  <1>4. /\ Reinitialized(pg).open = pg.open /\ Reinitialized(pg).pinging = pg.pinging
        /\ pg.setup # "none" => Reinitialized(pg) = pg
        /\ pg.setup = "none" =>
             /\ Reinitialized(pg).setup = "bus"
             /\ In(Reinitialized(pg).inbox) = In(pg.inbox) \cup {init}
             /\ SetupOnce(pg.inbox) /\ NoSetup(pg.inbox) => SetupOnce(Reinitialized(pg).inbox)
    BY ReinitializedMail, Zenon DEF Trimmed
  <1>5. ASSUME pg.setup = "none" PROVE NoSetup(pg.inbox) /\ \A k \in Jobs : job[k].for # Setup
    <2>1. \A m \in In(pg.inbox) : Expected(p, m)
      BY DEF Protocol, MailExpected, Trimmed
    <2>2. Setup # Ping /\ Setup \notin Calls
      BY WorkerAssumption
    <2>3. NoSetup(pg.inbox)
      BY <1>5, <2>1, <2>2 DEF Expected, NoSetup, Trimmed
    <2>4. \A k \in Jobs : job[k].for # Setup
      BY <1>1, <1>5 DEF Protocol, SetupJobs, Trimmed
    <2> QED BY <2>3, <2>4
  <1>6. /\ new.open = page[p].open /\ new.pinging = page[p].pinging /\ SetupOnce(new.inbox)
        /\ In(pg.inbox) \subseteq In(new.inbox)
        /\ \/ new.setup = page[p].setup /\ In(new.inbox) = In(pg.inbox)
           \/ /\ pg.setup = "none" /\ new.setup = "bus" /\ call'[c].stage = "reinit"
              /\ In(new.inbox) = In(pg.inbox) \cup {init}
    BY <1>3, <1>4, <1>5 DEF Trimmed
  <1>7. MailExpected'
    <2>1. ASSUME NEW m \in In(new.inbox) PROVE Expected(p, m)'
      <3>1. CASE m = init /\ new.setup = "bus"
        BY <3>1 DEF Expected, new
      <3>2. CASE m \in In(pg.inbox)
        <4>1. Expected(p, m) /\ m.for # c /\ (m.for = Setup => pg.setup # "none")
          BY <1>5, <3>2 DEF Protocol, MailExpected, Trimmed, NoSetup
        <4>2. m.for \in Calls => call'[m.for] = call[m.for]
          BY <1>2, <4>1
        <4>3. m.for = Setup => new.setup = page[p].setup
          BY <1>6, <4>1
        <4> QED BY <4>1, <4>2, <4>3 DEF Expected, new
      <3> QED BY <1>6, <3>1, <3>2
    <2> QED BY <1>1, <1>6, <2>1 DEF MailExpected, Mail, new
  <1>8. SetupJobs'
    <2>1. ASSUME NEW k \in Jobs, job'[k].for = Setup
          PROVE  /\ new.setup = page[p].setup /\ NoSetup(new.inbox) /\ NoSetup(page[p].inbox)
                 /\ job[k].for = Setup
      <3>1. job[k].for = Setup
        BY <2>1 DEF FewerJobs
      <3>2. NoSetup(page[p].inbox) /\ new.setup = page[p].setup
            /\ In(new.inbox) = In(pg.inbox)
        BY <1>5, <1>6, <3>1 DEF Protocol, SetupJobs
      <3>3. NoSetup(new.inbox)
        BY <3>2 DEF NoSetup, Trimmed, Mail
      <3> QED BY <3>1, <3>2, <3>3
    <2> QED BY <1>1, <2>1 DEF FewerJobs, Protocol, SetupJobs, BusStages, WalletStages, new
  <1>9. PingsAreShared'
    BY <1>1, <1>2, <1>6 DEF Protocol, PingsAreShared, new
  <1>10. PagesAreOpen'
    BY <1>1, <1>2, <1>6 DEF Protocol, PagesAreOpen, new
  <1>11. ClearsAlone'
    BY <1>1, <1>2, <1>3, <1>6 DEF Protocol, ClearsAlone, new
  <1>12. ClearsUndisturbed'
    <2> SUFFICES ASSUME NEW k \in Jobs, job'[k].stage = "clearing"
                 PROVE  /\ new.setup = "none" /\ new.open = "yes"
                        /\ new.pinging => \E m \in In(new.inbox) : m.for = Ping
      BY <1>1 DEF ClearsUndisturbed, Mail, new
    <2>1. /\ page[p].setup = "none" /\ page[p].open = "yes"
          /\ page[p].pinging => \E m \in Mail(p) : m.for = Ping
      BY DEF FewerJobs, Protocol, ClearsUndisturbed
    <2>2. outcome # "notInitialized"
      BY DEF BusFollows
    <2> QED BY <1>3, <1>6, <2>1, <2>2 DEF Trimmed
  <1> QED BY <1>7, <1>8, <1>9, <1>10, <1>11, <1>12 DEF Protocol

\* Nothing happens but to jobs.
LEMMA JobsProtocol ==
    ASSUME Alone, Types, Types', Protocol, BusFollows', UNCHANGED <<page, call>>, FewerJobs
    PROVE  Protocol'
  <1>1. \A k \in Jobs : job'[k].page = job[k].page
    BY WorkerAssumption DEF Alone, Types, JobType
  <1>2. MailExpected'
    BY DEF Protocol, MailExpected, Mail, Expected
  <1>3. SetupJobs'
    <2>1. ASSUME NEW k \in Jobs, job'[k].for = Setup
          PROVE  /\ \/ job'[k].stage \in BusStages /\ page[job'[k].page].setup = "bus"
                    \/ job'[k].stage \in WalletStages /\ page[job'[k].page].setup = "wallet"
                 /\ \A p \in Pages : NoSetup(page[p].inbox)
                 /\ \A i \in Jobs : job'[i].for = Setup => k = i
      <3>1. job[k].for = Setup /\ job'[k].page = job[k].page
        BY <1>1, <2>1, WorkerAssumption DEF FewerJobs
      <3>2. \A p \in Pages : NoSetup(page[p].inbox)
        BY <3>1 DEF Protocol, SetupJobs
      <3>3. \A i \in Jobs : job'[i].for = Setup => k = i
        BY <3>1 DEF FewerJobs, Protocol, SetupJobs
      <3>4. \/ job'[k].stage \in BusStages /\ page[job'[k].page].setup = "bus"
            \/ job'[k].stage \in WalletStages /\ page[job'[k].page].setup = "wallet"
        BY <2>1, <3>1 DEF FewerJobs, Protocol, SetupJobs, BusStages, WalletStages
      <3> QED BY <3>2, <3>3, <3>4
    <2>2. \A k \in Jobs : job'[k].stage \in BusStages \cup WalletStages => job'[k].for = Setup
      BY DEF FewerJobs, Protocol, SetupJobs
    <2> QED BY <2>1, <2>2 DEF SetupJobs
  <1>4. PingsAreShared' /\ PagesAreOpen' /\ ClearsAlone'
    BY DEF Protocol, PingsAreShared, PagesAreOpen, ClearsAlone
  <1>5. ClearsUndisturbed'
    BY DEF FewerJobs, Protocol, ClearsUndisturbed, Mail
  <1> QED BY <1>2, <1>3, <1>4, <1>5 DEF Protocol

-----------------------------------------------------------------------------
(* The steps and what is expected. *)

\* No initialisation is under way.
LEMMA NoneSetUp ==
    ASSUME Alone, Types, Protocol, NEW p \in Pages, page[p].setup = "none"
    PROVE  NoSetup(page[p].inbox) /\ \A k \in Jobs : job[k].for # Setup
  <1>1. \A k \in Jobs : job[k].page = p
    BY OnePage
  <1>2. \A m \in Mail(p) : Expected(p, m)
    BY DEF Protocol, MailExpected
  <1>3. Setup # Ping /\ Setup \notin Calls
    BY WorkerAssumption
  <1>4. NoSetup(page[p].inbox)
    BY <1>2, <1>3 DEF Expected, NoSetup, Mail
  <1>5. \A k \in Jobs : job[k].for # Setup
    BY <1>1 DEF Protocol, SetupJobs
  <1> QED BY <1>4, <1>5

\* A page as it is, or with its first message taken.
LEMMA TrimmedSame ==
    ASSUME Types, Protocol, NEW p \in Pages PROVE Trimmed(p, page[p])
  BY DEF Types, Protocol, MailExpected, Trimmed, Mail

\* Or with its first message taken, unless the page waits for its ping.
LEMMA TrimmedRest ==
    ASSUME Types, Protocol, NEW p \in Pages, page[p].inbox # <<>>, Sender(p) # Ping
    PROVE  Trimmed(p, Rest(p))
  BY MailTaken DEF Protocol, MailExpected, Trimmed

\* While the bus is as it was, fewer jobs follow it.
LEMMA BusKept ==
    ASSUME Protocol, FewerJobs, initialized' = initialized PROVE BusFollows'
  BY DEF Protocol, BusFollows, FewerJobs

\* The same jobs are no more.
LEMMA JobsKept == ASSUME Protocol, job' = job PROVE FewerJobs
  BY DEF FewerJobs, Protocol, SetupJobs

\* A job's answer, whoever waits for it.
LEMMA JobAnsweredProtocol ==
    ASSUME Alone, OnceInv, OnceInv', Protocol, BusFollows', NEW j \in Jobs,
           NEW outcome \in Outcome \ {"notInitialized"},
           Answer(job[j].page, page[job[j].page], job[j].for, outcome),
           FewerJobs, job'[j].for = Nobody, \A k \in Jobs : k # j => job'[k] = job[k]
    PROVE  Protocol'
  <1> DEFINE p == job[j].page
  <1>1. Types /\ Types' /\ \A c \in Calls : Once(c)
    BY DEF OnceInv
  <1>2. p \in Pages /\ Nobody # Setup
    BY <1>1, WorkerAssumption DEF Types, JobType
  <1>3. Trimmed(p, page[p])
    BY <1>1, <1>2, TrimmedSame
  <1>4. CASE job[j].for = Setup /\ SetupAnswered(p, page[p], outcome)
    <2>1. /\ page[p].setup # "none" /\ NoSetup(page[p].inbox)
          /\ \A k \in Jobs : job[k].for = Setup => k = j
      BY <1>2, <1>4 DEF Protocol, SetupJobs
    <2>2. \A k \in Jobs : job'[k].for # Setup
      BY <1>2, <2>1
    <2> HIDE DEF p
    <2> QED BY <1>1, <1>2, <1>3, <1>4, <2>1, <2>2, SetupAnsweredProtocol
  <1>5. CASE job[j].for \in Calls /\ CallAnswered(p, page[p], job[j].for, outcome)
    <2>1. call[job[j].for].stage = "sent"
      BY <1>1, <1>5 DEF Once, JobHas
    <2>2. \A m \in In(page[p].inbox) : m.for # job[j].for
      BY <1>1, <1>2, <1>5, OnlyJob DEF In
    <2> HIDE DEF p
    <2> QED BY <1>1, <1>2, <1>3, <1>5, <2>1, <2>2, CallAnsweredProtocol
  <1>6. CASE page' = [page EXCEPT ![p] = page[p]] /\ UNCHANGED call
    <2>1. page' = page
      BY <1>1, <1>2, <1>6 DEF Types
    <2> QED BY <1>1, <1>6, <2>1, JobsProtocol
  <1> QED BY <1>4, <1>5, <1>6 DEF Answer

\* The awaits of the worker that end.
LEMMA WorkProtocol ==
    ASSUME Alone, OnceInv, OnceInv', Protocol, NEW j \in Jobs, Work(j)
    PROVE  Protocol'
  <1>1. Types /\ Types' /\ SetupJobs /\ job \in [Jobs -> JobType]
    BY DEF OnceInv, Protocol, Types
  <1>2. {"ok", "failed"} \subseteq Outcome \ {"notInitialized"}
    BY DEF Outcome
  <1>3. ASSUME Freed(j), initialized' = initialized, NEW outcome \in {"ok", "failed"},
               Answer(job[j].page, page[job[j].page], job[j].for, outcome)
        PROVE  Protocol'
    <2>1. FewerJobs /\ job'[j].for = Nobody /\ \A k \in Jobs : k # j => job'[k] = job[k]
      BY <1>1, <1>3, FreedFewer
    <2>2. BusFollows'
      BY <1>3, <2>1, BusKept
    <2> QED BY <1>2, <1>3, <2>1, <2>2, JobAnsweredProtocol
  <1>4. ASSUME NEW x, job' = [job EXCEPT ![j] = x], x.for = job[j].for,
               \/ job[j].stage \in BusStages /\ x.stage \in BusStages
               \/ job[j].stage \in WalletStages /\ x.stage \in WalletStages,
               UNCHANGED <<page, call, initialized>>
        PROVE  Protocol'
    <2>1. FewerJobs
      BY <1>1, <1>4, StagedFewer
    <2>2. BusFollows'
      BY <1>4, <2>1, BusKept
    <2> QED BY <1>1, <1>4, <2>1, <2>2, JobsProtocol
  <1>5. CASE HandlersStopped(j)
    <2> DEFINE x == [job[j] EXCEPT !.stage = "building"]
    <2>1. job' = [job EXCEPT ![j] = x] /\ x.for = job[j].for /\ x.stage = "building"
      BY <1>1, <1>5 DEF HandlersStopped, JobType
    <2>2. UNCHANGED <<page, call, initialized>> /\ job[j].stage = "stopping"
      BY <1>5 DEF HandlersStopped
    <2> HIDE DEF x
    <2> QED BY <1>4, <2>1, <2>2 DEF BusStages
  <1>6. CASE ServicesBuilt(j)
    <2>1. FewerJobs /\ job'[j].for = Nobody /\ \A k \in Jobs : k # j => job'[k] = job[k]
      BY <1>1, <1>6, FreedFewer DEF ServicesBuilt
    <2>2. job[j].for = Setup /\ Nobody # Setup /\ initialized'
      BY <1>1, <1>6, WorkerAssumption DEF ServicesBuilt, SetupJobs, BusStages
    <2>3. \A k \in Jobs : job'[k].stage \notin BusStages
      BY <1>1, <2>1, <2>2 DEF FewerJobs, SetupJobs
    <2>4. BusFollows'
      BY <2>2, <2>3 DEF BusFollows
    <2> QED BY <1>2, <1>6, <2>1, <2>4, JobAnsweredProtocol DEF ServicesBuilt
  <1>7. CASE ContractsReady(j)
    <2> DEFINE x == [job[j] EXCEPT !.stage = "refreshing", !.wallet = NoWallet]
    <2>1. job' = [job EXCEPT ![j] = x] /\ x.for = job[j].for /\ x.stage = "refreshing"
      BY <1>1, <1>7 DEF ContractsReady, JobType
    <2>2. UNCHANGED <<page, call, initialized>> /\ job[j].stage = "contracts"
      BY <1>7 DEF ContractsReady
    <2> HIDE DEF x
    <2> QED BY <1>4, <2>1, <2>2 DEF WalletStages
  <1>8. CASE Refreshed(j)
    <2>1. CASE /\ Freed(j)
               /\ Answer(job[j].page, page[job[j].page], job[j].for, "failed")
      BY <1>3, <1>8, <2>1 DEF Refreshed
    <2>2. CASE job' = [job EXCEPT ![j].stage = "subscribing"] /\ UNCHANGED <<page, call>>
      <3> DEFINE x == [job[j] EXCEPT !.stage = "subscribing"]
      <3>1. job' = [job EXCEPT ![j] = x] /\ x.for = job[j].for /\ x.stage = "subscribing"
        BY <1>1, <2>2 DEF JobType
      <3>2. UNCHANGED <<page, call, initialized>> /\ job[j].stage = "refreshing"
        BY <1>8, <2>2 DEF Refreshed
      <3> HIDE DEF x
      <3> QED BY <1>4, <3>1, <3>2 DEF WalletStages
    <2> QED BY <1>8, <2>1, <2>2 DEF Refreshed
  <1>9. CASE Subscribed(j)
    BY <1>3, <1>9 DEF Subscribed
  <1>10. CASE RequestDone(j)
    BY <1>3, <1>10 DEF RequestDone
  <1>11. CASE Cleared(j)
    BY <1>3, <1>11 DEF Cleared
  <1> QED BY <1>5, <1>6, <1>7, <1>8, <1>9, <1>10, <1>11 DEF Work

\* Those that fail or take too long.
LEMMA TroubleProtocol ==
    ASSUME Alone, OnceInv, OnceInv', Protocol, NEW j \in Jobs, Trouble(j)
    PROVE  Protocol'
  <1>1. Types /\ Types' /\ SetupJobs /\ job \in [Jobs -> JobType]
    BY DEF OnceInv, Protocol, Types
  <1>2. {"failed", "timeout"} \subseteq Outcome \ {"notInitialized"}
    BY DEF Outcome
  <1>3. initialized' = initialized
    BY DEF Trouble, BuildFails, HandlingFails, HandlingTimesOut
  <1>4. ASSUME Freed(j)
        PROVE  /\ FewerJobs /\ job'[j].for = Nobody /\ BusFollows'
               /\ \A k \in Jobs : k # j => job'[k] = job[k]
    BY <1>1, <1>3, <1>4, FreedFewer, BusKept
  <1>5. CASE BuildFails(j)
    BY <1>1, <1>4, <1>5, JobsProtocol DEF BuildFails
  <1>6. CASE HandlingFails(j)
    BY <1>2, <1>4, <1>6, JobAnsweredProtocol DEF HandlingFails
  <1>7. CASE HandlingTimesOut(j)
    <2>1. /\ job[j].stage \in {"running", "clearing"}
          /\ Answer(job[j].page, page[job[j].page], job[j].for, "timeout")
      BY <1>7 DEF HandlingTimesOut, Alone
    <2>2. /\ job'[j].for = Nobody /\ job'[j].stage = job[j].stage
          /\ \A k \in Jobs : k # j => job'[k] = job[k]
      BY <1>1, <1>7 DEF HandlingTimesOut, JobType
    <2>3. FewerJobs
      BY <1>1, <2>1, <2>2, WorkerAssumption DEF FewerJobs, SetupJobs, BusStages, WalletStages
    <2>4. BusFollows'
      BY <1>3, <2>3, BusKept
    <2> QED BY <1>2, <2>1, <2>2, <2>3, <2>4, JobAnsweredProtocol
  <1> QED BY <1>5, <1>6, <1>7 DEF Trouble

\* Timers: nothing is left of what they were for.
LEMMA DisownedFewer ==
    ASSUME Types, Protocol, NEW p \in Pages, NEW w, DisownJobs(p, w),
           \A j \in Jobs : job[j].stage # "idle" => job[j].for # w, w # Nobody,
           \A j \in Jobs : job[j].page = p
    PROVE  FewerJobs /\ \A k \in Jobs : job'[k].for # w
  <1>1. \A k \in Jobs : /\ job[k].for = w => job'[k] = [job[k] EXCEPT !.for = Nobody]
                        /\ job[k].for # w => job'[k] = job[k]
    BY DEF DisownJobs
  <1>2. \A k \in Jobs : job[k].for = w =>
            job[k].stage = "idle" /\ job'[k].stage = "idle" /\ job'[k].for = Nobody
    BY <1>1 DEF Types, JobType
  <1> QED BY <1>1, <1>2, WorkerAssumption
          DEF FewerJobs, Protocol, SetupJobs, BusStages, WalletStages

\* An initialisation that was lost is given up.
LEMMA SetupTimesOutProtocol ==
    ASSUME Alone, OnceInv, OnceInv', Protocol, NEW p \in Pages, SetupTimesOut(p)
    PROVE  Protocol'
  <1>1. Types /\ Types' /\ Setup # Nobody
    BY WorkerAssumption DEF OnceInv
  <1>2. \A j \in Jobs : job[j].page = p
    BY <1>1, OnePage
  <1>3. /\ \A m \in Mail(p) : m.for # Setup
        /\ [page[p] EXCEPT !.inbox = Disowned(@, Setup)] = page[p]
        /\ \A j \in Jobs : job[j].stage # "idle" => job[j].for # Setup
    BY <1>1, NothingDisowned DEF SetupTimesOut
  <1>4. FewerJobs /\ \A k \in Jobs : job'[k].for # Setup
    BY <1>1, <1>2, <1>3, DisownedFewer DEF SetupTimesOut
  <1>5. BusFollows'
    BY <1>4, BusKept DEF SetupTimesOut
  <1>6. SetupAnswered(p, page[p], "timeout") /\ page[p].setup # "none"
    BY <1>3 DEF SetupTimesOut
  <1>7. NoSetup(page[p].inbox) /\ Trimmed(p, page[p])
    BY <1>1, <1>3, TrimmedSame DEF NoSetup, Mail
  <1> QED BY <1>1, <1>4, <1>5, <1>6, <1>7, SetupAnsweredProtocol DEF Outcome

\* A request that was lost is given up: it is not sent again.
LEMMA CallTimesOutProtocol ==
    ASSUME Alone, OnceInv, OnceInv', Protocol, NEW c \in Calls, CallTimesOut(c)
    PROVE  Protocol'
  <1> DEFINE p == PageOf[c]
  <1>1. Types /\ Types' /\ c # Nobody /\ p \in Pages
    BY WorkerAssumption DEF OnceInv
  <1>2. \A j \in Jobs : job[j].page = p
    BY <1>1, OnePage
  <1>3. /\ \A m \in Mail(p) : m.for # c
        /\ [page[p] EXCEPT !.inbox = Disowned(@, c)] = page[p]
        /\ \A j \in Jobs : job[j].stage # "idle" => job[j].for # c
    BY <1>1, NothingDisowned DEF CallTimesOut
  <1>4. FewerJobs
    BY <1>1, <1>2, <1>3, DisownedFewer DEF CallTimesOut
  <1>5. BusFollows'
    BY <1>4, BusKept DEF CallTimesOut
  <1>6. CallAnswered(p, page[p], c, "timeout") /\ call[c].stage = "sent"
    BY <1>3 DEF CallTimesOut
  <1>7. Trimmed(p, page[p]) /\ \A m \in In(page[p].inbox) : m.for # c
    BY <1>1, <1>3, TrimmedSame DEF Mail
  <1> HIDE DEF p
  <1> QED BY <1>1, <1>4, <1>5, <1>6, <1>7, CallAnsweredProtocol DEF Outcome

\* A page that initialises the worker again while it is not being used.
LEMMA ReinitializedProtocol ==
    ASSUME Alone, Types, Types', Protocol, NEW p \in Pages, NEW mid \in PageType,
           mid.inbox = page[p].inbox, mid.setup = page[p].setup,
           page[p].open = "yes" => mid.open = "yes",
           mid.pinging => \E c \in Calls : call'[c].stage = "ping",
           page' = [page EXCEPT ![p] = Reinitialized(mid)],
           UNCHANGED <<initialized, job>>,
           \A c \in Calls : \/ call'[c] = call[c]
                            \/ /\ call[c].stage = "ping" /\ call'[c].stage = "reinit"
                               /\ call'[c].request = call[c].request,
           \A c \in Calls : call'[c].request = "clear" => call'[c].stage \in {"idle", "reinit"},
           \A j \in Jobs : job[j].stage # "clearing"
    PROVE  Protocol'
  <1> DEFINE new == page'[p]
             init == [kind |-> "INITIALIZE_MESSAGE_BUS", for |-> Setup]
  <1>1. /\ \A q \in Pages : q = p
        /\ \A d \in Calls : PageOf[d] = p
        /\ \A k \in Jobs : job[k].page = p
        /\ new = Reinitialized(mid)
    BY OnePage
  <1> HIDE DEF new
  <1>2. /\ new.open = mid.open /\ new.pinging = mid.pinging
        /\ mid.setup # "none" => new = mid
        /\ mid.setup = "none" =>
             /\ new.setup = "bus"
             /\ In(new.inbox) = In(mid.inbox) \cup {init}
             /\ SetupOnce(mid.inbox) /\ NoSetup(mid.inbox) => SetupOnce(new.inbox)
    BY <1>1, ReinitializedMail, Zenon
  <1>3. page[p].setup = "none" => NoSetup(page[p].inbox) /\ \A k \in Jobs : job[k].for # Setup
    BY NoneSetUp
  <1>4. /\ SetupOnce(new.inbox) /\ new.open = mid.open /\ new.pinging = mid.pinging
        /\ \/ new.setup = page[p].setup /\ In(new.inbox) = Mail(p) /\ new.inbox = page[p].inbox
           \/ /\ page[p].setup = "none" /\ new.setup = "bus"
              /\ In(new.inbox) = Mail(p) \cup {init}
    BY <1>2, <1>3 DEF Protocol, MailExpected, Mail
  <1>5. MailExpected'
    <2>1. ASSUME NEW m \in In(new.inbox) PROVE Expected(p, m)'
      <3>1. CASE m = init /\ new.setup = "bus"
        BY <3>1 DEF Expected, new
      <3>2. CASE m \in Mail(p)
        <4>1. Expected(p, m) /\ (m.for = Setup => page[p].setup # "none")
          BY <1>3, <3>2 DEF Protocol, MailExpected, NoSetup, Mail
        <4>2. m.for \in Calls /\ call[m.for].stage = "sent" => call'[m.for] = call[m.for]
          OBVIOUS
        <4>3. m.for = Setup => new.setup = page[p].setup
          BY <1>4, <4>1
        <4> QED BY <4>1, <4>2, <4>3 DEF Expected, new
      <3> QED BY <1>4, <3>1, <3>2
    <2> QED BY <1>1, <1>4, <2>1 DEF MailExpected, Mail, new
  <1>6. SetupJobs'
    <2>1. ASSUME NEW k \in Jobs, job[k].for = Setup
          PROVE  new.setup = page[p].setup /\ new.inbox = page[p].inbox
      BY <1>3, <1>4, <2>1
    <2>2. \A q \in Pages : page'[q] = new
      BY <1>1 DEF new
    <2> QED BY <1>1, <2>1, <2>2 DEF Protocol, SetupJobs
  <1>7. PingsAreShared'
    BY <1>1, <1>4 DEF PingsAreShared, new
  <1>8. PagesAreOpen'
    BY <1>1, <1>4 DEF Protocol, PagesAreOpen, new
  <1>9. ClearsAlone'
    BY <1>1 DEF Protocol, ClearsAlone
  <1>10. ClearsUndisturbed' /\ BusFollows'
    BY DEF Protocol, ClearsUndisturbed, BusFollows
  <1> QED BY <1>5, <1>6, <1>7, <1>8, <1>9, <1>10 DEF Protocol

\* create(): nothing of the page is under way.
LEMMA CreateProtocol ==
    ASSUME Alone, OnceInv, OnceInv', Protocol, NEW p \in Pages, Create(p)
    PROVE  Protocol'
  <1> DEFINE mid == [page[p] EXCEPT !.open = "creating"]
  <1>1. Types /\ Types' /\ page[p].open = "no" /\ UNCHANGED <<call, initialized, job>>
    BY DEF OnceInv, Create, worker
  <1>2. page[p] \in PageType /\ \A c \in Calls : PageOf[c] = p
    BY <1>1, OnePage
  <1>3. /\ mid \in PageType /\ mid.inbox = page[p].inbox /\ mid.setup = page[p].setup
        /\ mid.pinging = page[p].pinging
    BY <1>2 DEF PageType
  <1>4. \A c \in Calls : call[c].stage = "idle"
    BY <1>1, <1>2 DEF Protocol, PagesAreOpen
  <1>5. ~mid.pinging
    BY <1>3, <1>4 DEF Protocol, PingsAreShared
  <1>6. \A j \in Jobs : job[j].stage # "clearing"
    BY <1>1 DEF Protocol, ClearsUndisturbed
  <1>7. page' = [page EXCEPT ![p] = Reinitialized(mid)]
    BY <1>1 DEF Create, Types
  <1> HIDE DEF mid
  <1> QED BY <1>1, <1>3, <1>4, <1>5, <1>6, <1>7, ReinitializedProtocol

\* A ping that was lost: whoever shared it initialises the worker again.
LEMMA PingTimesOutProtocol ==
    ASSUME Alone, OnceInv, OnceInv', Protocol, NEW p \in Pages, PingTimesOut(p)
    PROVE  Protocol'
  <1> DEFINE mid == [page[p] EXCEPT !.pinging = FALSE]
  <1>1. /\ Types /\ Types' /\ page[p].pinging /\ TimerFires(p, Ping)
        /\ UNCHANGED <<initialized, job>>
    BY DEF OnceInv, PingTimesOut, worker
  <1>2. page[p] \in PageType /\ \A c \in Calls : PageOf[c] = p
    BY <1>1, OnePage
  <1>3. /\ \A m \in Mail(p) : m.for # Ping
        /\ [page[p] EXCEPT !.inbox = Disowned(@, Ping)] = page[p]
    BY <1>1, NothingDisowned
  <1>4. /\ mid \in PageType /\ mid.inbox = page[p].inbox /\ mid.setup = page[p].setup
        /\ mid.open = page[p].open /\ ~mid.pinging
    BY <1>2 DEF PageType
  <1>5. Unanswered(p) = mid
    <2>1. [page[p] EXCEPT !.inbox = Disowned(@, Ping)].inbox = Disowned(page[p].inbox, Ping)
      BY <1>2 DEF PageType
    <2>2. Disowned(page[p].inbox, Ping) = page[p].inbox
      BY <1>3, <2>1
    <2> QED BY <1>2, <2>2 DEF Unanswered, PageType
  <1>6. page' = [page EXCEPT ![p] = Reinitialized(mid)]
    BY <1>5 DEF PingTimesOut
  <1>7. \A c \in Calls : call'[c] = IF call[c].stage = "ping"
                                    THEN [call[c] EXCEPT !.stage = "reinit"] ELSE call[c]
    BY <1>2 DEF PingTimesOut, MovedOn
  <1>8. \A c \in Calls : \/ call'[c] = call[c] /\ call[c].stage # "ping"
                         \/ /\ call[c].stage = "ping" /\ call'[c].stage = "reinit"
                            /\ call'[c].request = call[c].request
    <2>1. \A c \in Calls : [call[c] EXCEPT !.stage = "reinit"].stage = "reinit"
                           /\ [call[c] EXCEPT !.stage = "reinit"].request = call[c].request
      BY <1>1 DEF Types, CallType
    <2> QED BY <1>7, <2>1
  <1>9. ASSUME NEW c \in Calls, call'[c].request = "clear"
        PROVE  call'[c].stage \in {"idle", "reinit"}
    <2>1. PICK d \in Calls : call[d].stage = "ping"
      BY <1>1 DEF Protocol, PingsAreShared
    <2>2. call[c].stage = "idle" \/ c = d
      BY <1>8, <1>9, <2>1 DEF Protocol, ClearsAlone
    <2> QED BY <1>8, <2>1, <2>2
  <1>10. \A j \in Jobs : job[j].stage # "clearing"
    BY <1>1, <1>3 DEF Protocol, ClearsUndisturbed
  <1> HIDE DEF mid
  <1> QED BY <1>1, <1>4, <1>6, <1>8, <1>9, <1>10, ReinitializedProtocol

\* Once everything of the page has ended, nothing is expected.
LEMMA CloseProtocol ==
    ASSUME Alone, OnceInv, OnceInv', Protocol, NEW p \in Pages, Close(p)
    PROVE  Protocol'
  <1>1. Types /\ Types' /\ Quiet(p) /\ initialized' = initialized
    BY DEF OnceInv, Close, Alone
  <1>2. /\ \A q \in Pages : q = p
        /\ \A c \in Calls : PageOf[c] = p
        /\ \A k \in Jobs : job[k].page = p
    BY <1>1, OnePage
  <1>3. /\ \A c \in Calls : call'[c].stage = "idle"
        /\ \A k \in Jobs : job'[k].stage = "idle" /\ job'[k].for = Nobody
    <2>1. \A c \in Calls : call'[c] = IdleCall
      BY <1>2 DEF Close
    <2>2. \A k \in Jobs : job'[k] = [job[k] EXCEPT !.for = Nobody] /\ job[k].stage = "idle"
      BY <1>1, <1>2 DEF Close, Quiet
    <2> QED BY <1>1, <2>1, <2>2 DEF IdleCall, Types, JobType
  <1>4. ~page'[p].pinging /\ page'[p].inbox = <<>>
    <2> DEFINE none == [i \in DOMAIN page[p].inbox |-> [page[p].inbox[i] EXCEPT !.for = Nobody]]
    <2>1. none = <<>>
      BY <1>1 DEF Quiet
    <2>2. page'[p] = [NewPage EXCEPT !.inbox = none]
      BY <1>1 DEF Close, Types
    <2> HIDE DEF none
    <2> QED BY <2>1, <2>2 DEF NewPage
  <1>5. \A q \in Pages : DOMAIN page'[q].inbox = {} /\ ~page'[q].pinging
    BY <1>2, <1>4
  <1> QED BY <1>3, <1>5, WorkerAssumption
          DEF Protocol, MailExpected, SetupOnce, Mail, In, SetupJobs, PingsAreShared,
              PagesAreOpen, ClearsAlone, ClearsUndisturbed, BusFollows,
              BusStages, WalletStages

\* A request joins what the page has posted.
LEMMA PostProtocol ==
    ASSUME Alone, OnceInv, OnceInv', Protocol, NEW c \in Calls, Post(c)
    PROVE  Protocol'
  <1> DEFINE p == PageOf[c]
             new == page'[p]
             m == [kind |-> call[c].request, for |-> c]
  <1>1. /\ Types /\ Types' /\ p \in Pages /\ call[c].stage = "post"
        /\ UNCHANGED <<initialized, job>>
    BY WorkerAssumption DEF OnceInv, Post, worker
  <1>2. /\ \A q \in Pages : q = p
        /\ \A d \in Calls : PageOf[d] = p
        /\ \A k \in Jobs : job[k].page = p
        /\ page[p] \in PageType
    BY <1>1, OnePage
  <1>3. new = Posted(page[p], call[c].request, c)
    BY <1>1 DEF Post, Types
  <1>4. m \in Message /\ c # Setup /\ c # Ping
    BY <1>1, WorkerAssumption DEF Types, CallType, Message, Waiter
  <1>5. /\ \A d \in Calls : d # c => call'[d] = call[d]
        /\ call'[c].stage = "sent" /\ call'[c].request = call[c].request
    BY <1>1 DEF Post, Types, CallType
  <1> HIDE DEF p, new
  <1>6. /\ new.setup = page[p].setup /\ new.open = page[p].open
        /\ new.pinging = page[p].pinging
        /\ In(new.inbox) = Mail(p) \cup {m}
        /\ SetupOnce(page[p].inbox) => SetupOnce(new.inbox)
    BY <1>2, <1>3, <1>4, PostedMail DEF Mail
  <1>7. MailExpected'
    <2>1. ASSUME NEW x \in In(new.inbox) PROVE Expected(p, x)'
      <3>1. CASE x = m
        BY <1>5, <3>1 DEF Expected
      <3>2. CASE x \in Mail(p)
        <4>1. Expected(p, x)
          BY <1>1, <3>2 DEF Protocol, MailExpected
        <4>2. x.for \in Calls /\ call[x.for].stage = "sent" => call'[x.for] = call[x.for]
          BY <1>1, <1>5
        <4> QED BY <1>6, <4>1, <4>2 DEF Expected, new
      <3> QED BY <1>6, <3>1, <3>2
    <2> QED BY <1>1, <1>2, <1>6, <2>1 DEF Protocol, MailExpected, Mail, new
  <1>8. SetupJobs'
    <2>1. NoSetup(page[p].inbox) => NoSetup(new.inbox)
      BY <1>4, <1>6 DEF NoSetup, Mail
    <2>2. \A q \in Pages : page'[q] = new
      BY <1>2 DEF new
    <2> QED BY <1>1, <1>2, <1>6, <2>1, <2>2 DEF Protocol, SetupJobs
  <1>9. PingsAreShared'
    BY <1>1, <1>2, <1>5, <1>6 DEF Protocol, PingsAreShared, new
  <1>10. PagesAreOpen'
    BY <1>1, <1>2, <1>5, <1>6 DEF Protocol, PagesAreOpen, new
  <1>11. ClearsAlone'
    <2>1. \A d \in Calls : /\ call'[d].request = call[d].request
                           /\ call'[d].stage = "idle" <=> call[d].stage = "idle"
                           /\ call'[d].stage = "reinit" <=> call[d].stage = "reinit"
      BY <1>1, <1>5
    <2>2. page'[p].setup = page[p].setup
      BY <1>6 DEF new
    <2> QED BY <1>2, <2>1, <2>2 DEF Protocol, ClearsAlone
  <1>12. ClearsUndisturbed'
    BY <1>1, <1>2, <1>6 DEF Protocol, ClearsUndisturbed, Mail, new
  <1>13. BusFollows'
    BY <1>1 DEF Protocol, BusFollows
  <1> QED BY <1>7, <1>8, <1>9, <1>10, <1>11, <1>12, <1>13 DEF Protocol

\* A method shares the ping of the page, or posts one.
LEMMA BeginProtocol ==
    ASSUME Alone, OnceInv, OnceInv', Protocol, NEW c \in Calls, NEW request \in Requests,
           Begin(c, request)
    PROVE  Protocol'
  <1> DEFINE p == PageOf[c]
             new == page'[p]
             ping == [kind |-> "PING", for |-> Ping]
             mid == [page[p] EXCEPT !.pinging = TRUE]
  <1>1. /\ Types /\ Types' /\ p \in Pages /\ call[c].stage = "idle"
        /\ page[p].open = "yes" /\ UNCHANGED <<initialized, job>>
        /\ ~Clearing(p) /\ (request = "clear" => Quiet(p))
    BY WorkerAssumption DEF OnceInv, Begin, worker, MayBegin, Alone
  <1>2. /\ \A q \in Pages : q = p
        /\ \A d \in Calls : PageOf[d] = p
        /\ \A k \in Jobs : job[k].page = p
        /\ page[p] \in PageType
    BY <1>1, OnePage
  <1>3. /\ mid \in PageType /\ mid.setup = page[p].setup /\ mid.open = page[p].open
        /\ mid.pinging /\ mid.inbox = page[p].inbox
    BY <1>2 DEF PageType
  <1>4. /\ \A d \in Calls : d # c => call'[d] = call[d]
        /\ call'[c].stage = "ping" /\ call'[c].request = request
    <2>1. /\ \A d \in Calls : d # c => call'[d] = call[d]
          /\ call'[c] = [IdleCall EXCEPT !.stage = "ping", !.request = request]
      BY <1>1 DEF Begin, Types
    <2> QED BY <2>1 DEF IdleCall
  <1>5. IF page[p].pinging THEN new = page[p] ELSE new = Posted(mid, "PING", Ping)
    BY <1>1 DEF Begin, Types
  <1> HIDE DEF p, new, mid
  <1>6. LET t == Posted(mid, "PING", Ping) IN
        /\ t.setup = mid.setup /\ t.open = mid.open /\ t.pinging = mid.pinging
        /\ In(t.inbox) = In(mid.inbox) \cup {ping}
        /\ SetupOnce(mid.inbox) /\ (Ping = Setup => NoSetup(mid.inbox)) => SetupOnce(t.inbox)
    BY <1>3, SetupMessages, PostedMail, Zenon
  <1>7. Ping # Setup
    BY WorkerAssumption
  <1>8. /\ new.setup = page[p].setup /\ new.open = page[p].open /\ SetupOnce(new.inbox)
        /\ Mail(p) \subseteq In(new.inbox) /\ In(new.inbox) \subseteq Mail(p) \cup {ping}
        /\ page[p].pinging \/ ping \in In(new.inbox)
    BY <1>1, <1>3, <1>5, <1>6, <1>7 DEF Protocol, MailExpected, Mail
  <1>9. MailExpected'
    <2>1. ASSUME NEW x \in In(new.inbox) PROVE Expected(p, x)'
      <3>1. CASE x = ping
        BY <3>1 DEF Expected
      <3>2. CASE x \in Mail(p)
        <4>1. Expected(p, x)
          BY <1>1, <3>2 DEF Protocol, MailExpected
        <4>2. x.for \in Calls /\ call[x.for].stage = "sent" => call'[x.for] = call[x.for]
          BY <1>1, <1>4
        <4> QED BY <1>8, <4>1, <4>2 DEF Expected, new
      <3> QED BY <1>8, <3>1, <3>2
    <2> QED BY <1>1, <1>2, <1>8, <2>1 DEF MailExpected, Mail, new
  <1>10. SetupJobs'
    <2>1. NoSetup(page[p].inbox) => NoSetup(new.inbox)
      BY <1>7, <1>8 DEF NoSetup, Mail
    <2>2. \A q \in Pages : page'[q] = new
      BY <1>2 DEF new
    <2> QED BY <1>1, <1>2, <1>8, <2>1, <2>2 DEF Protocol, SetupJobs
  <1>11. PingsAreShared'
    BY <1>4 DEF PingsAreShared
  <1>12. PagesAreOpen'
    BY <1>1, <1>2, <1>8 DEF PagesAreOpen, new
  <1>13. ClearsAlone'
    <2>1. ASSUME NEW d \in Calls, d # c, call'[d].stage # "idle", call'[d].request = "clear"
          PROVE  FALSE
      BY <1>1, <1>2, <1>4, <2>1 DEF Clearing
    <2>2. ASSUME request = "clear"
          PROVE  page'[p].setup = "none" /\ \A d \in Calls : d # c => call'[d].stage = "idle"
      BY <1>1, <1>2, <1>4, <1>8, <2>2 DEF Quiet, new
    <2> QED BY <1>2, <1>4, <2>1, <2>2 DEF ClearsAlone
  <1>14. ClearsUndisturbed'
    <2> SUFFICES ASSUME NEW k \in Jobs, job[k].stage = "clearing"
                 PROVE  /\ new.setup = "none" /\ new.open = "yes"
                        /\ \E m \in In(new.inbox) : m.for = Ping
      BY <1>1, <1>2 DEF ClearsUndisturbed, Mail, new
    <2> QED BY <1>1, <1>8 DEF Protocol, ClearsUndisturbed
  <1>15. BusFollows'
    BY <1>1 DEF Protocol, BusFollows
  <1> QED BY <1>9, <1>10, <1>11, <1>12, <1>13, <1>14, <1>15 DEF Protocol

\* A PONG releases the calls that wait for it.
LEMMA TakePingProtocol ==
    ASSUME Alone, OnceInv, OnceInv', Protocol, NEW p \in Pages, TakePing(p)
    PROVE  Protocol'
  <1> DEFINE new == page'[p]
  <1>1. /\ Types /\ Types' /\ page[p].inbox # <<>> /\ Head(page[p].inbox).kind = "PING"
        /\ UNCHANGED <<initialized, job>>
    BY DEF OnceInv, TakePing, Took, worker
  <1>2. /\ \A q \in Pages : q = p
        /\ \A d \in Calls : PageOf[d] = p
        /\ \A k \in Jobs : job[k].page = p
    BY <1>1, OnePage
  <1>3. /\ Head(page[p].inbox) \in Mail(p) /\ Head(page[p].inbox).for = Sender(p)
        /\ Rest(p) \in PageType /\ Rest(p).setup = page[p].setup
        /\ Rest(p).open = page[p].open
        /\ Mail(p) = In(Rest(p).inbox) \cup {Head(page[p].inbox)}
        /\ SetupOnce(Rest(p).inbox)
    BY <1>1, MailTaken DEF Protocol, MailExpected
  <1>4. Sender(p) = Ping
    <2>1. Expected(p, Head(page[p].inbox))
      BY <1>3 DEF Protocol, MailExpected
    <2>2. \A c \in Calls : call[c].request # "PING"
      BY <1>1, WorkerAssumption DEF Types, CallType
    <2> QED BY <1>1, <1>3, <2>1, <2>2 DEF Expected
  <1>5. /\ page' = [page EXCEPT ![p] = [Rest(p) EXCEPT !.pinging = FALSE]]
        /\ call' = MovedOn(p, "ping", "post")
    BY <1>4 DEF TakePing
  <1>6. /\ new.setup = page[p].setup /\ new.open = page[p].open /\ ~new.pinging
        /\ In(new.inbox) \subseteq Mail(p) /\ SetupOnce(new.inbox)
    <2>1. new = [Rest(p) EXCEPT !.pinging = FALSE]
      BY <1>1, <1>5 DEF Types
    <2>2. new.inbox = Rest(p).inbox /\ new.setup = Rest(p).setup /\ new.open = Rest(p).open
          /\ ~new.pinging
      BY <1>3, <2>1 DEF PageType
    <2> QED BY <1>3, <2>2
  <1> HIDE DEF new
  <1>7. \A c \in Calls : \/ call'[c] = call[c]
                         \/ /\ call[c].stage = "ping" /\ call'[c].stage = "post"
                            /\ call'[c].request = call[c].request
    <2>1. \A c \in Calls : call'[c] = IF call[c].stage = "ping"
                                      THEN [call[c] EXCEPT !.stage = "post"] ELSE call[c]
      BY <1>2, <1>5 DEF MovedOn
    <2>2. \A c \in Calls : [call[c] EXCEPT !.stage = "post"].stage = "post"
                           /\ [call[c] EXCEPT !.stage = "post"].request = call[c].request
      BY <1>1 DEF Types, CallType
    <2> QED BY <2>1, <2>2
  <1>8. MailExpected'
    <2>1. ASSUME NEW m \in In(new.inbox) PROVE Expected(p, m)'
      <3>1. Expected(p, m)
        BY <1>6, <2>1 DEF Protocol, MailExpected
      <3>2. m.for \in Calls /\ call[m.for].stage = "sent" => call'[m.for] = call[m.for]
        BY <1>7
      <3> QED BY <1>6, <3>1, <3>2 DEF Expected, new
    <2> QED BY <1>2, <1>6, <2>1 DEF MailExpected, Mail, new
  <1>9. SetupJobs'
    <2>1. NoSetup(page[p].inbox) => NoSetup(new.inbox)
      BY <1>6 DEF NoSetup, Mail
    <2>2. \A q \in Pages : page'[q] = new
      BY <1>2 DEF new
    <2> QED BY <1>1, <1>2, <1>6, <2>1, <2>2 DEF Protocol, SetupJobs
  <1>10. PingsAreShared'
    BY <1>2, <1>6 DEF PingsAreShared, new
  <1>11. PagesAreOpen'
    BY <1>2, <1>6, <1>7 DEF Protocol, PagesAreOpen, new
  <1>12. ClearsAlone'
    BY <1>2, <1>6, <1>7 DEF Protocol, ClearsAlone, new
  <1>13. ClearsUndisturbed'
    BY <1>1, <1>2, <1>6 DEF Protocol, ClearsUndisturbed, new
  <1>14. BusFollows'
    BY <1>1 DEF Protocol, BusFollows
  <1> QED BY <1>8, <1>9, <1>10, <1>11, <1>12, <1>13, <1>14 DEF Protocol

\* What the worker is sent by a page that initialises it.
LEMMA SetupSender ==
    ASSUME Alone, Types, Protocol, NEW p \in Pages, page[p].inbox # <<>>,
           Head(page[p].inbox).kind \in {"INITIALIZE_MESSAGE_BUS", "INIT_WALLET"}
    PROVE  /\ Sender(p) = Setup /\ Head(page[p].inbox).for = Setup
           /\ page[p].setup = IF Head(page[p].inbox).kind = "INIT_WALLET"
                              THEN "wallet" ELSE "bus"
           /\ Trimmed(p, Rest(p)) /\ NoSetup(Rest(p).inbox)
           /\ \A k \in Jobs : /\ job[k].for # Setup
                              /\ job[k].stage \notin BusStages \cup WalletStages
                              /\ job[k].stage # "clearing"
  <1>1. Head(page[p].inbox) \in Mail(p) /\ Head(page[p].inbox).for = Sender(p)
    BY MailTaken
  <1>2. Expected(p, Head(page[p].inbox))
    BY <1>1 DEF Protocol, MailExpected
  <1>3. \A c \in Calls : call[c].request \in {"read", "clear"}
    BY WorkerAssumption DEF Types, CallType
  <1>4. /\ Sender(p) = Setup /\ Head(page[p].inbox).for = Setup
        /\ page[p].setup = IF Head(page[p].inbox).kind = "INIT_WALLET" THEN "wallet" ELSE "bus"
    BY <1>1, <1>2, <1>3 DEF Expected
  <1>5. Setup # Ping
    BY WorkerAssumption
  <1>6. Trimmed(p, Rest(p)) /\ NoSetup(Rest(p).inbox)
    BY <1>4, <1>5, TrimmedRest, MailTaken DEF Protocol, MailExpected
  <1>7. \A k \in Jobs : job[k].for # Setup
    BY <1>1, <1>4 DEF Protocol, SetupJobs, NoSetup, Mail
  <1>8. \A k \in Jobs : /\ job[k].stage \notin BusStages \cup WalletStages
                        /\ job[k].stage # "clearing"
    BY <1>4, <1>7 DEF Protocol, SetupJobs, ClearsUndisturbed
  <1> QED BY <1>4, <1>6, <1>7, <1>8

\* An initialisation that was a message becomes a job.
LEMMA SetupTakenProtocol ==
    ASSUME Alone, OnceInv, OnceInv', Protocol, BusFollows', NEW p \in Pages, NEW j \in Jobs,
           page[p].inbox # <<>>, NEW x, job' = [job EXCEPT ![j] = x], x.for = Setup,
           page' = [page EXCEPT ![p] = Rest(p)], UNCHANGED call,
           \/ Head(page[p].inbox).kind = "INITIALIZE_MESSAGE_BUS" /\ x.stage \in BusStages
           \/ Head(page[p].inbox).kind = "INIT_WALLET" /\ x.stage \in WalletStages
    PROVE  Protocol'
  <1>1. Types /\ Types'
    BY DEF OnceInv
  <1>2. /\ \A q \in Pages : q = p
        /\ \A d \in Calls : PageOf[d] = p
        /\ page'[p] = Rest(p)
    BY <1>1, OnePage
  <1>3. /\ page[p].setup = IF Head(page[p].inbox).kind = "INIT_WALLET" THEN "wallet" ELSE "bus"
        /\ Trimmed(p, Rest(p)) /\ NoSetup(Rest(p).inbox)
        /\ \A k \in Jobs : /\ job[k].for # Setup
                           /\ job[k].stage \notin BusStages \cup WalletStages
                           /\ job[k].stage # "clearing"
    BY <1>1, SetupSender
  <1>4. job'[j] = x /\ \A k \in Jobs : k # j => job'[k] = job[k]
    BY <1>1 DEF Types
  <1>5. job'[j].page = p
    BY <1>1, <1>2 DEF Types, JobType
  <1>6. MailExpected'
    BY <1>2, <1>3 DEF Protocol, MailExpected, Expected, Mail, Trimmed
  <1>7. SetupJobs'
    <2>1. page'[p].setup = page[p].setup
      BY <1>2, <1>3 DEF Trimmed
    <2>2. \/ x.stage \in BusStages /\ page'[p].setup = "bus"
          \/ x.stage \in WalletStages /\ page'[p].setup = "wallet"
      BY <1>3, <2>1
    <2>3. \A k \in Jobs : job'[k].for = Setup => k = j
      BY <1>3, <1>4
    <2>4. \A k \in Jobs : job'[k].stage \in BusStages \cup WalletStages => k = j
      BY <1>3, <1>4
    <2> QED BY <1>2, <1>3, <1>4, <1>5, <2>2, <2>3, <2>4 DEF SetupJobs
  <1>8. PingsAreShared' /\ PagesAreOpen' /\ ClearsAlone'
    BY <1>2, <1>3 DEF Protocol, PingsAreShared, PagesAreOpen, ClearsAlone, Trimmed
  <1>9. ClearsUndisturbed'
    BY <1>3, <1>4 DEF ClearsUndisturbed, BusStages, WalletStages
  <1> QED BY <1>6, <1>7, <1>8, <1>9 DEF Protocol

\* INITIALIZE_MESSAGE_BUS finds no other initialisation, and nothing being cleared.
LEMMA TakeInitProtocol ==
    ASSUME Alone, OnceInv, OnceInv', Protocol, NEW j \in Jobs, NEW p \in Pages,
           TakeInit(j, p)
    PROVE  Protocol'
  <1>1. /\ Types /\ page[p].inbox # <<>>
        /\ Head(page[p].inbox).kind = "INITIALIZE_MESSAGE_BUS"
        /\ page' = [page EXCEPT ![p] = Rest(p)] /\ UNCHANGED call
    BY DEF OnceInv, TakeInit, Took
  <1>2. /\ Sender(p) = Setup
        /\ \A k \in Jobs : job[k].stage \notin WalletStages /\ job[k].stage # "clearing"
    BY <1>1, SetupSender
  <1>3. PICK stage \in BusStages : job' = [job EXCEPT ![j] = JobFor(p, stage)]
    BY DEF TakeInit, StopHandlers, BusStages
  <1>4. JobFor(p, stage).for = Setup /\ JobFor(p, stage).stage = stage
    BY <1>2 DEF JobFor
  <1>5. ~initialized'
    BY DEF TakeInit, StopHandlers
  <1>6. job'[j].stage \in BusStages /\ \A k \in Jobs : k # j => job'[k] = job[k]
    BY <1>1, <1>3, <1>4 DEF Types
  <1>7. BusFollows'
    BY <1>2, <1>5, <1>6 DEF BusFollows, BusStages, WalletStages
  <1> QED BY <1>1, <1>3, <1>4, <1>7, SetupTakenProtocol

\* INIT_WALLET, refused, answered or taken by a job, is the only one.
LEMMA TakeInitWalletProtocol ==
    ASSUME Alone, OnceInv, OnceInv', Protocol, NEW j \in Jobs, NEW p \in Pages,
           TakeInitWallet(j, p)
    PROVE  Protocol'
  <1>1. /\ Types /\ Types' /\ page[p].inbox # <<>>
        /\ Head(page[p].inbox).kind = "INIT_WALLET"
    BY DEF OnceInv, TakeInitWallet, Took
  <1>2. /\ Sender(p) = Setup /\ page[p].setup # "none"
        /\ Trimmed(p, Rest(p)) /\ NoSetup(Rest(p).inbox)
        /\ \A k \in Jobs : /\ job[k].for # Setup
                           /\ job[k].stage \notin BusStages \cup WalletStages
    BY <1>1, SetupSender
  <1>3. ASSUME NEW outcome \in {"ok", "notInitialized"},
               Answer(p, Rest(p), Sender(p), outcome), UNCHANGED <<initialized, job>>
        PROVE  Protocol'
    <2>1. FewerJobs /\ BusFollows'
      BY <1>3, JobsKept, BusKept
    <2>2. SetupAnswered(p, Rest(p), outcome)
      BY <1>2, <1>3, WorkerAssumption DEF Answer
    <2>3. outcome \in Outcome
      BY DEF Outcome
    <2> QED BY <1>1, <1>2, <1>3, <2>1, <2>2, <2>3, SetupAnsweredProtocol
  <1>4. ASSUME NEW stage \in WalletStages, initialized, UNCHANGED <<initialized, call>>,
               job' = [job EXCEPT ![j] = JobFor(p, stage)],
               page' = [page EXCEPT ![p] = Rest(p)]
        PROVE  Protocol'
    <2>1. JobFor(p, stage).for = Setup /\ JobFor(p, stage).stage = stage
      BY <1>2 DEF JobFor
    <2>2. job'[j].stage \in WalletStages /\ \A k \in Jobs : k # j => job'[k] = job[k]
      BY <1>1, <1>4, <2>1 DEF Types
    <2>3. BusFollows'
      BY <1>2, <1>4, <2>2 DEF BusFollows, BusStages, WalletStages
    <2> QED BY <1>1, <1>4, <2>1, <2>3, SetupTakenProtocol
  <1>5. CASE Rejected(p, "notInitialized")
    BY <1>3, <1>5 DEF Rejected, worker
  <1>6. CASE Answer(p, Rest(p), Sender(p), "ok") /\ UNCHANGED <<initialized, job>>
    BY <1>3, <1>6
  <1>7. CASE /\ initialized /\ UNCHANGED <<initialized, call>>
             /\ job' = [job EXCEPT ![j] =
                   JobFor(p, IF handler.contracts # NoWallet THEN "refreshing" ELSE "contracts")]
             /\ page' = [page EXCEPT ![p] = Rest(p)]
    BY <1>4, <1>7 DEF WalletStages
  <1> QED BY <1>5, <1>6, <1>7 DEF TakeInitWallet

\* A request is refused, or runs; a clear() runs while the page waits for nothing.
LEMMA TakeRequestProtocol ==
    ASSUME Alone, OnceInv, OnceInv', Protocol, NEW j \in Jobs, NEW p \in Pages,
           NEW request \in Requests, TakeRequest(j, p, request)
    PROVE  Protocol'
  <1> DEFINE c == Sender(p)
  <1>1. /\ Types /\ Types' /\ page[p].inbox # <<>> /\ \A d \in Calls : Once(d)
        /\ Head(page[p].inbox).kind = request /\ request \in {"read", "clear"}
    BY WorkerAssumption DEF OnceInv, TakeRequest, Took
  <1>2. /\ Head(page[p].inbox) \in Mail(p) /\ Head(page[p].inbox).for = c
        /\ Mail(p) = In(Rest(p).inbox) \cup {Head(page[p].inbox)}
    BY <1>1, MailTaken
  <1>3. c \in Calls /\ call[c].stage = "sent" /\ call[c].request = request
    <2>1. Expected(p, Head(page[p].inbox))
      BY <1>2 DEF Protocol, MailExpected
    <2> QED BY <1>1, <1>2, <2>1 DEF Expected
  <1>4. c # Ping /\ c # Setup
    BY <1>3, WorkerAssumption
  <1>5. Trimmed(p, Rest(p))
    BY <1>1, <1>4, TrimmedRest
  <1>6. \A m \in In(Rest(p).inbox) : m.for # c
    <2>1. \A i \in DOMAIN Tail(page[p].inbox) : Tail(page[p].inbox)[i].for # c
      BY <1>1, <1>3, OnlyMessage
    <2>2. Rest(p).inbox = Tail(page[p].inbox)
      BY <1>1, RestLess
    <2> QED BY <2>1, <2>2 DEF In
  <1> HIDE DEF c
  <1>7. ASSUME NEW outcome \in {"notInitialized", "noWallet"}, Rejected(p, outcome),
               outcome = "notInitialized" => ~initialized
        PROVE  Protocol'
    <2>1. FewerJobs /\ BusFollows' /\ initialized' = initialized
      BY <1>7, JobsKept, BusKept DEF Rejected, worker
    <2>2. CallAnswered(p, Rest(p), c, outcome)
      BY <1>3, <1>7, WorkerAssumption DEF Rejected, Answer, c
    <2>3. outcome \in Outcome
      BY DEF Outcome
    <2> QED BY <1>1, <1>3, <1>5, <1>6, <1>7, <2>1, <2>2, <2>3, CallAnsweredProtocol
  <1>8. ASSUME initialized, initialized' = initialized, page' = [page EXCEPT ![p] = Rest(p)],
               call' = [call EXCEPT ![c].runs = @ + 1],
               job' = [job EXCEPT ![j] =
                           JobFor(p, IF request = "clear" THEN "clearing" ELSE "running")]
        PROVE  Protocol'
    <2> DEFINE new == page'[p]
    <2>1. /\ \A q \in Pages : q = p
          /\ \A d \in Calls : PageOf[d] = p
          /\ \A k \in Jobs : job[k].page = p
          /\ new = Rest(p)
      BY <1>1, <1>8, OnePage
    <2> HIDE DEF new
    <2>2. /\ job'[j].for = c
          /\ job'[j].stage = IF request = "clear" THEN "clearing" ELSE "running"
          /\ \A k \in Jobs : k # j => job'[k] = job[k]
      BY <1>1, <1>8 DEF Types, JobFor, c
    <2>3. \A d \in Calls : call'[d].stage = call[d].stage /\ call'[d].request = call[d].request
      BY <1>1, <1>8 DEF Types, CallType
    <2>4. /\ new.setup = page[p].setup /\ new.open = page[p].open
          /\ new.pinging = page[p].pinging
          /\ In(new.inbox) \subseteq Mail(p) /\ SetupOnce(new.inbox)
          /\ \A m \in Mail(p) : m.for = Ping => m \in In(new.inbox)
      BY <1>5, <2>1 DEF Trimmed
    <2>5. MailExpected'
      <3>1. \A m \in In(new.inbox) : Expected(p, m)'
        BY <2>3, <2>4 DEF Protocol, MailExpected, Expected, new
      <3> QED BY <2>1, <2>4, <3>1 DEF MailExpected, Mail, new
    <2>6. SetupJobs'
      <3>1. NoSetup(page[p].inbox) => NoSetup(new.inbox)
        BY <2>4 DEF NoSetup, Mail
      <3>2. \A q \in Pages : page'[q] = new
        BY <2>1 DEF new
      <3>3. job'[j].for # Setup /\ job'[j].stage \notin BusStages \cup WalletStages
        BY <1>4, <2>2 DEF BusStages, WalletStages
      <3> QED BY <2>1, <2>2, <2>4, <3>1, <3>2, <3>3 DEF Protocol, SetupJobs
    <2>7. PingsAreShared' /\ PagesAreOpen' /\ ClearsAlone'
      BY <2>1, <2>3, <2>4 DEF Protocol, PingsAreShared, PagesAreOpen, ClearsAlone, new
    <2>8. ClearsUndisturbed'
      <3>1. ASSUME NEW k \in Jobs, job[k].stage = "clearing"
            PROVE  /\ new.setup = "none" /\ new.open = "yes"
                   /\ new.pinging => \E m \in In(new.inbox) : m.for = Ping
        BY <2>4, <3>1 DEF Protocol, ClearsUndisturbed
      <3>2. ASSUME request = "clear"
            PROVE  new.setup = "none" /\ new.open = "yes" /\ ~new.pinging
        <4>1. /\ \A d \in Calls : d # c => call[d].stage = "idle"
              /\ page[p].setup = "none" /\ page[p].open = "yes"
          BY <1>3, <2>1, <3>2 DEF Protocol, ClearsAlone, PagesAreOpen
        <4>2. ~page[p].pinging
          BY <1>3, <4>1 DEF Protocol, PingsAreShared
        <4> QED BY <2>4, <4>1, <4>2
      <3>3. ASSUME NEW k \in Jobs, job'[k].stage = "clearing"
            PROVE  job[k].stage = "clearing" \/ request = "clear"
        BY <2>2, <3>3
      <3> QED BY <2>1, <3>1, <3>2, <3>3 DEF ClearsUndisturbed, Mail, new
    <2>9. BusFollows'
      BY <1>8, <2>2 DEF Protocol, BusFollows, BusStages, WalletStages
    <2> QED BY <2>5, <2>6, <2>7, <2>8, <2>9 DEF Protocol
  <1>9. CASE ~initialized /\ Rejected(p, "notInitialized")
    BY <1>7, <1>9
  <1>10. CASE Rejected(p, "noWallet")
    BY <1>7, <1>10
  <1>11. CASE /\ initialized /\ initialized' = initialized
              /\ page' = [page EXCEPT ![p] = Rest(p)]
              /\ call' = [call EXCEPT ![c].runs = @ + 1]
              /\ job' = [job EXCEPT ![j] =
                            JobFor(p, IF request = "clear" THEN "clearing" ELSE "running")]
    BY <1>8, <1>11
  <1> QED BY <1>3, <1>9, <1>10, <1>11 DEF TakeRequest, c

\* A killed worker handles nothing; no initialisation is under way.
LEMMA KillProtocol ==
    ASSUME Alone, OnceInv, OnceInv', Protocol, Kill PROVE Protocol'
  <1>1. /\ \A p \in Pages : page[p].setup = "none"
        /\ \A k \in Jobs : job'[k] = IdleJob
        /\ UNCHANGED call
    BY DEF Kill, Alone
  <1>2. IdleJob.stage = "idle" /\ IdleJob.for # Setup
    BY WorkerAssumption DEF IdleJob
  <1>3. ASSUME NEW p \in Pages
        PROVE  /\ page'[p].setup = page[p].setup /\ page'[p].open = page[p].open
               /\ page'[p].pinging = page[p].pinging
               /\ page'[p].inbox = page[p].inbox \/ DOMAIN page'[p].inbox = {}
    BY DEF Kill, OnceInv, Types, PageType
  <1>4. MailExpected'
    <2>1. ASSUME NEW p \in Pages PROVE SetupOnce(page'[p].inbox)
      BY <1>3 DEF Protocol, MailExpected, SetupOnce
    <2>2. ASSUME NEW p \in Pages, NEW m \in In(page'[p].inbox) PROVE Expected(p, m)'
      <3>1. m \in Mail(p)
        BY <1>3, <2>2 DEF Mail, In
      <3>2. Expected(p, m)
        BY <3>1 DEF Protocol, MailExpected
      <3> QED BY <1>1, <1>3, <3>2 DEF Expected
    <2> QED BY <2>1, <2>2 DEF MailExpected, Mail
  <1>5. SetupJobs' /\ ClearsUndisturbed' /\ BusFollows'
    BY <1>1, <1>2 DEF SetupJobs, ClearsUndisturbed, BusFollows, BusStages, WalletStages
  <1>6. PingsAreShared' /\ PagesAreOpen' /\ ClearsAlone'
    BY <1>1, <1>3, WorkerAssumption
       DEF Protocol, PingsAreShared, PagesAreOpen, ClearsAlone
  <1> QED BY <1>4, <1>5, <1>6 DEF Protocol

\* Every step keeps to what is expected.
LEMMA ProtocolStep ==
    ASSUME Alone, OnceInv, OnceInv', Protocol, [Next]_vars PROVE Protocol'
  <1>1. ASSUME NEW p \in Pages, PageStep(p) \/ TakePing(p) PROVE Protocol'
    BY <1>1, CreateProtocol, PingTimesOutProtocol, SetupTimesOutProtocol, CloseProtocol,
       TakePingProtocol DEF PageStep
  <1>2. ASSUME NEW c \in Calls, CallStep(c) PROVE Protocol'
    BY <1>2, PostProtocol, CallTimesOutProtocol, BeginProtocol DEF CallStep
  <1>3. ASSUME NEW j \in Jobs, Work(j) \/ Trouble(j) PROVE Protocol'
    BY <1>3, WorkProtocol, TroubleProtocol
  <1>4. ASSUME NEW j \in Jobs, NEW p \in Pages, Take(j, p) PROVE Protocol'
    BY <1>4, TakeInitProtocol, TakeInitWalletProtocol, TakeRequestProtocol DEF Take
  <1>5. ASSUME UNCHANGED <<page, call, job, initialized>> PROVE Protocol'
    BY <1>5 DEF Protocol, MailExpected, Mail, Expected, SetupJobs, PingsAreShared,
       PagesAreOpen, ClearsAlone, ClearsUndisturbed, BusFollows
  <1>6. ASSUME TickStarts \/ TickEnds \/ UNCHANGED vars PROVE Protocol'
    BY <1>5, <1>6 DEF TickStarts, TickEnds, vars, worker
  <1>7. CASE Kill
    BY <1>7, KillProtocol
  <1> QED BY <1>1, <1>2, <1>3, <1>4, <1>6, <1>7 DEF Next

-----------------------------------------------------------------------------
(* The wallet, its feed and its contract events. *)

\* What most steps leave alone.
LEMMA HandlerKept ==
    ASSUME HandlerFits, UNCHANGED <<handler, live, feeds>>,
           ~initialized' => ~initialized,
           \A k \in Jobs : \/ job'[k].stage \notin {"clearing", "subscribing", "contracts"}
                           \/ job'[k].stage = job[k].stage /\ job'[k].wallet = job[k].wallet
    PROVE  HandlerFits'
  <1>1. DownIsEmpty'
    BY DEF HandlerFits, DownIsEmpty
  <1>2. WorkFits'
    BY DEF HandlerFits, WorkFits
  <1>3. OneWalletReports'
    BY DEF HandlerFits, OneWalletReports
  <1> QED BY <1>1, <1>2, <1>3 DEF HandlerFits

\* In particular those that free a job.
LEMMA HandlerFreed ==
    ASSUME HandlerFits, Types, UNCHANGED <<handler, live, feeds, initialized>>,
           NEW j \in Jobs, Freed(j)
    PROVE  HandlerFits'
  <1>1. job'[j].stage = "idle" /\ \A k \in Jobs : k # j => job'[k] = job[k]
    BY DEF Types, Freed, IdleJob
  <1> QED BY <1>1, HandlerKept

\* The subscription that is dropped was the only one.
LEMMA FeedIsDropped ==
    ASSUME OneWalletReports, FeedDropped PROVE feeds' = 0
  BY DEF OneWalletReports, FeedDropped

\* The awaits of the worker: there is one initialisation among them.
LEMMA WorkHandler ==
    ASSUME OnceInv, Protocol, HandlerFits, NEW j \in Jobs, Work(j)
    PROVE  HandlerFits'
  <1>1. /\ Types /\ job \in [Jobs -> JobType] /\ handler \in HandlerType
        /\ DownIsEmpty /\ WorkFits /\ OneWalletReports
    BY DEF OnceInv, Types, HandlerFits
  <1>2. \A k \in Jobs : job[k].stage \in BusStages \cup WalletStages => job[k].for = Setup
    BY DEF Protocol, SetupJobs
  <1>3. \A k \in Jobs : job[k].for = Setup /\ job[j].for = Setup => k = j
    BY DEF Protocol, SetupJobs
  <1>4. ASSUME job[j].stage \in BusStages
        PROVE  /\ live = {} /\ handler.contracts = NoWallet
               /\ \A k \in Jobs : k # j =>
                    job[k].stage \notin {"clearing", "subscribing", "contracts"}
    <2>1. ~initialized
      BY <1>4 DEF Protocol, BusFollows
    <2>2. \A k \in Jobs : k # j => job[k].stage \notin {"clearing", "subscribing", "contracts"}
      BY <1>2, <1>3, <1>4, <2>1 DEF Protocol, BusFollows, WalletStages
    <2> QED BY <1>1, <2>1, <2>2 DEF DownIsEmpty
  <1>5. ASSUME job[j].stage \in WalletStages
        PROVE  /\ initialized
               /\ \A k \in Jobs : k # j => job[k].stage \notin BusStages \cup WalletStages
    BY <1>2, <1>3, <1>5 DEF Protocol, BusFollows
  <1>6. CASE HandlersStopped(j)
    <2>1. /\ live = {} /\ handler.contracts = NoWallet
          /\ \A k \in Jobs : k # j =>
               job[k].stage \notin {"clearing", "subscribing", "contracts"}
      BY <1>4, <1>6 DEF HandlersStopped, BusStages
    <2>2. handler'.contracts = NoWallet /\ handler'.funds = handler.funds
      BY <1>1, <1>6, <2>1 DEF HandlersStopped, HandlerType
    <2>3. job'[j].stage = "building" /\ \A k \in Jobs : k # j => job'[k] = job[k]
      BY <1>1, <1>6 DEF HandlersStopped, JobType
    <2>4. UNCHANGED <<initialized, live, feeds>>
      BY <1>6 DEF HandlersStopped
    <2>5. DownIsEmpty' /\ WorkFits'
      BY <2>1, <2>2, <2>3, <2>4 DEF DownIsEmpty, WorkFits
    <2>6. OneWalletReports'
      BY <1>1, <2>1, <2>2, <2>4 DEF OneWalletReports
    <2> QED BY <2>5, <2>6 DEF HandlerFits
  <1>7. CASE ServicesBuilt(j)
    <2>1. /\ live = {} /\ handler.contracts = NoWallet
          /\ \A k \in Jobs : k # j =>
               job[k].stage \notin {"clearing", "subscribing", "contracts"}
      BY <1>4, <1>7 DEF ServicesBuilt, BusStages
    <2>2. PICK w \in Wallets : live' = live \cup {w} /\ handler' = [handler EXCEPT !.wallet = w]
      BY <1>7 DEF ServicesBuilt
    <2>3. /\ handler'.contracts = NoWallet /\ handler'.funds = handler.funds
          /\ handler'.wallet = w
      BY <1>1, <2>1, <2>2 DEF HandlerType
    <2>4. job'[j].stage = "idle" /\ \A k \in Jobs : k # j => job'[k] = job[k]
      BY <1>1, <1>7 DEF ServicesBuilt, Freed, IdleJob
    <2>5. initialized' /\ UNCHANGED feeds
      BY <1>7 DEF ServicesBuilt
    <2>6. DownIsEmpty' /\ WorkFits'
      BY <2>1, <2>4, <2>5 DEF DownIsEmpty, WorkFits
    <2>7. OneWalletReports'
      BY <1>1, <2>1, <2>2, <2>3, <2>5 DEF OneWalletReports
    <2> QED BY <2>6, <2>7 DEF HandlerFits
  <1>8. CASE ContractsReady(j)
    <2>1. /\ initialized /\ job[j].wallet = handler.wallet
          /\ \A k \in Jobs : k # j => job[k].stage \notin BusStages \cup WalletStages
      BY <1>1, <1>5, <1>8 DEF ContractsReady, WalletStages, WorkFits
    <2>2. /\ handler'.wallet = handler.wallet /\ handler'.funds = handler.funds
          /\ handler'.contracts \in {handler.wallet, handler.contracts}
      BY <1>1, <1>8, <2>1 DEF ContractsReady, HandlerType
    <2>3. job'[j].stage = "refreshing" /\ \A k \in Jobs : k # j => job'[k] = job[k]
      BY <1>1, <1>8 DEF ContractsReady, JobType
    <2>4. UNCHANGED <<initialized, live, feeds>>
      BY <1>8 DEF ContractsReady
    <2>5. DownIsEmpty' /\ WorkFits'
      BY <1>1, <2>1, <2>2, <2>3, <2>4 DEF DownIsEmpty, WorkFits, WalletStages
    <2>6. OneWalletReports'
      BY <1>1, <2>2, <2>4 DEF OneWalletReports
    <2> QED BY <2>5, <2>6 DEF HandlerFits
  <1>9. CASE Refreshed(j)
    <2>1. /\ initialized
          /\ \A k \in Jobs : k # j => job[k].stage \notin BusStages \cup WalletStages
      BY <1>5, <1>9 DEF Refreshed, WalletStages
    <2>2. /\ handler'.wallet = handler.wallet /\ handler'.funds # "live"
          /\ handler'.contracts = handler.contracts
      BY <1>1, <1>9 DEF Refreshed, HandlerType
    <2>3. feeds' = 0 /\ UNCHANGED <<initialized, live>>
      BY <1>1, <1>9, FeedIsDropped DEF Refreshed
    <2>4. job'[j].stage \in {"idle", "subscribing"} /\ \A k \in Jobs : k # j => job'[k] = job[k]
      BY <1>1, <1>9 DEF Refreshed, Freed, IdleJob, JobType
    <2>5. DownIsEmpty' /\ WorkFits'
      BY <1>1, <2>1, <2>2, <2>3, <2>4 DEF DownIsEmpty, WorkFits, WalletStages
    <2>6. OneWalletReports'
      BY <1>1, <2>2, <2>3 DEF OneWalletReports
    <2> QED BY <2>5, <2>6 DEF HandlerFits
  <1>10. CASE Subscribed(j)
    <2>1. /\ initialized /\ handler.funds # "live"
          /\ \A k \in Jobs : k # j => job[k].stage \notin BusStages \cup WalletStages
      BY <1>1, <1>5, <1>10 DEF Subscribed, WalletStages, WorkFits
    <2>2. /\ handler'.wallet = handler.wallet /\ handler'.funds = "live"
          /\ handler'.contracts = handler.contracts
      BY <1>1, <1>10 DEF Subscribed, HandlerType
    <2>3. feeds' = 1 /\ UNCHANGED <<initialized, live>>
      BY <1>1, <1>10, <2>1 DEF Subscribed, OneWalletReports
    <2>4. job'[j].stage = "idle" /\ \A k \in Jobs : k # j => job'[k] = job[k]
      BY <1>1, <1>10 DEF Subscribed, Freed, IdleJob
    <2>5. DownIsEmpty' /\ WorkFits'
      BY <1>1, <2>1, <2>2, <2>3, <2>4 DEF DownIsEmpty, WorkFits, WalletStages
    <2>6. OneWalletReports'
      BY <1>1, <2>2, <2>3 DEF OneWalletReports
    <2> QED BY <2>5, <2>6 DEF HandlerFits
  <1>11. CASE RequestDone(j)
    BY <1>1, <1>11, HandlerFreed DEF RequestDone
  <1>12. CASE Cleared(j)
    <2>1. live = {} /\ \A k \in Jobs : job[k].stage # "contracts"
      <3>1. \A p \in Pages : page[p].setup = "none"
        BY <1>12 DEF Cleared, Protocol, ClearsUndisturbed
      <3>2. \A k \in Jobs : job[k].for # Setup
        BY <1>1, <3>1 DEF Protocol, SetupJobs, JobType
      <3>3. \A k \in Jobs : job[k].stage # "contracts"
        BY <1>2, <3>2 DEF WalletStages
      <3> QED BY <1>1, <1>12, <3>3 DEF Cleared, WorkFits
    <2>2. handler'.funds = handler.funds /\ handler'.contracts = handler.contracts
      BY <1>1, <1>12 DEF Cleared, HandlerType
    <2>3. job'[j].stage = "idle" /\ \A k \in Jobs : k # j => job'[k] = job[k]
      BY <1>1, <1>12 DEF Cleared, Freed, IdleJob
    <2>4. UNCHANGED <<initialized, live, feeds>>
      BY <1>12 DEF Cleared
    <2>5. DownIsEmpty' /\ WorkFits'
      BY <1>1, <2>1, <2>2, <2>3, <2>4 DEF DownIsEmpty, WorkFits
    <2>6. OneWalletReports'
      BY <1>1, <2>1, <2>2, <2>4 DEF OneWalletReports
    <2> QED BY <2>5, <2>6 DEF HandlerFits
  <1> QED BY <1>6, <1>7, <1>8, <1>9, <1>10, <1>11, <1>12 DEF Work

\* What fails or takes too long leaves the handler as it was.
LEMMA TroubleHandler ==
    ASSUME OnceInv, HandlerFits, NEW j \in Jobs, Trouble(j) PROVE HandlerFits'
  <1>1. Types /\ job \in [Jobs -> JobType]
    BY DEF OnceInv, Types
  <1>2. CASE BuildFails(j) \/ HandlingFails(j)
    BY <1>1, <1>2, HandlerFreed DEF BuildFails, HandlingFails
  <1>3. CASE HandlingTimesOut(j)
    <2>1. \A k \in Jobs : job'[k].stage = job[k].stage /\ job'[k].wallet = job[k].wallet
      BY <1>1, <1>3 DEF HandlingTimesOut, JobType
    <2> QED BY <1>3, <2>1, HandlerKept DEF HandlingTimesOut
  <1> QED BY <1>2, <1>3 DEF Trouble

\* Existing handlers are stopped before a wallet is built.
LEMMA TakeInitHandler ==
    ASSUME Alone, OnceInv, Protocol, HandlerFits, NEW j \in Jobs, NEW p \in Pages,
           TakeInit(j, p)
    PROVE  HandlerFits'
  <1>1. /\ Types /\ job \in [Jobs -> JobType] /\ handler \in HandlerType
        /\ DownIsEmpty /\ WorkFits /\ OneWalletReports
    BY DEF OnceInv, Types, HandlerFits
  <1>2. \A k \in Jobs : /\ job[k].stage \notin BusStages \cup WalletStages
                        /\ job[k].stage # "clearing"
    BY <1>1, SetupSender DEF TakeInit, Took
  <1>3. \A k \in Jobs : job'[k].stage \notin {"clearing", "subscribing", "contracts"}
    <2>1. PICK stage \in {"building", "stopping"} :
              job' = [job EXCEPT ![j] = JobFor(p, stage)]
      BY DEF TakeInit, StopHandlers
    <2>2. JobFor(p, stage).stage = stage
      BY DEF JobFor
    <2>3. job'[j].stage = stage /\ \A k \in Jobs : k # j => job'[k] = job[k]
      BY <1>1, <2>1, <2>2
    <2> QED BY <1>2, <2>3 DEF WalletStages
  <1>4. CASE initialized /\ StopHandlers(j, p)
    <2>1. live' = {} /\ handler'.contracts = NoWallet /\ handler'.funds = "none"
      BY <1>1, <1>4 DEF StopHandlers, OneWalletReports, HandlerType
    <2>2. feeds' = 0
      BY <1>1, <1>4, FeedIsDropped DEF StopHandlers
    <2>3. DownIsEmpty' /\ WorkFits'
      BY <1>3, <2>1 DEF DownIsEmpty, WorkFits
    <2>4. OneWalletReports'
      BY <2>1, <2>2 DEF OneWalletReports
    <2> QED BY <2>3, <2>4 DEF HandlerFits
  <1>5. CASE UNCHANGED <<initialized, handler, live, feeds>>
    BY <1>3, <1>5, HandlerKept
  <1> QED BY <1>4, <1>5 DEF TakeInit

\* INIT_WALLET asks for the contract manager of the wallet the handler has.
LEMMA TakeInitWalletHandler ==
    ASSUME OnceInv, HandlerFits, NEW j \in Jobs, NEW p \in Pages, TakeInitWallet(j, p)
    PROVE  HandlerFits'
  <1>1. /\ Types /\ job \in [Jobs -> JobType] /\ handler \in HandlerType
        /\ DownIsEmpty /\ WorkFits /\ OneWalletReports
    BY DEF OnceInv, Types, HandlerFits
  <1>2. CASE Rejected(p, "notInitialized")
    BY <1>2, HandlerKept DEF Rejected, worker
  <1>3. ASSUME handler' = [handler EXCEPT !.indexer = TRUE],
               UNCHANGED <<initialized, live, feeds>>,
               \/ job' = job
               \/ \E stage \in {"refreshing", "contracts"} :
                      job' = [job EXCEPT ![j] = JobFor(p, stage)]
        PROVE  HandlerFits'
    <2>1. /\ handler'.wallet = handler.wallet /\ handler'.funds = handler.funds
          /\ handler'.contracts = handler.contracts
      BY <1>1, <1>3 DEF HandlerType
    <2>2. \A k \in Jobs :
              \/ job'[k] = job[k]
              \/ job'[k].stage = "refreshing"
              \/ job'[k].stage = "contracts" /\ job'[k].wallet = handler.wallet
      BY <1>1, <1>3 DEF JobFor
    <2>3. DownIsEmpty' /\ WorkFits'
      BY <1>1, <1>3, <2>1, <2>2 DEF DownIsEmpty, WorkFits
    <2>4. OneWalletReports'
      BY <1>1, <1>3, <2>1 DEF OneWalletReports
    <2> QED BY <2>3, <2>4 DEF HandlerFits
  <1> QED BY <1>2, <1>3 DEF TakeInitWallet

\* clear() disposes of the wallet before anything else.
LEMMA TakeRequestHandler ==
    ASSUME OnceInv, HandlerFits, NEW j \in Jobs, NEW p \in Pages, NEW request \in Requests,
           TakeRequest(j, p, request)
    PROVE  HandlerFits'
  <1>1. /\ Types /\ job \in [Jobs -> JobType] /\ handler \in HandlerType
        /\ DownIsEmpty /\ WorkFits /\ OneWalletReports
    BY DEF OnceInv, Types, HandlerFits
  <1>2. ASSUME NEW outcome, Rejected(p, outcome) PROVE HandlerFits'
    BY <1>2, HandlerKept DEF Rejected, worker
  <1>3. CASE /\ UNCHANGED <<initialized, handler, live, feeds>>
             /\ job' = [job EXCEPT ![j] = JobFor(p, "running")]
    <2>1. job'[j].stage = "running" /\ \A k \in Jobs : k # j => job'[k] = job[k]
      BY <1>1, <1>3 DEF JobFor
    <2> QED BY <1>3, <2>1, HandlerKept
  <1>4. CASE /\ FeedDropped /\ live' = live \ {handler.wallet}
             /\ handler' = [handler EXCEPT !.funds = IF @ = "live" THEN "dead" ELSE @,
                                           !.contracts = NoWallet]
             /\ job' = [job EXCEPT ![j] = JobFor(p, "clearing")]
    <2>1. live' = {} /\ feeds' = 0
      BY <1>1, <1>4, FeedIsDropped DEF OneWalletReports
    <2>2. /\ handler'.contracts = NoWallet /\ handler'.funds # "live"
          /\ handler'.wallet = handler.wallet
      BY <1>1, <1>4 DEF HandlerType
    <2>3. job'[j].stage = "clearing" /\ \A k \in Jobs : k # j => job'[k] = job[k]
      BY <1>1, <1>4 DEF JobFor
    <2>4. DownIsEmpty' /\ WorkFits'
      BY <1>1, <2>1, <2>2, <2>3 DEF DownIsEmpty, WorkFits
    <2>5. OneWalletReports'
      BY <2>1, <2>2 DEF OneWalletReports
    <2> QED BY <2>4, <2>5 DEF HandlerFits
  <1> QED BY <1>2, <1>3, <1>4 DEF TakeRequest

\* Every step keeps to one wallet.
LEMMA HandlerStep ==
    ASSUME Alone, OnceInv, Protocol, HandlerFits, [Next]_vars PROVE HandlerFits'
  <1>1. Types /\ job \in [Jobs -> JobType]
    BY DEF OnceInv, Types
  <1>2. ASSUME UNCHANGED <<initialized, handler, live, feeds>>,
               \A k \in Jobs : job'[k].stage = job[k].stage /\ job'[k].wallet = job[k].wallet
        PROVE  HandlerFits'
    BY <1>2, HandlerKept
  <1>3. ASSUME UNCHANGED worker PROVE HandlerFits'
    BY <1>2, <1>3 DEF worker
  <1>4. ASSUME NEW p, NEW w, DisownJobs(p, w), UNCHANGED <<initialized, handler, live, feeds>>
        PROVE  HandlerFits'
    <2>1. \A k \in Jobs : job'[k].stage = job[k].stage /\ job'[k].wallet = job[k].wallet
      BY <1>1, <1>4 DEF DisownJobs, JobType
    <2> QED BY <1>2, <1>4, <2>1
  <1>5. ASSUME NEW p \in Pages, Close(p) PROVE HandlerFits'
    <2>1. \A k \in Jobs : job'[k].stage = job[k].stage /\ job'[k].wallet = job[k].wallet
      BY <1>1, <1>5 DEF Close, JobType
    <2> QED BY <1>2, <1>5, <2>1 DEF Close
  <1>6. ASSUME NEW p \in Pages, PageStep(p) \/ TakePing(p) PROVE HandlerFits'
    BY <1>3, <1>4, <1>5, <1>6 DEF PageStep, Create, PingTimesOut, SetupTimesOut, TakePing
  <1>7. ASSUME NEW c \in Calls, CallStep(c) PROVE HandlerFits'
    BY <1>3, <1>4, <1>7 DEF CallStep, Post, CallTimesOut, Begin
  <1>8. ASSUME NEW j \in Jobs, Work(j) \/ Trouble(j) PROVE HandlerFits'
    BY <1>8, WorkHandler, TroubleHandler
  <1>9. ASSUME NEW j \in Jobs, NEW p \in Pages, Take(j, p) PROVE HandlerFits'
    BY <1>9, TakeInitHandler, TakeInitWalletHandler, TakeRequestHandler DEF Take
  <1>10. CASE TickStarts \/ TickEnds \/ UNCHANGED vars
    BY <1>2, <1>3, <1>10 DEF TickStarts, TickEnds, vars
  <1>11. CASE Kill
    <2>1. /\ live' = {} /\ feeds' = 0 /\ handler' = NewHandler
          /\ \A k \in Jobs : job'[k].stage = "idle"
      BY <1>11 DEF Kill, IdleJob
    <2> QED BY <2>1 DEF HandlerFits, DownIsEmpty, WorkFits, OneWalletReports, NewHandler
  <1> QED BY <1>6, <1>7, <1>8, <1>9, <1>10, <1>11 DEF Next

\* There is no wallet yet.
LEMMA ReportInit == Init => ReportInv
  <1> SUFFICES ASSUME Init PROVE ReportInv
    OBVIOUS
  <1>1. OnceInv
    BY OnceInit
  <1>2. /\ \A p \in Pages : page[p].setup = "none" /\ page[p].open = "no"
                            /\ ~page[p].pinging /\ page[p].inbox = <<>>
        /\ \A c \in Calls : call[c].stage = "idle"
        /\ \A k \in Jobs : job[k].stage = "idle" /\ job[k].for = Nobody
    BY DEF Init, NewPage, IdleCall, IdleJob
  <1>3. DOMAIN <<>> = {}
    OBVIOUS
  <1>4. Protocol
    BY <1>2, <1>3, WorkerAssumption
       DEF Protocol, MailExpected, SetupOnce, Mail, In, SetupJobs, PingsAreShared,
           PagesAreOpen, ClearsAlone, ClearsUndisturbed, BusFollows,
           BusStages, WalletStages
  <1>5. HandlerFits
    BY <1>2 DEF Init, HandlerFits, DownIsEmpty, WorkFits, OneWalletReports, NewHandler
  <1> QED BY <1>1, <1>4, <1>5 DEF ReportInv

\* On one page whose initialisations are not interrupted, however often it
\* initialises the worker, and whatever is killed or fails meanwhile: a wallet
\* that was replaced is disposed of, funds are reported once, and contract
\* events by the wallet that answers requests (waitForInit, stop, clear).
THEOREM OneWallet ==
    ASSUME "interrupt" \notin Events, \A p, q \in Pages : p = q
    PROVE  Spec => []OneWalletReports
  <1>1. Alone
    BY DEF Alone
  <1>2. ReportInv => OneWalletReports
    BY DEF ReportInv, HandlerFits
  <1>3. ReportInv /\ [Next]_vars => ReportInv'
    BY <1>1, OnceStep, ProtocolStep, HandlerStep DEF ReportInv
  <1> QED BY <1>2, <1>3, ReportInit, PTL DEF Spec
=============================================================================
