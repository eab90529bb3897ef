------------------------------ MODULE DomainSync ------------------------------
(***************************************************************************)
(* Dynamic domains: the nodes of a cluster follow the table of domains in  *)
(* the database through its log of events (src/src/domain).                *)
(*                                                                         *)
(* mongoose_domain_sql changes domain_settings and appends to              *)
(* domain_events in one transaction.  Event ids are drawn from a sequence, *)
(* so they become visible out of order and an aborted transaction leaves a *)
(* hole for ever.  On every node service_domain_db runs the loader: a cold *)
(* load of the whole table when it starts, then the events past the last   *)
(* one it has read.  A missing id is either an aborted transaction or one  *)
(* that has not committed yet; the loader finds out by inserting a dummy   *)
(* event with that id.  mongoose_domain_db_cleaner removes old events.     *)
(*                                                                         *)
(* The database is external.  It is modelled by what the code relies on:   *)
(* reads see committed rows, a write of a row waits for the transaction    *)
(* that holds it, and only one insert for a key succeeds.                  *)
(***************************************************************************)
EXTENDS Integers, FiniteSets, FiniteSetsExt

CONSTANTS Domains,      \* domain names
          HostTypes,    \* host types, configured on every node
          Nodes,        \* nodes of the cluster that run service_domain_db
          Clients,      \* callers of mongoose_domain_api, one transaction each
          None,         \* no host type, no event: the null of a row
          Dummy,        \* the domain of a dummy event, <<>> in the code
          PageSize,     \* rows of the event log read at once (1000)
          Retries,      \* rounds of fix_gaps (3)
          FaultsAnywhere,  \* queries also fail where the loader does not recover
          MaxEventId,   \* bound: event ids the sequence gives out
          MaxFailures,  \* bound: queries of the loaders that fail
          MaxRemovals   \* bound: removals by the cleaner

ASSUME DomainSyncAssumption ==
    /\ IsFiniteSet(Clients)
    /\ HostTypes # {}
    /\ None \notin HostTypes \cup Domains
    /\ Dummy \notin Domains \cup {None}
    /\ PageSize \in Nat \ {0}
    /\ Retries \in Nat \ {0}
    /\ FaultsAnywhere \in BOOLEAN
    /\ MaxEventId \in Nat \ {0}
    /\ MaxFailures \in Nat
    /\ MaxRemovals \in Nat

VARIABLES settings,     \* domain_settings: status and host type of a domain
          events,       \* domain_events: id -> domain, Dummy or None
          nextId,       \* the sequence of event ids
          tx,           \* the transaction of each client
          deletions,    \* <<domain, host type>> whose data is being removed
          sched,        \* ids of the do_removal timers that run
          ld,           \* the loader of each node
          core,         \* mongoose_domain_core: domain -> host type or None
          fresh,        \* domains inserted by the running loader process
          failures,     \* failed queries so far
          removals      \* removals so far

dbVars == <<settings, events, nextId>>
clientVars == <<tx, deletions>>
cleanerVars == <<sched, removals>>
nodeVars == <<ld, core, fresh>>
vars == <<dbVars, clientVars, cleanerVars, nodeVars, failures>>

Ids == 1..MaxEventId
Statuses == {"absent", "disabled", "enabled", "deleting"}
Row == [st : Statuses, ht : HostTypes \cup {None}]
absent == [st |-> "absent", ht |-> None]

(***************************************************************************)
(* Queries                                                                 *)
(***************************************************************************)

EventIds == {i \in Ids : events[i] # None}

\* get_minmax_event_id; 0 stands for null.
MinId == IF EventIds = {} THEN 0 ELSE Min(EventIds)
MaxId == IF EventIds = {} THEN 0 ELSE Max(EventIds)

\* The host type an enabled domain has in the table, as select_from and the
\* join of domain_select_events_between return it.
HostType(d) == IF settings[d].st = "enabled" THEN settings[d].ht ELSE None

(***************************************************************************)
(* Transactions of mongoose_domain_sql.  A transaction reads the domain,   *)
(* then writes its row and inserts an event under the next id, then        *)
(* commits.                                                                *)
(***************************************************************************)

NoTx == [ph |-> "none", op |-> "none", d |-> None, ht |-> None, id |-> 0]
Ops == {"insert", "mark", "delete", "enabled", "disabled"}

\* The result of select_domain lets the transaction go on to its write; every
\* other outcome is an answer without a change.
Proceeds(op, d, ht) ==
    CASE op = "insert" -> settings[d].st = "absent"
      [] op \in {"mark", "delete"} -> settings[d].st # "absent" /\ settings[d].ht = ht
      [] OTHER -> settings[d].st \notin {"absent", "deleting", op} /\ settings[d].ht = ht

\* select_domain in insert_domain, set_domain_for_deletion, delete_domain and
\* set_status.
Select(c) ==
    /\ tx[c].ph = "none"
    /\ nextId + Cardinality({b \in Clients : tx[b].ph = "selected"}) <= MaxEventId
    /\ \E op \in Ops, d \in Domains, ht \in HostTypes :
          /\ Proceeds(op, d, ht)
          /\ op = "delete" => <<d, ht>> \in deletions
          /\ tx' = [tx EXCEPT ![c] = [NoTx EXCEPT !.ph = "selected", !.op = op,
                                                  !.d = d, !.ht = ht]]
    /\ UNCHANGED <<dbVars, deletions, cleanerVars, nodeVars, failures>>

\* delete_domain finds no such domain, or one with another host type, or a
\* handler of the remove_domain hook fails: do_delete_domain_in_progress ends
\* without a change.
EndDeletion(d, ht) ==
    /\ <<d, ht>> \in deletions
    /\ ~ \E c \in Clients : tx[c].op = "delete" /\ tx[c].d = d
    /\ deletions' = deletions \ {<<d, ht>>}
    /\ UNCHANGED <<dbVars, tx, cleanerVars, nodeVars, failures>>

\* The write meets the row as it is committed now, not as select_domain saw it:
\* a second insert of the key fails, and {updated, 1} does not match when the
\* row has gone.  set_status does not look at the number of updated rows.
WriteFails(t) ==
    \/ t.op = "insert" /\ settings[t.d] # absent
    \/ t.op \in {"mark", "delete"} /\ settings[t.d] = absent

\* The statement on domain_settings, which waits for a transaction that has
\* written the same row, and insert_domain_event.
Write(c) ==
    LET t == tx[c]
    IN  /\ t.ph = "selected"
        /\ \A b \in Clients : ~ (tx[b].ph = "written" /\ tx[b].d = t.d)
        /\ IF WriteFails(t)
             THEN /\ tx' = [tx EXCEPT ![c] = NoTx]
                  /\ UNCHANGED nextId
             ELSE /\ nextId' = nextId + 1
                  /\ tx' = [tx EXCEPT ![c].ph = "written", ![c].id = nextId]
        /\ UNCHANGED <<settings, events, deletions, cleanerVars, nodeVars, failures>>

\* The row a transaction has written.
Written(t) ==
    LET row == settings[t.d]
    IN  CASE t.op = "insert" -> [st |-> "enabled", ht |-> t.ht]
          [] t.op = "delete" -> absent
          [] t.op = "mark" -> [row EXCEPT !.st = "deleting"]
          [] OTHER -> IF row = absent THEN absent ELSE [row EXCEPT !.st = t.op]

\* Both tables change.  After set_domain_for_deletion the data of the domain is
\* removed and delete_domain called, by the caller or by the cleaner's process;
\* a committed delete_domain ends that.
Commit(c) ==
    LET t == tx[c]
    IN  /\ t.ph = "written"
        /\ settings' = [settings EXCEPT ![t.d] = Written(t)]
        /\ events' = [events EXCEPT ![t.id] = t.d]
        /\ deletions' = CASE t.op = "mark" -> deletions \cup {<<t.d, t.ht>>}
                          [] t.op = "delete" -> deletions \ {<<t.d, t.ht>>}
                          [] OTHER -> deletions
        /\ tx' = [tx EXCEPT ![c] = NoTx]
        /\ UNCHANGED <<nextId, cleanerVars, nodeVars, failures>>

\* The transaction is rolled back, and run again by transaction/3 or not; the
\* event id it has drawn is lost.
Abort(c) ==
    /\ tx[c].ph # "none"
    /\ tx' = [tx EXCEPT ![c] = NoTx]
    /\ UNCHANGED <<dbVars, deletions, cleanerVars, nodeVars, failures>>

(***************************************************************************)
(* mongoose_domain_core on the node of a loader                            *)
(***************************************************************************)

\* apply_change and insert_row_to_core for the domains D of a page: an entry
\* becomes what the table says.  A host type that differs is enforced by
\* delete and insert (bad_insert).
Applied(n, D) == [d \in Domains |-> IF d \in D THEN HostType(d) ELSE core[n][d]]

\* The entries whose source is the running loader.
Inserted(n, D) == (fresh[n] \ D) \cup {d \in D : HostType(d) # None}

(***************************************************************************)
(* The loader (mongoose_domain_loader run by service_domain_db)            *)
(*                                                                         *)
(*   pc      boot     initial_loading is the next message                  *)
(*           gaps     cold load, {Min, Max} read                           *)
(*           load     cold load, the pages of domain_settings              *)
(*           select   the page of new events is to be read                 *)
(*           fix      fix_gaps                                             *)
(*           check    check_for_updates is the next call                   *)
(*           idle     waits for check_for_updates or reset_and_shutdown    *)
(*   st,omin,omax     mongoose_loader_state; 0 for null                    *)
(*   min,max,more     {MinEventId, MaxEventId}, and Max is beyond it       *)
(*   below            gaps below the old minimum                           *)
(*   toLoad           domains whose row has not been read                  *)
(*   gaps,ins,rd      gaps, and those to fill and to read in this round    *)
(*   left             rounds left                                          *)
(*   cast             reset_and_shutdown is in the mailbox                 *)
(***************************************************************************)

Idle == [pc |-> "boot", st |-> "undefined", omin |-> 0, omax |-> 0,
         min |-> 0, max |-> 0, more |-> FALSE, below |-> {}, toLoad |-> {},
         gaps |-> {}, ins |-> {}, rd |-> {}, left |-> 0, cast |-> FALSE]

\* What a new process finds: only the state in ETS.
Restarted(l) == [Idle EXCEPT !.st = l.st, !.omin = l.omin, !.omax = l.omax]

\* mongoose_loader_state:set at the end of a run; C and F are the core and its
\* entries of this process.  After a reset the other entries are removed.
EndRun(n, l, C, F) ==
    /\ ld' = [ld EXCEPT ![n] =
                [Idle EXCEPT !.pc = IF l.st # "set" \/ l.more THEN "check" ELSE "idle",
                             !.st = "set", !.omin = l.min, !.omax = l.max,
                             !.cast = l.cast]]
    /\ core' = [core EXCEPT ![n] = [d \in Domains |->
                   IF l.st # "reset" \/ d \in F THEN C[d] ELSE None]]
    /\ fresh' = [fresh EXCEPT ![n] = F]

\* Mutant: the retries are not limited.
BadFixGaps(n, l, G, left, C, F) ==
    IF G = {} THEN EndRun(n, l, C, F)
    ELSE /\ ld' = [ld EXCEPT ![n] =
                     [l EXCEPT !.pc = "fix", !.gaps = G, !.ins = G, !.rd = G,
                               !.left = left - 1, !.below = {}, !.toLoad = {}]]
         /\ core' = [core EXCEPT ![n] = C]
         /\ fresh' = [fresh EXCEPT ![n] = F]

\* fix_gaps(Gaps, Retries): nothing to do, a round, or no clause for zero
\* retries, which crashes the process.
FixGaps(n, l, G, left, C, F) ==
    IF G = {} THEN EndRun(n, l, C, F)
    ELSE /\ ld' = [ld EXCEPT ![n] =
                     IF left = 0 THEN Restarted(l)
                     ELSE [l EXCEPT !.pc = "fix", !.gaps = G, !.ins = G, !.rd = G,
                                    !.left = left - 1, !.below = {}, !.toLoad = {}]]
         /\ core' = [core EXCEPT ![n] = C]
         /\ fresh' = [fresh EXCEPT ![n] = IF left = 0 THEN {} ELSE F]

LoaderOnly == UNCHANGED <<dbVars, clientVars, cleanerVars, failures>>

\* initial_load: a state left by an earlier process is kept; cold_load begins
\* with {MinEventId, MaxEventId}.
InitialLoad(n) ==
    LET l == ld[n]
    IN  /\ l.pc = "boot"
        /\ ld' = [ld EXCEPT ![n] =
                    IF l.st = "set" THEN [l EXCEPT !.pc = "check"]
                    ELSE [l EXCEPT !.pc = "gaps", !.min = MinId, !.max = MaxId]]
        /\ UNCHANGED <<core, fresh>> /\ LoaderOnly

\* find_gaps_between, before the domains are read.
ColdGaps(n) ==
    LET l == ld[n]
    IN  /\ l.pc = "gaps"
        /\ ld' = [ld EXCEPT ![n] =
                    [l EXCEPT !.pc = "load", !.toLoad = Domains,
                              !.gaps = IF l.min = 0 THEN {}
                                       ELSE (l.min..l.max) \ EventIds]]
        /\ UNCHANGED <<core, fresh>> /\ LoaderOnly

\* load_data_from_base_loop, one row of select_from after the other.  A domain
\* that is inserted again while the pages are read is read again.
LoadRow(n) ==
    LET l == ld[n]
    IN  /\ l.pc = "load"
        /\ l.toLoad # {}
        /\ \E d \in Domains :
             /\ ld' = [ld EXCEPT ![n].toLoad = @ \ {d}]
             /\ IF HostType(d) = None THEN UNCHANGED <<core, fresh>>
                ELSE /\ core' = [core EXCEPT ![n] = Applied(n, {d})]
                     /\ fresh' = [fresh EXCEPT ![n] = Inserted(n, {d})]
        /\ LoaderOnly

\* No more rows.
LoadDone(n) ==
    /\ ld[n].pc = "load"
    /\ ld[n].toLoad = {}
    /\ FixGaps(n, ld[n], ld[n].gaps, Retries, core[n], fresh[n])
    /\ LoaderOnly

\* Where the loader does not recover from a failed query: the first cold load of
\* a node has filled the core but not yet set its state, and the process that
\* takes over believes the core to be empty; or the request to reset is in the
\* mailbox of the process that crashes, after it has set its state.
Fragile(l) == (l.pc = "fix" /\ l.st = "undefined") \/ l.cast

\* load_data_from_base catches a failed query: the service is asked to restart
\* and the cold load goes on with the rows it has.
LoadFails(n) ==
    /\ ld[n].pc = "load"
    /\ failures < MaxFailures
    /\ failures' = failures + 1
    /\ FixGaps(n, [ld[n] EXCEPT !.cast = TRUE], ld[n].gaps, Retries, core[n], fresh[n])
    /\ UNCHANGED <<dbVars, clientVars, cleanerVars>>

\* limit_max_id.
LimitMaxId(omax, min, max) ==
    LET base == IF omax = 0 THEN min ELSE omax
    IN  IF base + PageSize < max THEN base + PageSize ELSE max

\* Mutant: an event that appears below the old minimum is not looked at.
BadGapsBelow(l, min) == {}

\* NewGapsFromBelow.
GapsBelow(l, min) ==
    IF l.omax = 0 \/ min >= l.omin THEN {} ELSE min..l.omin

\* check_for_updates reads {Min, Max} and compares them with its state.  When
\* events it has not read are gone, it asks for a restart and goes on.
CheckForUpdates(n) ==
    LET l == ld[n]
    IN  /\ l.pc \in {"check", "idle"}
        /\ ld' = [ld EXCEPT ![n] =
             IF MaxId = 0 \/ (MinId = l.omin /\ MaxId = l.omax)
               THEN [l EXCEPT !.pc = "idle"]
               ELSE LET max == LimitMaxId(l.omax, MinId, MaxId)
                    IN [l EXCEPT !.pc = "select", !.min = MinId, !.max = max,
                                 !.more = max < MaxId,
                                 !.below = GapsBelow(l, MinId),
                                 !.cast = @ \/ (l.omax # 0 /\ l.omax < MinId)]]
        /\ UNCHANGED <<core, fresh>> /\ LoaderOnly

\* The ids of the page: FromId..MaxEventId.
PageIds(l) == (IF l.omax = 0 THEN l.min ELSE l.omax + 1)..l.max

\* select_updates_between and apply_changes for the page; ids_to_gaps.
FetchPage(n) ==
    LET l == ld[n]
        D == {events[i] : i \in PageIds(l) \cap EventIds}
    IN  /\ l.pc = "select"
        /\ FixGaps(n, l, l.below \cup (PageIds(l) \ EventIds), Retries,
                   Applied(n, D), Inserted(n, D \cap Domains))
        /\ LoaderOnly

\* Mutant: the dummy event is inserted without waiting for the transaction
\* that has inserted an event with the same id.
BadInsertDummy(n) ==
    LET l == ld[n]
        g == Min(l.ins)
    IN  /\ l.pc = "fix"
        /\ l.ins # {}
        /\ events' = [events EXCEPT ![g] = IF @ = None THEN Dummy ELSE @]
        /\ ld' = [ld EXCEPT ![n].ins = @ \ {g}]
        /\ UNCHANGED <<settings, nextId, clientVars, cleanerVars, core, fresh, failures>>

\* insert_dummy_events, one id after the other.  The insert waits for the end
\* of a transaction that has inserted the same key, and fails if it is taken.
InsertDummy(n) ==
    LET l == ld[n]
        g == Min(l.ins)
    IN  /\ l.pc = "fix"
        /\ l.ins # {}
        /\ ~ \E c \in Clients : tx[c].id = g
        /\ events' = [events EXCEPT ![g] = IF @ = None THEN Dummy ELSE @]
        /\ ld' = [ld EXCEPT ![n].ins = @ \ {g}]
        /\ UNCHANGED <<settings, nextId, clientVars, cleanerVars, core, fresh, failures>>

\* The insert fails for another reason; the catch ignores it.
InsertDummyFails(n) ==
    LET l == ld[n]
    IN  /\ l.pc = "fix"
        /\ l.ins # {}
        /\ Fragile(l) => FaultsAnywhere
        /\ failures < MaxFailures
        /\ failures' = failures + 1
        /\ ld' = [ld EXCEPT ![n].ins = @ \ {Min(@)}]
        /\ UNCHANGED <<dbVars, clientVars, cleanerVars, core, fresh>>

\* select_updates_between(Id, Id) for each gap; the rows are applied in the
\* order of their ids.  Nothing else writes to the core meanwhile, so a row is
\* applied when it is read.  An id still missing stays for the next round.
ReadGap(n) ==
    LET l == ld[n]
        g == Min(l.rd)
        G == l.gaps \ ({g} \cap EventIds)
        D == {events[g]}
        C == Applied(n, D)
        F == Inserted(n, D \cap Domains)
    IN  /\ l.pc = "fix"
        /\ l.ins = {}
        /\ IF l.rd = {g} THEN FixGaps(n, l, G, l.left, C, F)
           ELSE /\ ld' = [ld EXCEPT ![n].rd = @ \ {g}, ![n].gaps = G]
                /\ core' = [core EXCEPT ![n] = C]
                /\ fresh' = [fresh EXCEPT ![n] = F]
        /\ LoaderOnly

\* Mutant: the process is restarted and the loader state is not reset.
BadResetAndShutdown(n) ==
    /\ ld[n].pc = "idle"
    /\ ld[n].cast
    /\ ld' = [ld EXCEPT ![n] = Restarted(@)]
    /\ fresh' = [fresh EXCEPT ![n] = {}]
    /\ UNCHANGED core /\ LoaderOnly

\* reset_and_shutdown: the state is reset and the process stops; the
\* supervisor starts a new one.
ResetAndShutdown(n) ==
    /\ ld[n].pc = "idle"
    /\ ld[n].cast
    /\ ld' = [ld EXCEPT ![n] = [Idle EXCEPT !.st = "reset"]]
    /\ fresh' = [fresh EXCEPT ![n] = {}]
    /\ UNCHANGED core /\ LoaderOnly

\* A query outside the two catches fails and the process crashes.  A new one is
\* started; the loader state and the core are tables of another process.
QueryFails(n) ==
    /\ \/ ld[n].pc \in {"gaps", "select", "check", "idle"}
       \/ ld[n].pc = "boot" /\ ld[n].st # "set"
       \/ ld[n].pc = "fix" /\ ld[n].ins = {}
    /\ Fragile(ld[n]) => FaultsAnywhere
    /\ failures < MaxFailures
    /\ failures' = failures + 1
    /\ ld' = [ld EXCEPT ![n] = Restarted(@)]
    /\ fresh' = [fresh EXCEPT ![n] = {}]
    /\ UNCHANGED <<dbVars, clientVars, cleanerVars, core>>

(***************************************************************************)
(* mongoose_domain_db_cleaner                                              *)
(***************************************************************************)

\* schedule_removal: a timer of event_max_age with the newest id.
ScheduleRemoval ==
    /\ MaxId # 0
    /\ MaxId \notin sched
    /\ Cardinality(sched) + removals < MaxRemovals
    /\ sched' = sched \cup {MaxId}
    /\ UNCHANGED <<dbVars, clientVars, nodeVars, failures, removals>>

\* The ids that a run of a loader is still going to query.
Pending(l) == CASE l.pc = "gaps" /\ l.min > 0 -> l.min..l.max
                [] l.pc = "select" -> l.below \cup PageIds(l)
                [] l.pc \in {"load", "fix"} -> l.gaps \cup l.rd
                [] OTHER -> {}

\* The events below x that a loader has not read, nor the rows they are about.
Unread(l, x) ==
    {i \in EventIds : i < x} \ (IF l.st = "set" THEN l.omin..l.omax
                                 ELSE IF l.pc = "boot" THEN Ids
                                 ELSE l.min..l.max)

\* What event_max_age (two hours) is for: when the timer fires, a transaction
\* that drew an id below x has ended, no loader is in the middle of a run over
\* such ids, and the nodes have read the events.  A node may miss some when it
\* has no connection for that long: it finds out by
\* check_if_id_is_still_relevant.  But not two nodes at a time, not a node that
\* has only seen the log empty, and not events below those it has read.
AgedOut(x) ==
    /\ \A c \in Clients : tx[c].id = 0 \/ tx[c].id >= x
    /\ \A n \in Nodes :
         LET l == ld[n]
         IN  /\ \A i \in Pending(l) : i >= x
             /\ Unread(l, x) # {} =>
                  /\ l.st = "set" /\ l.pc \in {"boot", "check", "idle"}
                  /\ l.omax # 0 /\ \A i \in Unread(l, x) : i > l.omax
                  /\ \A m \in Nodes \ {n} : Unread(ld[m], x) = {}

\* handle_timeout: delete_events_older_than.
DoRemoval(x) ==
    /\ x \in sched
    /\ AgedOut(x)
    /\ events' = [i \in Ids |-> IF i < x THEN None ELSE events[i]]
    /\ sched' = sched \ {x}
    /\ removals' = removals + 1
    /\ UNCHANGED <<settings, nextId, clientVars, nodeVars, failures>>

(***************************************************************************)
(* The specification                                                       *)
(***************************************************************************)

\* The cluster starts with an empty database, or with a domain that is enabled
\* or marked for deletion (of some host type: they are all alike).
Init ==
    /\ \/ /\ settings = [d \in Domains |-> absent]
          /\ events = [i \in Ids |-> None]
          /\ nextId = 1
          /\ deletions = {}
       \/ \E d \in Domains, st \in {"enabled", "deleting"} :
          LET ht == CHOOSE h \in HostTypes : TRUE
          IN
            /\ settings = [[e \in Domains |-> absent] EXCEPT ![d] = [st |-> st, ht |-> ht]]
            /\ events = [i \in Ids |-> IF i = 1 THEN d ELSE None]
            /\ nextId = 2
            /\ deletions = IF st = "deleting" THEN {<<d, ht>>} ELSE {}
    /\ tx = [c \in Clients |-> NoTx]
    /\ sched = {} /\ failures = 0 /\ removals = 0
    /\ ld = [n \in Nodes |-> Idle]
    /\ core = [n \in Nodes |-> [d \in Domains |-> None]]
    /\ fresh = [n \in Nodes |-> {}]

EndTx(c) == Commit(c) \/ Abort(c)

Transaction(c) == Select(c) \/ Write(c) \/ EndTx(c)

LoaderStep(n) ==
    \/ InitialLoad(n) \/ ColdGaps(n) \/ LoadRow(n) \/ LoadDone(n)
    \/ CheckForUpdates(n) \/ FetchPage(n)
    \/ InsertDummy(n) \/ ReadGap(n)

LoaderFault(n) == LoadFails(n) \/ InsertDummyFails(n) \/ QueryFails(n)

Cleaner == ScheduleRemoval \/ \E x \in Ids : DoRemoval(x)

Next ==
    \/ \E c \in Clients : Transaction(c)
    \/ \E d \in Domains, ht \in HostTypes : EndDeletion(d, ht)
    \/ \E n \in Nodes : LoaderStep(n) \/ ResetAndShutdown(n) \/ LoaderFault(n)
    \/ Cleaner

\* A transaction ends (the driver has timeouts), a loader runs and is woken up
\* by its timer every 30 seconds, and takes the messages out of its mailbox.
\* Nothing makes a client call, the cleaner run or a query fail.
Fairness ==
    /\ \A c \in Clients : WF_vars(EndTx(c))
    /\ \A n \in Nodes : WF_vars(LoaderStep(n)) /\ WF_vars(ResetAndShutdown(n))

Spec == Init /\ [][Next]_vars /\ Fairness

(***************************************************************************)
(* Properties                                                              *)
(***************************************************************************)

Loader == [pc : {"boot", "gaps", "load", "select", "fix", "check", "idle"},
           st : {"undefined", "reset", "set"},
           omin : 0..MaxEventId, omax : 0..MaxEventId,
           min : 0..MaxEventId, max : 0..MaxEventId,
           more : BOOLEAN, below : SUBSET Ids, toLoad : SUBSET Domains,
           gaps : SUBSET Ids, ins : SUBSET Ids, rd : SUBSET Ids,
           left : 0..Retries, cast : BOOLEAN]

Transactions == [ph : {"none", "selected", "written"}, op : Ops \cup {"none"},
                 d : Domains \cup {None}, ht : HostTypes \cup {None},
                 id : 0..MaxEventId]

\* Every variable has its type.
TypeOK ==
    /\ settings \in [Domains -> Row]
    /\ events \in [Ids -> Domains \cup {Dummy, None}]
    /\ nextId \in 1..(MaxEventId + 1)
    /\ tx \in [Clients -> Transactions]
    /\ deletions \subseteq Domains \X HostTypes
    /\ sched \subseteq Ids
    /\ ld \in [Nodes -> Loader]
    /\ core \in [Nodes -> [Domains -> HostTypes \cup {None}]]
    /\ fresh \in [Nodes -> SUBSET Domains]
    /\ failures \in 0..MaxFailures
    /\ removals \in 0..MaxRemovals

\* A node whose check_for_updates would answer no_new_updates, with no restart
\* in its mailbox.
Settled(n) ==
    LET l == ld[n]
    IN  l.pc = "idle" /\ ~ l.cast /\ l.omin = MinId /\ l.omax = MaxId

\* A node that finds no new updates serves exactly the enabled domains, each
\* with the host type of the table, however the transactions committed, in
\* whatever order their events appeared and whatever was removed from the log.
InSync == \A n \in Nodes : Settled(n) =>
             \A d \in Domains : core[n][d] = HostType(d)

\* What the dummy events are for: once a node has processed a range of ids, no
\* transaction can still add an event to that range.
RangeIsFinal == \A n \in Nodes, c \in Clients :
    tx[c].id # 0 /\ ld[n].st = "set" => tx[c].id \notin ld[n].omin..ld[n].omax

\* Every node comes to serve what the table says and stays with it, through
\* aborted transactions, failed queries, restarts and removed events.
EventuallyInSync ==
    <>[](\A n \in Nodes, d \in Domains : core[n][d] = HostType(d))
===============================================================================
