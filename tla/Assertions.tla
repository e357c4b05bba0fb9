----------------------------- MODULE Assertions -----------------------------
(***************************************************************************)
(* What the assertion tasks accept and reject (tasks/channels.py,          *)
(* tasks/blockchain.py, tasks/services.py), inside the retry loop of       *)
(* Task.__call__ in which they poll a node, the path finding service or    *)
(* the chain.                                                              *)
(*                                                                         *)
(* TaskExecution leaves open what a task of kind "assert" answers; here an *)
(* answer of the service determines it.  Promise says, without reference   *)
(* to the code's lists and loops, what each task claims of an answer.      *)
(*                                                                         *)
(* Optional entries of a task's configuration are the domain of `want`.    *)
(***************************************************************************)
EXTENDS Integers, Sequences, FiniteSets, SequencesExt, FiniteSetsExt

CONSTANTS
    Tasks,       \* the assertion tasks: records with a type and its options
    Answers(_),  \* what the service a task asks may answer
    Address,     \* the address of each node, by its index in the scenario
    None

VARIABLES
    task,        \* the task that is called
    answer,      \* the service's last answer
    result,      \* what _run made of it
    exception,   \* the answer the last failed assertion was about
    verdict      \* how the call ended

vars == <<task, answer, result, exception, verdict>>

TaskTypes == {"assert", "assert_all", "assert_sum", "assert_events",
              "assert_channel_settled_event", "assert_ms_claim",
              "assert_pfs_routes", "assert_pfs_history", "assert_pfs_iou"}

ASSUME KnownTypes == \A t \in Tasks : t.type \in TaskTypes

Fields == <<"balance", "total_deposit", "state">>

\* The address for a node index, and the indices of a route likewise.
Route(nodes) == [i \in DOMAIN nodes |-> Address[nodes[i]]]

\* The first of a sequence of checks that is not passed decides.
FirstOf(checks) ==
    LET i == SelectInSeq(checks, LAMBDA c : c # "ok")
    IN  IF i = 0 THEN "ok" ELSE checks[i]

PerField(want, CheckOf(_)) ==
    FirstOf([i \in DOMAIN Fields |->
                IF Fields[i] \in DOMAIN want THEN CheckOf(Fields[i]) ELSE "ok"])

Claim(holds) == IF holds THEN "ok" ELSE "assertion"

-----------------------------------------------------------------------------
(* tasks/channels.py: one channel, or all channels of a node, as functions *)
(* of the fields the node sends.                                           *)

AssertTask(t, channel) ==
    PerField(t.want, LAMBDA f :
        CASE f \notin DOMAIN channel -> "error"
          [] f \in DOMAIN channel /\ f \in DOMAIN t.allow_error /\ f = "state" -> "error"
          [] f \in DOMAIN channel /\ f \in DOMAIN t.allow_error /\ f # "state" ->
                Claim(/\ channel[f] - t.allow_error[f] <= t.want[f]
                       /\ t.want[f] <= channel[f] + t.allow_error[f])
          [] OTHER -> Claim(channel[f] = t.want[f]))

\* Mutant: the values are compared as sets.
AssertAllTaskSets(t, channels) ==
    PerField(t.want, LAMBDA f :
        IF \/ \E i \in DOMAIN channels : f \notin DOMAIN channels[i]
           \/ Len(t.want[f]) # Len(channels)
        THEN "error"
        ELSE Claim(ToSet(t.want[f]) \subseteq {channels[i][f] : i \in DOMAIN channels}))

\* Every expected value is removed once from the list of actual ones.
AssertAllTask(t, channels) ==
    PerField(t.want, LAMBDA f :
        IF \/ \E i \in DOMAIN channels : f \notin DOMAIN channels[i]
           \/ Len(t.want[f]) # Len(channels)
        THEN "error"
        ELSE Claim(FoldLeft(RemoveFirst,
                             [i \in DOMAIN channels |-> channels[i][f]],
                             t.want[f]) = <<>>))

AssertSumTask(t, channels) ==
    PerField(t.want, LAMBDA f :
        IF \/ \E i \in DOMAIN channels : f \notin DOMAIN channels[i]
           \/ f = "state" /\ channels = <<>>                    \* first(set())
        THEN "error"
        ELSE Claim(IF f = "state" THEN {channels[i][f] : i \in DOMAIN channels} = {t.want[f]}
                   ELSE t.want[f] = FoldLeft(LAMBDA sum, c : sum + c[f], 0, channels)))

-----------------------------------------------------------------------------
(* tasks/blockchain.py: events are records of a name and arguments; the    *)
(* filtered list of the code is the set of the positions it has taken.     *)

\* `event_args_items & e["args"].items()`: some argument agrees.
SharesItem(args, event) ==
    \E key \in DOMAIN args \cap DOMAIN event.args : args[key] = event.args[key]

\* Mutant: the arguments of the event are not looked at.
FilterEventsByName(events, name, args) ==
    {i \in DOMAIN events : events[i].name = name}

FilterEvents(events, name, args) ==
    {i \in DOMAIN events : /\ events[i].name = name
                           /\ DOMAIN args = {} \/ SharesItem(args, events[i])}

\* The arguments of the token network's events whose name contains the word
\* "participant"; their values are given as node indices, and an amount is taken
\* for one, too.
ParticipantKeys ==
    {"participant", "participant1", "participant2", "closing_participant",
     "participant1_amount", "participant2_amount"}

Resolve(args) ==
    [key \in DOMAIN args |->
        IF key \in ParticipantKeys THEN Address[args[key]] ELSE args[key]]

\* A node index that the scenario does not have is an IndexError.
AssertBlockchainEventsTask(t, events) ==
    IF \E key \in DOMAIN t.want \cap ParticipantKeys : t.want[key] \notin DOMAIN Address
    THEN "error"
    ELSE Claim(Cardinality(FilterEvents(events, t.event_name, Resolve(t.want))) = t.num_events)

\* The arguments one order of the participants is looked for with.
SettledArgs(first, first_amount, second, second_amount) ==
    [key \in {"participant1", "participant2"}
               \cup (IF first_amount = None THEN {} ELSE {"participant1_amount"})
               \cup (IF second_amount = None THEN {} ELSE {"participant2_amount"}) |->
        CASE key = "participant1" -> Address[first]
          [] key = "participant2" -> Address[second]
          [] key = "participant1_amount" -> first_amount
          [] OTHER -> second_amount]

FilterSettled(events, found, args) == {i \in found : SharesItem(args, events[i])}

\* The second order is looked for among the events found with the first.
AssertChannelSettledEventTask(t, a) ==
    LET found == FilterEvents(a.events, "ChannelSettled",
                              [channel_identifier |-> a.channel])
        one   == FilterSettled(a.events, found,
                               SettledArgs(t.initiator, t.initiator_amount,
                                           t.partner, t.partner_amount))
        both  == IF one # {} THEN one
                 ELSE FilterSettled(a.events, one,
                                    SettledArgs(t.partner, t.partner_amount,
                                                t.initiator, t.initiator_amount))
    IN  IF a.channel = None THEN "error"
        ELSE Claim(/\ Cardinality(both) = 1
                   /\ \A i \in both : a.events[i].sender = Address[t.initiator])

AssertMSClaimTask(t, a) ==
    IF a.channel = None THEN "error"
    ELSE Claim(t.must_claim <=>
                 \E i \in DOMAIN a.events :
                    /\ a.events[i].name = "RewardClaimed"
                    /\ a.events[i].args.reward_identifier = a.channel)

-----------------------------------------------------------------------------
(* tasks/services.py                                                       *)

AssertPFSRoutesTask(t, a) ==
    Claim(a.paths # None /\ a.paths = t.expected_paths)

(* The PFS history: a request count and a sequence of responses, each with  *)
(* a sequence of routes.  `routes_count` is "routes_each" when it is an     *)
(* integer and "routes_list" when it is a list.                             *)

\* A configured value is looked at only if it is neither missing, 0 nor empty.
HasNumber(t, key) == key \in DOMAIN t.want /\ t.want[key] # 0
HasList(t, key)   == key \in DOMAIN t.want /\ t.want[key] # <<>>

\* zip() stops at the end of the shorter list.
ZipEqual(s, u) == \A i \in DOMAIN s \cap DOMAIN u : s[i] = u[i]

Routes(a)       == FlattenSeq([i \in DOMAIN a.responses |-> a.responses[i]])
Paths(a)        == [i \in DOMAIN Routes(a) |-> Routes(a)[i].path]
Fees(a)         == [i \in DOMAIN Routes(a) |-> Routes(a)[i].fee]
RoutesCounts(a) == [i \in DOMAIN a.responses |-> Len(a.responses[i])]

RequestsOK(t, a) ==
    HasNumber(t, "request_count") => a.request_count = t.want.request_count

CountsOK(t, a) ==
    /\ HasNumber(t, "routes_each") =>
         LET requests == IF HasNumber(t, "request_count")
                         THEN t.want.request_count ELSE 1
         IN  ZipEqual([i \in 1..requests |-> t.want.routes_each], RoutesCounts(a))
    /\ HasList(t, "routes_list") =>
         /\ Len(t.want.routes_list) = Len(RoutesCounts(a))
         /\ ZipEqual(t.want.routes_list, RoutesCounts(a))

PathsOK(t, a) ==
    LET actual   == IF t.distinct THEN SetToSeq(ToSet(Paths(a))) ELSE Paths(a)
        expected == [i \in DOMAIN t.want.expected_routes |->
                       Route(t.want.expected_routes[i])]
    IN  HasList(t, "expected_routes") =>
          /\ Len(expected) = Len(actual)
          /\ FoldLeft(RemoveFirst, actual, expected) = <<>>

FeesOK(t, a) ==
    HasList(t, "expected_fees") =>
      /\ Len(t.want.expected_fees) = Len(Fees(a))
      /\ ZipEqual(t.want.expected_fees, Fees(a))

AssertPFSHistoryTask(t, a) ==
    Claim(RequestsOK(t, a) /\ CountsOK(t, a) /\ PathsOK(t, a) /\ FeesOK(t, a))

AssertPFSIOUTask(t, a) ==
    IF t.iou_exists /\ a.amount # None /\ t.amount = None THEN "error"   \* KeyError
    ELSE Claim(IF t.iou_exists THEN a.amount # None /\ a.amount = t.amount
                               ELSE a.amount = None)

-----------------------------------------------------------------------------
(* Task.__call__ of an assertion task                                      *)

Check(t, a) ==
    CASE t.type = "assert"             -> AssertTask(t, a)
      [] t.type = "assert_all"         -> AssertAllTask(t, a)
      [] t.type = "assert_sum"         -> AssertSumTask(t, a)
      [] t.type = "assert_events"      -> AssertBlockchainEventsTask(t, a)
      [] t.type = "assert_channel_settled_event" -> AssertChannelSettledEventTask(t, a)
      [] t.type = "assert_ms_claim"    -> AssertMSClaimTask(t, a)
      [] t.type = "assert_pfs_routes"  -> AssertPFSRoutesTask(t, a)
      [] t.type = "assert_pfs_history" -> AssertPFSHistoryTask(t, a)
      [] t.type = "assert_pfs_iou"     -> AssertPFSIOUTask(t, a)

\* The channel tasks return the answer itself, which may be empty; the others
\* return a dictionary with something in it.
IsFalsy(t, a) ==
    t.type \in {"assert", "assert_all", "assert_sum"} /\ DOMAIN a = {}

Init ==
    /\ task \in Tasks
    /\ answer = None /\ result = "none" /\ exception = None
    /\ verdict = "running"

\* Mutant: every exception is retried, not only failed assertions.
PollSwallow ==
    /\ verdict = "running"
    /\ \E a \in Answers(task) :
          /\ answer' = a
          /\ result' = Check(task, a)
          /\ exception' = IF result' = "assertion" THEN a ELSE exception
          /\ verdict' = IF result' = "ok" /\ ~IsFalsy(task, a) THEN "finished"
                        ELSE "running"
    /\ UNCHANGED task

\* One round of the retry loop: ask, check, and end or sleep.
Poll ==
    /\ verdict = "running"
    /\ \E a \in Answers(task) :
          /\ answer' = a
          /\ result' = Check(task, a)
          /\ exception' = IF result' = "assertion" THEN a ELSE exception
          /\ verdict' = IF result' = "error" THEN "error"
                        ELSE IF result' = "ok" /\ ~IsFalsy(task, a) THEN "finished"
                        ELSE "running"
    /\ UNCHANGED task

\* The request itself fails: the wrong HTTP status, no connection, no JSON.
RequestFails ==
    /\ verdict = "running"
    /\ verdict' = "error" /\ result' = "none"
    /\ UNCHANGED <<task, answer, exception>>

Timeout ==
    /\ verdict = "running"
    /\ verdict' = IF exception # None THEN "assertion" ELSE "finished"
    /\ UNCHANGED <<task, answer, result, exception>>

Terminated == verdict # "running" /\ UNCHANGED vars

Next == Poll \/ RequestFails \/ Timeout \/ Terminated

Spec == Init /\ [][Next]_vars

-----------------------------------------------------------------------------
(* What the tasks claim                                                    *)

SameBag(s, u) == ToBag(s) = ToBag(u)

Agrees(args, e) == \A key \in DOMAIN args : key \in DOMAIN e.args /\ e.args[key] = args[key]

\* ChannelSettled between the two nodes, whichever of them the event has first.
Settles(t, e) ==
    \E args \in {SettledArgs(t.initiator, t.initiator_amount, t.partner, t.partner_amount),
                 SettledArgs(t.partner, t.partner_amount, t.initiator, t.initiator_amount)} :
        Agrees(args, e)

Promise(t, a) ==
    CASE t.type = "assert" ->
           \A f \in DOMAIN t.want :
              /\ f \in DOMAIN a
              /\ IF f \in DOMAIN t.allow_error
                 THEN f # "state" /\ \E d \in -t.allow_error[f]..t.allow_error[f] :
                        t.want[f] = a[f] + d
                 ELSE a[f] = t.want[f]
      [] t.type = "assert_all" ->
           \A f \in DOMAIN t.want :
              /\ \A i \in DOMAIN a : f \in DOMAIN a[i]
              /\ SameBag(t.want[f], [i \in DOMAIN a |-> a[i][f]])
      [] t.type = "assert_sum" ->
           \A f \in DOMAIN t.want :
              /\ \A i \in DOMAIN a : f \in DOMAIN a[i]
              /\ IF f = "state" THEN \A i \in DOMAIN a : a[i][f] = t.want[f]
                 ELSE MapThenSumSet(LAMBDA i : a[i][f], DOMAIN a) = t.want[f]
      [] t.type = "assert_events" ->
           t.num_events = Cardinality({i \in DOMAIN a :
                             a[i].name = t.event_name /\ Agrees(Resolve(t.want), a[i])})
      [] t.type = "assert_channel_settled_event" ->
           LET events == {i \in DOMAIN a.events :
                            /\ a.events[i].name = "ChannelSettled"
                            /\ Agrees([channel_identifier |-> a.channel], a.events[i])
                            /\ Settles(t, a.events[i])}
           IN  /\ Cardinality(events) = 1
               /\ \A i \in events : a.events[i].sender = Address[t.initiator]
      [] t.type = "assert_ms_claim" ->
           t.must_claim = \E i \in DOMAIN a.events :
              /\ a.events[i].name = "RewardClaimed"
              /\ a.events[i].args.reward_identifier = a.channel
      [] t.type = "assert_pfs_routes" -> a.paths = t.expected_paths
      [] t.type = "assert_pfs_history" ->
           /\ "request_count" \in DOMAIN t.want => a.request_count = t.want.request_count
           /\ "routes_each" \in DOMAIN t.want =>
                \A i \in DOMAIN a.responses : Len(a.responses[i]) = t.want.routes_each
           /\ "routes_list" \in DOMAIN t.want => RoutesCounts(a) = t.want.routes_list
           /\ "expected_fees" \in DOMAIN t.want => Fees(a) = t.want.expected_fees
           /\ "expected_routes" \in DOMAIN t.want =>
                LET expected == [i \in DOMAIN t.want.expected_routes |->
                                   Route(t.want.expected_routes[i])]
                IN  IF t.distinct
                    THEN /\ ToSet(expected) = ToSet(Paths(a))
                         /\ Cardinality(ToSet(expected)) = Len(expected)
                    ELSE SameBag(expected, Paths(a))
      [] t.type = "assert_pfs_iou" ->
           IF t.iou_exists THEN a.amount # None /\ a.amount = t.amount ELSE a.amount = None

-----------------------------------------------------------------------------
(* When a task compares what it claims.  Outside of this the code decides   *)
(* otherwise: it looks at the first agreeing argument of an event, at one   *)
(* order of the participants, and at no option that is 0 or empty.          *)

IsSeq(s) == s \in Seq(ToSet(s))

\* An event that agrees in one argument agrees in all.
AllOrNone(args, e) == SharesItem(args, e) => Agrees(args, e)

Comparable(t, a) ==
    CASE t.type = "assert" ->
           /\ DOMAIN t.want \subseteq ToSet(Fields)
           /\ \A f \in (DOMAIN t.want \cap DOMAIN t.allow_error \cap DOMAIN a) \ {"state"} :
                 {t.want[f], t.allow_error[f], a[f]} \subseteq Int
      [] t.type = "assert_all" ->
           /\ DOMAIN t.want \subseteq ToSet(Fields)
           /\ IsSeq(a) /\ \A f \in DOMAIN t.want : IsSeq(t.want[f])
      [] t.type = "assert_sum" ->
           /\ DOMAIN t.want \subseteq ToSet(Fields)
           /\ IsSeq(a)
           /\ \A i \in DOMAIN a : \A f \in DOMAIN a[i] \ {"state"} : a[i][f] \in Int
      [] t.type = "assert_events" ->
           \A i \in DOMAIN a : AllOrNone(Resolve(t.want), a[i])
      [] t.type = "assert_channel_settled_event" ->
           \A i \in FilterEvents(a.events, "ChannelSettled", [channel_identifier |-> a.channel]) :
              LET one   == SettledArgs(t.initiator, t.initiator_amount,
                                       t.partner, t.partner_amount)
                  other == SettledArgs(t.partner, t.partner_amount,
                                       t.initiator, t.initiator_amount)
              IN  /\ AllOrNone(one, a.events[i])
                  /\ SharesItem(other, a.events[i]) => SharesItem(one, a.events[i])
      [] t.type = "assert_ms_claim" -> t.must_claim \in BOOLEAN
      [] t.type = "assert_pfs_routes" -> t.expected_paths # None
      [] t.type = "assert_pfs_history" ->
           /\ IsSeq(a.responses) /\ \A i \in DOMAIN a.responses : IsSeq(a.responses[i])
           /\ a.request_count = Len(a.responses)
           /\ \A key \in {"request_count", "routes_each"} \cap DOMAIN t.want : t.want[key] # 0
           /\ \A key \in {"routes_list", "expected_routes", "expected_fees"} \cap DOMAIN t.want :
                 IsSeq(t.want[key]) /\ t.want[key] # <<>>
           /\ "routes_each" \in DOMAIN t.want => "request_count" \in DOMAIN t.want
      [] OTHER -> TRUE

-----------------------------------------------------------------------------
(* Properties                                                              *)

\* The call ends in one way, and as an assertion only with one to raise.
TypeOK ==
    /\ task \in Tasks
    /\ answer \in Answers(task) \cup {None}
    /\ exception \in Answers(task) \cup {None}
    /\ result \in {"none", "ok", "assertion", "error"}
    /\ verdict \in {"running", "finished", "assertion", "error"}
    /\ verdict = "assertion" => exception # None
    /\ result = "error" => verdict = "error"

\* What a task accepts is what it claims: no list that is too short, no value
\* used twice, no event of something else makes a false assertion pass.
PassesAreTrue == result = "ok" => Promise(task, answer)

\* A task that fails as an assertion was given an answer its claim is false of.
RejectionsAreTrue == exception # None => ~Promise(task, exception)
=============================================================================
