---------------------------- MODULE MCAssertions ----------------------------
(***************************************************************************)
(* Assertion tasks and answers for TLC: every combination of options and   *)
(* of up to two channels, events or responses over two or three values.    *)
(***************************************************************************)
EXTENDS Assertions, TLC

MCAddress == 0 :> "0xa" @@ 1 :> "0xb" @@ 2 :> "0xc"

\* The functions from some of the keys of `values` to a value of each.
Partial(values) ==
    UNION {{f \in [keys -> UNION {values[k] : k \in keys}] :
              \A k \in keys : f[k] \in values[k]} : keys \in SUBSET DOMAIN values}

\* The node sends all fields of a channel, or an old node one less.
ChannelFields == [balance |-> {0, 1, 2}, total_deposit |-> {2}]
WithState(f)  == {f @@ ("state" :> s) : s \in {"opened", "closed"}}
Channels      == UNION {WithState(f) : f \in Partial(ChannelFields)}
Expected      == UNION {{f} \cup WithState(f) :
                          f \in Partial([balance |-> {1, 2}, total_deposit |-> {2}])}
FewChannels   == {c \in Channels : "balance" \in DOMAIN c /\ "total_deposit" \notin DOMAIN c}

\* With the values of `want` turned into lists, for all channels at once.
Lists == {[balance |-> b] : b \in BoundedSeq({0, 1}, 2)}
           \cup {[balance |-> <<1, 1>>, state |-> s] : s \in SeqOf({"opened", "closed"}, 2)}

EventOf(name, args, sender) == [name |-> name, args |-> args, sender |-> sender]
Closed  == {EventOf("ChannelClosed", [closing_participant |-> x], x) : x \in {"0xa", "0xb"}}
Opened  == {EventOf("ChannelOpened", [participant1 |-> x], "0xa") : x \in {"0xa", "0xb"}}
Settled == {EventOf("ChannelSettled",
                    [participant1 |-> x, participant2 |-> y, participant1_amount |-> 1,
                     participant2_amount |-> 2, channel_identifier |-> c], s) :
             x \in {"0xa"}, y \in {"0xb"}, c \in {1, 2}, s \in {"0xa", "0xb"}}
Swapped == {EventOf("ChannelSettled",
                    [participant1 |-> "0xb", participant2 |-> "0xa", participant1_amount |-> 2,
                     participant2_amount |-> 1, channel_identifier |-> 1], "0xa")}
Claimed == {EventOf("RewardClaimed", [reward_identifier |-> c], "0xc") : c \in {1, 2}}
             \cup {EventOf("NewBalanceProofReceived", [reward_identifier |-> 1], "0xc")}

\* The PFS counts the requests it answers.
RouteKinds == {[path |-> <<"0xa", "0xb">>, fee |-> 1],
               [path |-> <<"0xa", "0xc", "0xb">>, fee |-> 2]}
Histories  == {[request_count |-> Len(r), responses |-> r] :
                r \in BoundedSeq(BoundedSeq(RouteKinds, 2), 2)}

Want(type, want) == [type |-> type, want |-> want]
History(want, distinct) == [type |-> "assert_pfs_history", want |-> want, distinct |-> distinct]

ChannelTasks ==
    {[type |-> "assert", want |-> w, allow_error |-> a] :
        w \in Expected, a \in Partial([balance |-> {1}, state |-> {1}])}
    \cup {Want("assert_all", w) : w \in Lists}
    \cup {Want("assert_sum", w) : w \in UNION {{[balance |-> n]} \cup
                                       WithState([balance |-> n]) : n \in 0..3}}
    \cup {Want("assert_sum", [state |-> "opened"])}

EventTasks ==
    {[type |-> "assert_events", event_name |-> e, want |-> w, num_events |-> n] :
        e \in {"ChannelClosed", "ChannelOpened"},
        w \in {<<>>, [closing_participant |-> 0], [participant1 |-> 0]}, n \in 0..2}
    \cup {[type |-> "assert_channel_settled_event", initiator |-> 0, partner |-> 1,
           initiator_amount |-> None, partner_amount |-> None]}
    \cup {[type |-> "assert_ms_claim", must_claim |-> b] : b \in BOOLEAN}

Paths2 == {<<0, 1>>, <<0, 2, 1>>}
ServiceTasks ==
    {[type |-> "assert_pfs_routes", expected_paths |-> n] : n \in 0..2}
    \cup {History(w, FALSE) :
            w \in {[request_count |-> n] : n \in 1..2}
             \cup {[request_count |-> n, routes_each |-> m] : n, m \in 1..2}
             \cup {[routes_list |-> c] : c \in BoundedSeq(0..2, 2) \ {<<>>}}
             \cup {[expected_fees |-> f] : f \in BoundedSeq(1..2, 3) \ {<<>>}}}
    \cup {History([expected_routes |-> r], d) :
            r \in BoundedSeq(Paths2, 3) \ {<<>>}, d \in BOOLEAN}
    \cup {[type |-> "assert_pfs_iou", iou_exists |-> b, amount |-> n] :
            b \in BOOLEAN, n \in {None, 1}}

MCTasks == ChannelTasks \cup EventTasks \cup ServiceTasks

\* scenarios/bf1_basic_functionality.yaml: the settlement of a channel.
SettledTasks == {t \in EventTasks : t.type = "assert_channel_settled_event"}

\* scenarios/pfs2_simple_no_path.yaml: the PFS has been asked and found no path.
NoPathTasks == {History([request_count |-> 1, routes_each |-> 0], FALSE)}

MCAnswers(t) ==
    CASE t.type = "assert"        -> Channels
      [] t.type = "assert_all"    -> BoundedSeq(FewChannels, 2)
      [] t.type = "assert_sum"    -> BoundedSeq(FewChannels, 2)
      [] t.type = "assert_events" -> BoundedSeq(Closed \cup Opened, 2)
      [] t.type = "assert_channel_settled_event" ->
           {[channel |-> c, events |-> e] : c \in {None, 1}, e \in BoundedSeq(Settled, 2)}
      [] t.type = "assert_ms_claim" ->
           {[channel |-> c, events |-> e] : c \in {None, 1}, e \in BoundedSeq(Claimed, 2)}
      [] t.type = "assert_pfs_routes"  -> {[paths |-> n] : n \in (0..2) \cup {None}}
      [] t.type = "assert_pfs_history" -> Histories
      [] t.type = "assert_pfs_iou"     -> {[amount |-> n] : n \in {None, 1, 2}}

\* These tasks compare what they claim.
ASSUME ComparedTasks == \A t \in MCTasks : \A a \in MCAnswers(t) : Comparable(t, a)

\* The contract may have the participants in either order.
AnswersBothOrders(t) == {[channel |-> 1, events |-> <<e>>] : e \in Settled \cup Swapped}
=============================================================================
