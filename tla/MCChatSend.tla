----------------------------- MODULE MCChatSend -----------------------------
(***************************************************************************)
(* Small instances of ChatSend for TLC.                                    *)
(***************************************************************************)
EXTENDS ChatSend, TLC

CONSTANTS k1, k2, k3  \* calls

Words(terms) == [words |-> terms, folded |-> terms]
Text(conv, id, terms) == [conv |-> conv, id |-> id, type |-> "text", message |-> Words(terms)]

Plain(conv, id) == Text(conv, id, {})

\* One message of every kind the routing tells apart.
KindRequests ==
    { Plain("c1", "m1"),
      Text("c1", "m2", {"tuikuan"}),
      Text("c1", "m3", {"wangjimima"}),
      Text("c1", "m4", {"zhuxiao", "zhuxiaozhanghao", "wangjimima"}),
      Text("c1", "m5", {"yanzhengma"}),
      [conv |-> "c1", id |-> "m6", type |-> "text",
       message |-> [words |-> {}, folded |-> {"tuikuan"}]],
      [conv |-> "c1", id |-> "m7", type |-> "image", message |-> Words({"tuikuan"})] }

\* Two messages of one conversation, one of another; two calls with the same request are a
\* client's retry.
TwoConversations == { Plain("c1", "m1"), Plain("c1", "m2"), Plain("c2", "m3") }

RetriedRequests == { Plain("c1", "m1"), Text("c1", "m2", {"tuikuan"}) }

PlainRequests == { Plain("c1", "m1"), Plain("c2", "m2") }

\* An operator's list: a rule that hands off what is built in as a reply, and one that
\* replies to what is built in as a handoff.
Operators == { << [terms |-> {"wangjimima"}, action |-> "handoff"],
                  [terms |-> {"tuikuan"}, action |-> "reply"] >> }
NoOperators == {}

\* A model that always answers well.
GoodReplies == { [text |-> "good", route |-> "", transfer |-> FALSE, docs |-> TRUE] }

CallSymmetry == Permutations(Calls)
=============================================================================
