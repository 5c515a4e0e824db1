------------------------- MODULE WatchChannelProofs -------------------------
(***************************************************************************)
(* What a receiver sees of a watch channel.                                *)
(***************************************************************************)
EXTENDS WatchChannel, TLAPS

\* A new channel holds a value that counts as seen.
LEMMA ChannelFacts ==
  ASSUME NEW Values, NEW v \in Values
  PROVE  /\ Channel(v) \in Channels(Values)
         /\ Channel(v).value = v
         /\ ~Channel(v).unseen
BY DEF Channel, Channels

\* What a receiver sees of a channel after a send.
LEMMA SendFacts ==
  ASSUME NEW Values, NEW ch \in Channels(Values), NEW v \in Values
  PROVE  /\ Send(ch, v) \in Channels(Values)
         /\ Send(ch, v).value = v
         /\ Send(ch, v).unseen
BY DEF Send, Channels

\* What a receiver leaves of a channel when it reads it.
LEMMA ReadFacts ==
  ASSUME NEW Values, NEW ch \in Channels(Values)
  PROVE  /\ BorrowAndUpdate(ch) \in Channels(Values)
         /\ BorrowAndUpdate(ch).value = ch.value
         /\ ~BorrowAndUpdate(ch).unseen
BY DEF BorrowAndUpdate, Channels
=============================================================================
