---------------------------- MODULE WatchChannel ----------------------------
(***************************************************************************)
(* A tokio::sync::watch channel as its single receiver sees it.  The       *)
(* channel stores only the latest value: a value sent before the receiver  *)
(* looked at the previous one replaces it.  "unseen" is what changed()     *)
(* waits for; borrow_and_update() reads the value and clears it.           *)
(***************************************************************************)

Channel(value) == [value |-> value, unseen |-> FALSE]

Channels(Values) == [value : Values, unseen : BOOLEAN]

Send(channel, value) == [channel EXCEPT !.value = value, !.unseen = TRUE]

BorrowAndUpdate(channel) == [channel EXCEPT !.unseen = FALSE]
=============================================================================
