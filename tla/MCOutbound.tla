----------------------------- MODULE MCOutbound -----------------------------
(* Small instances of Outbound for TLC.                                      *)
EXTENDS Outbound, TLC

PublicReply  == [kind |-> "public_message", content |-> "clean", review |-> FALSE]
BlankReply   == [kind |-> "public_message", content |-> "empty", review |-> FALSE]
PlainNote    == [kind |-> "private_note", content |-> "clean", review |-> FALSE]
ReviewNote   == [kind |-> "private_note", content |-> "clean", review |-> TRUE]
EmptyNote    == [kind |-> "private_note", content |-> "empty", review |-> FALSE]

ReplyOrReview == {PublicReply, ReviewNote}
OnlyReply     == {PublicReply}
OnlyReview    == {ReviewNote}
AllDrafts     == {PublicReply, BlankReply, PlainNote, ReviewNote, EmptyNote}

SymmetricWorkers == Permutations(Workers)
=============================================================================
