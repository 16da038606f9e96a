---------------------------- MODULE LinearHistory ----------------------------
(***************************************************************************)
(* What undo and redo promise, without transactions, steps or sessions: a  *)
(* line of contents.  "past" are the contents undo goes back to, "future"  *)
(* the ones redo goes forward to, "now" is the content of the graph and    *)
(* "base" the one the uncommitted changes started from.                    *)
(***************************************************************************)
EXTENDS SequencesExt

CONSTANT Content       \* what the graph can hold

VARIABLES past, base, now, future

LinearInit ==
    /\ now \in Content /\ base = now
    /\ past = <<>> /\ future = <<>>

\* An edit of an open group: whatever was undone before can not be redone.
Change ==
    /\ now' \in Content
    /\ future' = <<>>
    /\ UNCHANGED <<past, base>>

\* The group ends and becomes one entry of the line.
Commit ==
    /\ future = <<>>
    /\ past' = Append(past, base)
    /\ base' = now
    /\ UNCHANGED <<now, future>>

\* The group is merged into the entry before it.
Amend ==
    /\ past # <<>> /\ future = <<>>
    /\ base' = now
    /\ UNCHANGED <<past, now, future>>

\* An edit that is a group of its own.
Record ==
    /\ now' \in Content /\ base' = now'
    /\ past' = Append(past, base)
    /\ future' = <<>>

Undo ==
    /\ base = now /\ past # <<>>
    /\ now' = Last(past) /\ base' = now'
    /\ past' = Front(past)
    /\ future' = <<now>> \o future

Redo ==
    /\ base = now /\ future # <<>>
    /\ now' = Head(future) /\ base' = now'
    /\ past' = Append(past, now)
    /\ future' = Tail(future)

\* The history is cleared; the content stays.
Forget ==
    /\ past' = <<>> /\ future' = <<>>
    /\ base' = now
    /\ UNCHANGED now

LinearNext == Change \/ Commit \/ Amend \/ Record \/ Undo \/ Redo \/ Forget

LinearSpec == LinearInit /\ [][LinearNext]_<<past, base, now, future>>
=============================================================================
