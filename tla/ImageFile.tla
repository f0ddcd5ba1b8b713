----------------------------- MODULE ImageFile -----------------------------
(***************************************************************************)
(* What make-qcow2.sh promises of the image file in each directory where   *)
(* it is run: the success message of its last line stands for an image     *)
(* that holds the whole rootfs directory, and nothing touches that image   *)
(* until somebody asks for a new one.                                      *)
(***************************************************************************)

CONSTANT Builders   \* the directories

VARIABLES
    content,        \* per directory: the image, "none", "torn" or "full"
    announced       \* per directory: the success message for it was printed

Contents == {"none", "torn", "full"}

Init ==
    /\ content = [b \in Builders |-> "none"]
    /\ announced = [b \in Builders |-> FALSE]

\* An old image is given up, announced or not.
Begin(b) ==
    /\ content' = [content EXCEPT ![b] = "torn"]
    /\ announced' = [announced EXCEPT ![b] = FALSE]

\* An image that nobody was told of may be anything in between.
Build(b) ==
    /\ ~announced[b] /\ content[b] # "none"
    /\ \E c \in {"torn", "full"} : content' = [content EXCEPT ![b] = c]
    /\ UNCHANGED announced

Announce(b) ==
    /\ content[b] = "full"
    /\ announced' = [announced EXCEPT ![b] = TRUE]
    /\ UNCHANGED content

Next == \E b \in Builders : Begin(b) \/ Build(b) \/ Announce(b)

Spec == Init /\ [][Next]_<<content, announced>>

=============================================================================
