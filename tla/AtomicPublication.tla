------------------------- MODULE AtomicPublication -------------------------
(***************************************************************************)
(* What a publication promises a user, without journal, thread, failure or *)
(* crash: a publication is open while its targets move between their       *)
(* before and after contents, and it ends with all of them before, all of  *)
(* them after, or because the user keeps the files as they are.  A target  *)
(* another program wrote while it was open is that program's business.     *)
(***************************************************************************)
CONSTANTS Resource, Content, None

VARIABLES file,         \* content of each target
          publication,  \* the open publication [id, before, after], or None
          edited,       \* targets another program wrote since it opened
          kept          \* the user kept the files of the last publication

vars == <<file, publication, edited, kept>>

Init == /\ file \in [Resource -> Content]
        /\ publication = None
        /\ edited = {}
        /\ kept = FALSE

Open == /\ publication = None
        /\ publication' # None
        /\ edited' = {r \in Resource : file[r] # publication'.before[r]}
        /\ kept' = FALSE
        /\ UNCHANGED file

Move == /\ publication # None
        /\ \E r \in Resource :
              LET own == {publication.before[r], publication.after[r]} IN
              /\ file[r] \in own \/ r \in edited
              /\ \E c \in own : file' = [file EXCEPT ![r] = c]
        /\ UNCHANGED <<publication, edited, kept>>

Settled(contents) == \A r \in Resource \ edited : file[r] = contents[r]

Settle == /\ publication # None
          /\ Settled(publication.before) \/ Settled(publication.after)
          /\ publication' = None
          /\ UNCHANGED <<file, edited, kept>>

Keep == /\ publication # None
        /\ publication' = None
        /\ kept' = TRUE
        /\ UNCHANGED <<file, edited>>

Edit == /\ \E r \in Resource, c \in Content :
              /\ file' = [file EXCEPT ![r] = c]
              /\ edited' = edited \cup {r}
        /\ UNCHANGED <<publication, kept>>

Next == Open \/ Move \/ Settle \/ Keep \/ Edit

Spec == Init /\ [][Next]_vars
=============================================================================
