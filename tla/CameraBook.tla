----------------------------- MODULE CameraBook -----------------------------
(***************************************************************************)
(* What the IP camera service promises about its list, whatever scans,     *)
(* refreshes and saves overlap: the list changes in one step at a time,    *)
(* what the network teaches never touches what the operator entered, an    *)
(* edit concerns one camera, and a write that fails either has no effect   *)
(* or shows up at a later start, unless a successful write came first.     *)
(***************************************************************************)
CONSTANTS
  Names,   \* the cameras' IDs
  Blank    \* no user name, no password

VARIABLES
  book,    \* the list: a function from cameras to what is known of them
  ghosts   \* lists of half-failed writes that a restart may bring back

bookVars == <<book, ghosts>>

\* The two lists agree on the cameras in S.
Agree(b, c, S) ==
  /\ S \cap DOMAIN b = S \cap DOMAIN c
  /\ \A id \in S \cap DOMAIN b : b[id] = c[id]

\* The network adds cameras without user name and password, keeps those of the
\* others, and does not forget that a camera has been initialized.
Learned(next) ==
  /\ DOMAIN book \subseteq DOMAIN next
  /\ \A id \in DOMAIN next \ DOMAIN book : next[id].user = Blank /\ next[id].pass = Blank
  /\ \A id \in DOMAIN book :
       /\ next[id].user = book[id].user /\ next[id].pass = book[id].pass
       /\ book[id].init = "completed" => next[id].init # "unknown"

\* The operator edits, adds or removes one camera; a password can be replaced,
\* and goes only with its camera.
Edited(next) ==
  \E id \in Names :
    /\ Agree(book, next, Names \ {id})
    /\ id \in DOMAIN book \cap DOMAIN next /\ book[id].pass # Blank => next[id].pass # Blank

Store(next) ==
  \/ book' = next /\ ghosts' = {}
  \/ book' = book /\ ghosts' = ghosts \cup ({next} \ {book})

Learn == \E next \in {book'} \cup ghosts' : Learned(next) /\ Store(next)
Edit  == \E next \in {book'} \cup ghosts' : Edited(next) /\ Store(next)

Restart ==
  \E b \in ghosts :
    /\ book' = b
    /\ ghosts' = (ghosts \cup {book}) \ {b}

BookInit == ghosts = {}
BookNext == Learn \/ Edit \/ Restart
BookSpec == BookInit /\ [][BookNext]_bookVars

=============================================================================
