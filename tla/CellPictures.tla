---------------------------- MODULE CellPictures ----------------------------
(***************************************************************************)
(* The picture views of the list's cells.  A cell is used for one row      *)
(* after another; each row with a picture starts a load, loads are never   *)
(* cancelled, and end in any order.                                        *)
(***************************************************************************)
EXTENDS Naturals

CONSTANTS
  Cell, URL,
  None       \* no picture, no address

NoneAssumption == None \notin URL

VARIABLES
  row,       \* the address of the row each cell is used for
  image,     \* what its view shows, named by its address
  webURL,    \* the address the view is bound to
  loading,   \* loads under way
  failed,    \* history: loads that failed for the row a cell is used for
  latest     \* history: the address the last row with one gave each cell

vars == <<row, image, webURL, loading, failed, latest>>

Load == [cell : Cell, url : URL]

(* Every variable keeps its type; the only invariant that says no more.    *)
TypeOK ==
  /\ row \in [Cell -> URL \cup {None}]
  /\ image \in [Cell -> URL \cup {None}]
  /\ webURL \in [Cell -> URL \cup {None}] /\ latest \in [Cell -> URL \cup {None}]
  /\ loading \subseteq Load /\ failed \subseteq Load

Init ==
  /\ row = [c \in Cell |-> None] /\ image = [c \in Cell |-> None]
  /\ webURL = [c \in Cell |-> None] /\ latest = [c \in Cell |-> None]
  /\ loading = {} /\ failed = {}

-----------------------------------------------------------------------------
(* Mutation: the address is read before the cell has its new row.          *)
LoadOfPrevious(c, url) == [cell |-> c, url |-> row[c]]

LoadOf(c, url) == [cell |-> c, url |-> url]

(* cellForRowAt, for a row with a picture: the view is emptied, bound to   *)
(* the address, and loads.                                                 *)
ShowRow(c, url) ==
  /\ row' = [row EXCEPT ![c] = url]
  /\ image' = [image EXCEPT ![c] = None]
  /\ webURL' = [webURL EXCEPT ![c] = url]
  /\ loading' = loading \cup {LoadOf(c, url)}
  /\ failed' = {l \in failed : l.cell # c}
  /\ latest' = [latest EXCEPT ![c] = url]

(* cellForRowAt, for a row whose picture is no address, which a string     *)
(* with a separator in its texts can have: the view is emptied and unbound.*)
ShowRowOfNoAddress(c) ==
  /\ row' = [row EXCEPT ![c] = None]
  /\ image' = [image EXCEPT ![c] = None]
  /\ webURL' = [webURL EXCEPT ![c] = None]
  /\ failed' = {l \in failed : l.cell # c}
  /\ latest' = [latest EXCEPT ![c] = None]
  /\ UNCHANGED loading

(* cellForRowAt, for a row without: the view is left as it is, bound to an *)
(* earlier row's address and showing its picture or still loading it.      *)
ShowRowWithoutPicture(c) ==
  /\ row' = [row EXCEPT ![c] = None]
  /\ failed' = {l \in failed : l.cell # c}
  /\ UNCHANGED <<image, webURL, loading, latest>>

(* Mutation: a load shows its image whatever the view is bound to.         *)
AnyLoad(l) == TRUE

Bound(l) == webURL[l.cell] = l.url

(* The completion of retrieveImage, with an image.                         *)
Loaded(l) ==
  /\ loading' = loading \ {l}
  /\ image' = IF Bound(l) THEN [image EXCEPT ![l.cell] = l.url] ELSE image
  /\ UNCHANGED <<row, webURL, failed, latest>>

(* The completion of retrieveImage, with an error.                         *)
LoadFails(l) ==
  /\ loading' = loading \ {l}
  /\ failed' = IF row[l.cell] = l.url THEN failed \cup {l} ELSE failed
  /\ UNCHANGED <<row, image, webURL, latest>>

LoadEnds == \E l \in loading : Loaded(l) \/ LoadFails(l)

Next ==
  \/ \E c \in Cell :
       ShowRowWithoutPicture(c) \/ ShowRowOfNoAddress(c) \/ \E url \in URL : ShowRow(c, url)
  \/ LoadEnds

Spec == Init /\ [][Next]_vars

(* Every load ends, with an image or an error.                             *)
Fairness == \A l \in Load : WF_vars(l \in loading /\ (Loaded(l) \/ LoadFails(l)))

FairSpec == Spec /\ Fairness

-----------------------------------------------------------------------------
(* A row with a picture shows its own or none, whatever its cell showed    *)
(* before and in whatever order the loads end.  A row without one, for     *)
(* which cellForRowAt leaves the view alone, shows none or the picture of  *)
(* the last row with one that its cell was used for: a load that ends late *)
(* brings back no earlier one.                                             *)
OwnPicture ==
  \A c \in Cell : /\ row[c] # None => image[c] \in {None, row[c]}
                  /\ row[c] = None => image[c] \in {None, latest[c]}

(* A row that stays in its cell gets its picture, again after each time it *)
(* is laid out anew, unless loading it failed.                             *)
PictureComes ==
  \A c \in Cell, url \in URL :
    <>[](row[c] = url) => []<>(image[c] = url \/ \E l \in failed : l.cell = c /\ l.url = url)

=============================================================================
