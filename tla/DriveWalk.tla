------------------------------- MODULE DriveWalk -------------------------------
(***************************************************************************)
(* The listing of a month's folder (services/drive_classifier.py, with     *)
(* GoogleDriveConnector.list_files): a walk down the tree that decides     *)
(* what every file is.  In a sales tree the name of a folder decides for   *)
(* all that is below it; in a purchase tree, or an archive of one, the     *)
(* extension of the file does.  Each folder is listed by a request of its  *)
(* own, and the client may move files and folders between two requests.    *)
(***************************************************************************)
EXTENDS Integers, Sequences, FiniteSets

CONSTANTS
    Trees,       \* what a month's folder may hold: item -> its parent
    Month,       \* the folder that the walk starts from
    Folders,     \* all folders, Month among them
    Named,       \* folder -> "invoice", "credit_note", "ignore" or "none", by its name
    Extension,   \* file -> "pdf", "sheet", "zip" or "other"
    MaxMoves     \* bound: moves during a walk

Files == DOMAIN Extension

(* An item, the folder it is in, the folder that is in, and so on.         *)
UpFrom(tree, x) ==
    {y \in Folders \cup {x} : \A S \in SUBSET (Folders \cup {x}) :
        x \in S /\ (\A z \in S \cap DOMAIN tree : tree[z] \in S) => y \in S}

IsTree(tree) ==
    /\ DOMAIN tree \subseteq (Folders \cup Files) \ {Month}
    /\ tree \in [DOMAIN tree -> Folders]
    /\ \A x \in DOMAIN tree : x \notin UpFrom(tree, tree[x])

ASSUME WalkConstants ==
    /\ IsFiniteSet(Folders) /\ Month \in Folders /\ Files \cap Folders = {}
    /\ \A tree \in Trees : IsTree(tree)
    /\ MaxMoves \in Nat

VARIABLES
    parent,   \* item -> folder
    walk,     \* "idle", "walking", "done", "failed"
    mode,     \* "sales" or "purchase": walk_and_classify(_purchase)
    stack,    \* the folders entered: the type forced on what is below, whether
              \* the folder lies below Month, and what is left of its listing
    results,  \* the files found, with their types
    moved     \* the items moved since the walk began, in order

walkVars == <<parent, walk, mode, stack, results, moved>>

Children(folder) == {x \in DOMAIN parent : parent[x] = folder}
Top == stack[Len(stack)]
Left(x) == [stack EXCEPT ![Len(stack)].items = @ \ {x}]
-------------------------------------------------------------------------------
(* classify_folder_name, classify_root_file, classify_purchase_file.       *)

FolderType(x) == IF mode = "purchase" THEN "none" ELSE Named[x]

RootFileType(f) ==
    CASE Extension[f] = "sheet" -> "client_sheet"
      [] Extension[f] = "pdf" -> "invoice"
      [] OTHER -> "unknown"

PurchaseFileType(f) ==
    CASE Extension[f] = "zip" -> "archive"
      [] Extension[f] = "pdf" -> "invoice"
      [] OTHER -> "unknown"

\* Mutant: in a folder without a type of its own the extension decides, as
\* it does beside the folder.
TypeByExtension(f, forced, nested) ==
    IF forced # "none" THEN forced
    ELSE IF mode = "purchase" THEN PurchaseFileType(f) ELSE RootFileType(f)

TypeOf(f, forced, nested) ==
    IF forced # "none" THEN forced
    ELSE IF mode = "purchase" THEN PurchaseFileType(f)
    ELSE IF nested THEN "unknown" ELSE RootFileType(f)
-------------------------------------------------------------------------------
WalkInit ==
    /\ parent \in Trees
    /\ walk = "idle" /\ mode = "sales"
    /\ stack = <<>> /\ results = <<>> /\ moved = <<>>

StartWalk(kind) ==
    /\ walk = "idle"
    /\ walk' = "walking" /\ mode' = kind
    /\ stack' = <<[forced |-> "none", nested |-> FALSE, items |-> Children(Month)]>>
    /\ UNCHANGED <<parent, results, moved>>

TakeFile(x) ==
    /\ walk = "walking" /\ x \in Top.items \cap Files
    /\ stack' = Left(x)
    /\ results' = Append(results, [file |-> x, type |-> TypeOf(x, Top.forced, Top.nested)])
    /\ UNCHANGED <<parent, walk, mode, moved>>

(* What is below a folder with a type inherits it.                         *)
EnterFolder(x) ==
    /\ walk = "walking" /\ x \in Top.items \cap Folders
    /\ Top.forced # "none" \/ FolderType(x) # "ignore"
    /\ stack' = Append(Left(x),
                       [forced |-> IF Top.forced # "none" THEN Top.forced ELSE FolderType(x),
                        nested |-> TRUE, items |-> Children(x)])
    /\ UNCHANGED <<parent, walk, mode, results, moved>>

IgnoreFolder(x) ==
    /\ walk = "walking" /\ x \in Top.items \cap Folders
    /\ Top.forced = "none" /\ FolderType(x) = "ignore"
    /\ stack' = Left(x)
    /\ UNCHANGED <<parent, walk, mode, results, moved>>

LeaveFolder ==
    /\ walk = "walking" /\ Top.items = {}
    /\ stack' = SubSeq(stack, 1, Len(stack) - 1)
    /\ walk' = IF Len(stack) = 1 THEN "done" ELSE "walking"
    /\ UNCHANGED <<parent, mode, results, moved>>

(* A request fails: the exception ends the walk, and the run.              *)
FailListing ==
    /\ walk = "walking"
    /\ walk' = "failed" /\ stack' = <<>> /\ results' = <<>>
    /\ UNCHANGED <<parent, mode, moved>>

(* The client moves an item; Drive lets no folder go below itself.         *)
Above(x) == UpFrom(parent, x)

Move(x, folder) ==
    /\ walk = "walking" /\ Len(moved) < MaxMoves
    /\ folder # parent[x] /\ x \notin Above(folder)
    /\ parent' = [parent EXCEPT ![x] = folder]
    /\ moved' = Append(moved, x)
    /\ UNCHANGED <<walk, mode, stack, results>>

WalkNext ==
    \/ StartWalk("sales") \/ StartWalk("purchase")
    \/ walk = "walking" /\ \E x \in Top.items : TakeFile(x) \/ EnterFolder(x) \/ IgnoreFolder(x)
    \/ LeaveFolder
    \/ FailListing
    \/ \E x \in DOMAIN parent, folder \in Folders : Move(x, folder)

WalkSpec == WalkInit /\ [][WalkNext]_walkVars
-------------------------------------------------------------------------------
Found(f) == {i \in DOMAIN results : results[i].file = f}
Stayed(f) == \A i \in DOMAIN moved : moved[i] \notin Above(f)

(* The folders over f that have a type, the outermost one of them.         *)
Typed(f) == {y \in (Above(f) \cap Folders) \ {Month} : FolderType(y) # "none"}
Outermost(f) == CHOOSE y \in Typed(f) : Typed(f) \cap Above(y) = {y}

(* What the walk makes of a file, as the folders over it say.              *)
FoundAsNamed(f) ==
    LET type == IF Typed(f) = {} THEN "none" ELSE FolderType(Outermost(f))
    IN  IF type = "ignore" THEN Found(f) = {}
        ELSE /\ Cardinality(Found(f)) = 1
             /\ \A i \in Found(f) : results[i].type =
                   IF type # "none" THEN type
                   ELSE IF mode = "purchase" THEN PurchaseFileType(f)
                   ELSE IF parent[f] = Month THEN RootFileType(f) ELSE "unknown"

(* "walks arbitrarily deep so a client with an extra nesting level doesn't *)
(* silently get skipped": whatever is moved around it, a file that stays   *)
(* where it is is found exactly once, and is what the outermost named      *)
(* folder over it says; it is left out only below a working folder, or     *)
(* when it does not lie below the month's folder.  A file that is moved,   *)
(* or lies in a folder that is moved, may be found again, or not at all;   *)
(* a move at most doubles how often.                                       *)
WalkFindsEveryFile ==
    walk = "done" => \A f \in Files :
        /\ Cardinality(Found(f)) <= 2^Len(moved)
        /\ Stayed(f) => IF Month \in Above(f) THEN FoundAsNamed(f) ELSE Found(f) = {}
===============================================================================
