------------------------------ MODULE FileLists ------------------------------
(***************************************************************************)
(* The list of the files of a directory that a command of                  *)
(* file_sync_client.cpp makes before it copies them: of a local directory  *)
(* (local_build_list: push, sync) or of one of the device                  *)
(* (remote_build_list: pull), whose service answers with the entries it    *)
(* has (file_sync_service.c).  Both read a directory whole and then those  *)
(* that are in it; the local one follows links, the other does not.        *)
(*                                                                         *)
(* A path is the sequence of its names.  A directory has at most one name, *)
(* links to it apart.  The depth stands for PATH_MAX.  Copying the files   *)
(* of the list is FileSync.                                                *)
(***************************************************************************)
EXTENDS Naturals, Sequences, FiniteSets, Functions

CONSTANTS
  Dirs, root, Names,
  Trees,          \* what a directory has under a name
  MaxDepth

(* An entry: nothing, a file, a device or pipe, a link to nothing, a        *)
(* directory, a link to one.                                                *)
NoEntry == <<"none", root>>
Entries == {NoEntry, <<"file", root>>, <<"special", root>>, <<"dangling", root>>}
           \cup ({"dir", "link"} \X Dirs)

ListsAssumption ==
  root \in Dirs /\ Trees \subseteq [Dirs -> [Names -> Entries]] /\ MaxDepth \in Nat \ {0}

VARIABLES
  side,        \* "local" or "remote"
  tree,
  unreadable,  \* directories that cannot be opened
  filelist,    \* the paths, the last one first
  frames,      \* the calls under way, the innermost first
  st,          \* what the struct stat of the innermost call says: "dir", "other", "unset"
  result,
  lost         \* paths of the directories a file of which vanished

listsVars == <<side, tree, unreadable, filelist, frames, st, result, lost>>

-----------------------------------------------------------------------------
Frame(d, p) ==
  [dir |-> d, path |-> p, left |-> {n \in Names : tree[d][n] # NoEntry}, dirs |-> <<>>]
Top == frames[1]
Entry(n) == tree[Top.dir][n]
Path(n) == Append(Top.path, n)

(* opendir: the caller of a call that fails does not look, but for the      *)
(* first one (the service answers that there is nothing).                   *)
Calls(d, p, below) ==
  IF d \in unreadable THEN frames' = below ELSE frames' = <<Frame(d, p)>> \o below

(* The next entry, without `n` in what is left of the directory.           *)
Reads(n) == frames # <<>> /\ n \in Top.left
Skip(n) == frames' = [frames EXCEPT ![1].left = @ \ {n}]
mkcopyinfo(n) == filelist' = <<Path(n)>> \o filelist
AddFile(n) == mkcopyinfo(n) /\ Skip(n)
AddDir(n) ==
  /\ frames' = [frames EXCEPT ![1].left = @ \ {n}, ![1].dirs = <<n>> \o @]
  /\ UNCHANGED filelist

(* local_build_list.  stat follows a link; when it fails `st` is what it   *)
(* was: that of the entry before, at first of nothing.                     *)
TooLong(n) == Len(Path(n)) > MaxDepth
Stat(n) == CASE Entry(n)[1] \in {"dir", "link"} -> {"dir"}
             [] Entry(n)[1] = "dangling" -> IF st = "unset" THEN {"dir", "other"} ELSE {st}
             [] OTHER -> {"other"}

LocalEntry(n) ==
  /\ side = "local" /\ Reads(n)
  /\ \/ TooLong(n) /\ Skip(n) /\ UNCHANGED <<filelist, st>>
     \/ \E what \in Stat(n) :
          /\ ~TooLong(n) /\ st' = what
          /\ IF what = "dir" THEN AddDir(n)
             ELSE IF Entry(n)[1] = "special" THEN Skip(n) /\ UNCHANGED filelist
             ELSE AddFile(n)
  /\ UNCHANGED <<side, tree, unreadable, result, lost>>

(* lstat of a file that is gone by then ends the call.                     *)
LocalGone(n) ==
  /\ side = "local" /\ Reads(n) /\ ~TooLong(n) /\ Entry(n)[1] = "file"
  /\ frames' = Tail(frames) /\ lost' = lost \cup {Top.path} /\ st' = "unset"
  /\ result' = IF Len(frames) = 1 THEN "failed" ELSE result
  /\ UNCHANGED <<side, tree, unreadable, filelist>>

(* sync_ls_build_list_cb: the service does not follow links.               *)
RemoteEntry(n) ==
  /\ side = "remote" /\ Reads(n)
  /\ CASE Entry(n)[1] = "dir" -> AddDir(n)
       [] Entry(n)[1] = "special" -> Skip(n) /\ UNCHANGED filelist
       [] OTHER -> AddFile(n)
  /\ UNCHANGED <<side, tree, unreadable, st, result, lost>>

(* sync_ls fails with the stream, and all calls with it.                   *)
RemoteFails ==
  /\ side = "remote" /\ frames # <<>> /\ frames' = <<>> /\ result' = "failed"
  /\ UNCHANGED <<side, tree, unreadable, filelist, st, lost>>

(* A directory is read: the first of those found in it, and the end.  What  *)
(* was taken for a directory and is none cannot be opened.                  *)
Recurse ==
  /\ frames # <<>> /\ Top.left = {} /\ Top.dirs # <<>>
  /\ LET n == Head(Top.dirs)
         below == [frames EXCEPT ![1].dirs = Tail(@)]
     IN IF Entry(n)[1] = "dangling" THEN frames' = below ELSE Calls(Entry(n)[2], Path(n), below)
  /\ st' = "unset"
  /\ UNCHANGED <<side, tree, unreadable, filelist, result, lost>>

Return ==
  /\ frames # <<>> /\ Top.left = {} /\ Top.dirs = <<>>
  /\ frames' = Tail(frames) /\ st' = "unset"
  /\ result' = IF Len(frames) = 1 THEN "built" ELSE result
  /\ UNCHANGED <<side, tree, unreadable, filelist, lost>>

-----------------------------------------------------------------------------
Init ==
  /\ side \in {"local", "remote"} /\ tree \in Trees /\ unreadable \in SUBSET (Dirs \ {root})
  /\ filelist = <<>> /\ frames = <<Frame(root, <<>>)>> /\ st = "unset"
  /\ result = "building" /\ lost = {}

Next == (\E n \in Names : LocalEntry(n) \/ LocalGone(n) \/ RemoteEntry(n))
        \/ RemoteFails \/ Recurse \/ Return

(* A command goes on.                                                      *)
Spec == Init /\ [][Next]_listsVars /\ WF_listsVars(Next)

-----------------------------------------------------------------------------
(* What is reached: the directories (those whose reading ended early, and  *)
(* those below them, apart) and the files in them.                         *)
UpTo(k) == UNION {[1..j -> Names] : j \in 0..k}
Prefix(p, j) == SubSeq(p, 1, j)
Leads(d, n, e) ==
  /\ tree[d][n][2] = e /\ e \notin unreadable
  /\ tree[d][n][1] = "dir" \/ (tree[d][n][1] = "link" /\ side = "local")
Walks(p) ==        \* the directories on the way to what p names
  {w \in [1..Len(p) -> Dirs] : w[1] = root /\ \A j \in 1..(Len(p) - 1) : Leads(w[j], p[j], w[j + 1])}
Files(p) == {tree[w[Len(p)]][p[Len(p)]][1] : w \in Walks(p)}
IsFile(p) == Files(p) \cap ({"file", "dangling"} \cup (IF side = "remote" THEN {"link"} ELSE {})) # {}
Spoilt(p) == \E j \in 0..(Len(p) - 1) : Prefix(p, j) \in lost

(* The list has every file that is reached, once, and nothing else; but    *)
(* for those of a directory one file of which vanished while it was read,  *)
(* and for a link to nothing, which may be taken for a directory.  A list  *)
(* made of a local directory follows links, round and round as long as     *)
(* the path is short enough; one of the device follows none.               *)
ListRight ==
  LET Listed == Range(filelist) IN
  /\ \A i, j \in 1..Len(filelist) : filelist[i] = filelist[j] => i = j
  /\ \A p \in Listed : IsFile(p) /\ (side = "local" => Len(p) =< MaxDepth)
  /\ result = "built" =>
       \A p \in UpTo(MaxDepth) \ {<<>>} :
         IsFile(p) => p \in Listed \/ Spoilt(p) \/ (side = "local" /\ "dangling" \in Files(p))

(* Building a list ends.                                                   *)
Building == result = "building"
ListEnds == Building ~> ~Building

=============================================================================
