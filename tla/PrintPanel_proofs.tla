------------------------- MODULE PrintPanel_proofs -------------------------
(***************************************************************************)
(* The promises of the file browser and of the question it asks before a   *)
(* print, for any files and spools and any number of events, taps and      *)
(* requests under way.  Each rests on what a request that is not answered  *)
(* yet will still put right.                                               *)
(***************************************************************************)
EXTENDS PrintPanel, TLAPS

(* Requests under way *)

(* What a step does to them: some of gone may leave, each of come joins.   *)
Moves(q, p, gone, come) ==
  /\ IsABag(q)
  /\ DOMAIN q \subseteq DOMAIN p \cup come
  /\ (DOMAIN p \ gone) \cup come \subseteq DOMAIN q
  /\ \A r \in gone \cap DOMAIN p : p[r] # 1 => r \in DOMAIN q
  /\ \A r \in DOMAIN q \ come : q[r] <= p[r]
  /\ \A r \in (DOMAIN q \cap gone) \ come : q[r] < p[r]
  /\ \A r \in come \ DOMAIN p : q[r] = 1

LEMMA EmptyBagIs == IsABag(EmptyBag) /\ DOMAIN EmptyBag = {}
BY DEF EmptyBag, IsABag, SetToBag

LEMMA SetToBagIs ==
  ASSUME NEW rs
  PROVE  /\ IsABag(SetToBag(rs)) /\ DOMAIN SetToBag(rs) = rs
         /\ \A r \in rs : SetToBag(rs)[r] = 1
BY DEF SetToBag, IsABag

LEMMA BagCounts ==
  ASSUME NEW p, IsABag(p), NEW r \in DOMAIN p
  PROVE  p[r] \in Nat \ {0}
BY DEF IsABag

LEMMA PlusIs ==
  ASSUME NEW p, NEW rs, IsABag(p)
  PROVE  /\ IsABag(p (+) SetToBag(rs)) 
         /\ DOMAIN (p (+) SetToBag(rs)) = DOMAIN p \cup rs
         /\ \A r \in DOMAIN p \ rs : (p (+) SetToBag(rs))[r] = p[r]
         /\ \A r \in rs \ DOMAIN p : (p (+) SetToBag(rs))[r] = 1
<1> DEFINE b == SetToBag(rs)
<1>1. DOMAIN b = rs /\ \A r \in rs : b[r] = 1 BY SetToBagIs
<1>2. \A r \in DOMAIN p : p[r] \in Nat /\ p[r] > 0 BY BagCounts
<1> HIDE DEF b
<1>3. p (+) b = [e \in DOMAIN p \cup rs |->
                   (IF e \in DOMAIN p THEN p[e] ELSE 0)
                     + (IF e \in rs THEN b[e] ELSE 0)]
  BY <1>1 DEF (+)
<1>4. \A e \in DOMAIN p \cup rs : (p (+) b)[e] =
         (IF e \in DOMAIN p THEN p[e] ELSE 0) + (IF e \in rs THEN 1 ELSE 0)
  BY <1>1, <1>3
<1>5. \A e \in DOMAIN p \cup rs : (p (+) b)[e] \in Nat /\ (p (+) b)[e] > 0
  BY <1>2, <1>4
<1>6. IsABag(p (+) b) BY <1>3, <1>5 DEF IsABag
<1>7. \A r \in DOMAIN p \ rs : (p (+) b)[r] = p[r] BY <1>2, <1>4
<1>8. \A r \in rs \ DOMAIN p : (p (+) b)[r] = 1 BY <1>4
<1> QED BY <1>3, <1>6, <1>7, <1>8 DEF b

LEMMA RemoveIs ==
  ASSUME NEW p, NEW x, IsABag(p), x \in DOMAIN p
  PROVE  Moves(BagRemove(p, x), p, {x}, {})
<1> DEFINE q == BagRemove(p, x)
<1>1. \A r \in DOMAIN p : p[r] \in Nat /\ p[r] > 0 BY BagCounts
<1>2. CASE p[x] = 1
  <2>1. q = [e \in DOMAIN p \ {x} |-> p[e]] BY <1>2 DEF BagRemove
  <2> HIDE DEF q
  <2>2. IsABag(q) BY <1>1, <2>1 DEF IsABag
  <2>3. /\ DOMAIN q = DOMAIN p \ {x}
        /\ \A r \in DOMAIN q : q[r] = p[r] /\ p[r] \in Nat
    BY <1>1, <2>1
  <2>4. \A r \in {x} \cap DOMAIN p : p[r] # 1 => r \in DOMAIN q BY <1>2
  <2>5. \A r \in DOMAIN q \ {} : q[r] <= p[r] BY <2>3
  <2>6. Moves(q, p, {x}, {}) BY <2>2, <2>3, <2>4, <2>5 DEF Moves
  <2> QED BY <2>6 DEF q
<1>3. CASE p[x] # 1
  <2>1. q = [e \in DOMAIN p |-> IF e = x THEN p[e] - 1 ELSE p[e]]
    BY <1>3 DEF BagRemove
  <2> HIDE DEF q
  <2>2. \A e \in DOMAIN p : q[e] = IF e = x THEN p[e] - 1 ELSE p[e] BY <2>1
  <2>3. \A e \in DOMAIN p : q[e] \in Nat /\ q[e] > 0 BY <1>1, <1>3, <2>2
  <2>4. IsABag(q) BY <2>1, <2>3 DEF IsABag
  <2>5. DOMAIN q = DOMAIN p BY <2>1
  <2>6. \A r \in DOMAIN p : q[r] <= p[r] BY <1>1, <2>2
  <2>7. q[x] < p[x] BY <1>1, <2>2
  <2>8. Moves(q, p, {x}, {}) BY <2>4, <2>5, <2>6, <2>7 DEF Moves
  <2> QED BY <2>8 DEF q
<1> QED BY <1>2, <1>3

(* What joins after that *)
LEMMA MovesPlus ==
  ASSUME NEW q, NEW p, NEW gone, NEW come, NEW more, IsABag(p),
         Moves(q, p, gone, come), come \cap more = {}
  PROVE  Moves(q (+) SetToBag(more), p, gone, come \cup more)
<1> DEFINE b == q (+) SetToBag(more)
<1>1. /\ IsABag(b) /\ DOMAIN b = DOMAIN q \cup more
      /\ \A r \in DOMAIN q \ more : b[r] = q[r]
      /\ \A r \in more \ DOMAIN q : b[r] = 1
  BY PlusIs DEF Moves
<1> HIDE DEF b
<1>2. \A r \in DOMAIN b \ (come \cup more) : b[r] <= p[r]
  BY <1>1 DEF Moves
<1>3. \A r \in (DOMAIN b \cap gone) \ (come \cup more) : b[r] < p[r]
  BY <1>1 DEF Moves
<1>4. \A r \in (come \cup more) \ DOMAIN p : b[r] = 1
  BY <1>1 DEF Moves
<1>5. Moves(b, p, gone, come \cup more) BY <1>1, <1>2, <1>3, <1>4 DEF Moves
<1> QED BY <1>5 DEF b

LEMMA MovesNone ==
  ASSUME NEW p, IsABag(p)
  PROVE  Moves(p, p, {}, {})
<1>1. \A r \in DOMAIN p : p[r] \in Nat BY BagCounts
<1> QED BY <1>1 DEF Moves

-----------------------------------------------------------------------------
(* What each action does to the requests *)

Goes(gone, come) == Moves(pending', pending, gone, come)

(* Nothing is under way on a connection that is down. *)
Wire == IsABag(pending) /\ (~connected => DOMAIN pending = {})

Post(s) == [kind |-> "post", spool |-> s]

LEMMA ReplyIsConnected ==
  ASSUME NEW r, Wire, Reply(r)
  PROVE  connected
BY DEF Wire, Reply

LEMMA RestMoves ==
  ASSUME NEW r, Wire, Reply(r)
  PROVE  Moves(Rest(r), pending, {r}, {})
BY RemoveIs DEF Wire, Reply, Rest

LEMMA RestPlus ==
  ASSUME NEW r, NEW more, Wire, Reply(r)
  PROVE  Moves(Rest(r) (+) SetToBag(more), pending, {r}, more)
<1>1. Moves(Rest(r), pending, {r}, {}) BY RestMoves
<1>2. Moves(Rest(r) (+) SetToBag(more), pending, {r}, {} \cup more)
  BY <1>1, MovesPlus DEF Wire
<1> QED BY <1>2

LEMMA PendingPlus ==
  ASSUME NEW more, Wire
  PROVE  Moves(pending (+) SetToBag(more), pending, {}, more)
<1>1. Moves(pending, pending, {}, {}) BY MovesNone DEF Wire
<1>2. Moves(pending (+) SetToBag(more), pending, {}, {} \cup more)
  BY <1>1, MovesPlus DEF Wire
<1> QED BY <1>2

LEMMA SendMoves ==
  ASSUME NEW more, Wire, connected, Send(more)
  PROVE  Goes({}, more)
BY PendingPlus DEF Send, SendWith, Goes

LEMMA RestSendMoves ==
  ASSUME NEW r, NEW more, Wire, Reply(r), SendWith(Rest(r), more)
  PROVE  Goes({r}, more)
BY RestPlus, ReplyIsConnected DEF SendWith, Goes

LEMMA RestGoes ==
  ASSUME NEW r, Wire, Reply(r), pending' = Rest(r)
  PROVE  Goes({r}, {})
BY RestMoves DEF Goes

LEMMA StayGoes ==
  ASSUME Wire, UNCHANGED pending
  PROVE  Goes({}, {})
BY MovesNone DEF Wire, Goes

(* f is selected from the tree t, with what data has of it. *)
Selects(f, t, data, asks) ==
  /\ f \in Files /\ t[f] # 0 /\ cur_file' = f
  /\ \/ /\ data[f] # 0 /\ asks = {}
        /\ details' = [file |-> f, version |-> data[f], state |-> "shown"]
     \/ /\ data[f] = 0 /\ asks = {About("metadata", f)}
        /\ details' = [file |-> f, version |-> 0, state |-> "loading"]

Keeps(selected) == cur_file' = selected /\ UNCHANGED details

Shows(t, selected, data, gone, come) ==
  /\ metadata' = data
  /\ \/ \E f, asks :
           Goes(gone, come \cup asks) /\ Selects(f, t, data, asks)
     \/ Goes(gone, come) /\ Keeps(selected)

LEMMA ShowFileDetailMoves ==
  ASSUME NEW f \in Files, NEW t, t[f] # 0, NEW data, NEW p, NEW gone, NEW come,
         NEW selected,
         Wire, connected, Moves(p, pending, gone, come),
         \A r \in come : r.kind # "metadata",
         ShowFileDetail(f, data, p)
  PROVE  Shows(t, selected, data, gone, come)
<1>1. CASE data[f] # 0
  <2>1. pending' = p BY <1>1 DEF ShowFileDetail
  <2>2. Goes(gone, come \cup {}) BY <2>1 DEF Goes
  <2>3. Selects(f, t, data, {}) BY <1>1 DEF ShowFileDetail, Selects
  <2> QED BY <2>2, <2>3 DEF ShowFileDetail, Shows
<1>2. CASE data[f] = 0
  <2> DEFINE m == {About("metadata", f)}
  <2>1. pending' = p (+) SetToBag(m) BY <1>2 DEF ShowFileDetail, SendWith
  <2>2. come \cap m = {} BY DEF About
  <2>3. Moves(p (+) SetToBag(m), pending, gone, come \cup m)
    BY <2>2, MovesPlus DEF Wire
  <2>4. Goes(gone, come \cup m) BY <2>1, <2>3 DEF Goes
  <2>5. Selects(f, t, data, m) BY <1>2 DEF ShowFileDetail, Selects
  <2> QED BY <2>4, <2>5 DEF ShowFileDetail, Shows
<1> QED BY <1>1, <1>2

LEMMA ShowDirMoves ==
  ASSUME NEW t, NEW dir, NEW newest, NEW selected, NEW data, NEW p,
         NEW gone, NEW come,
         Wire, connected, Moves(p, pending, gone, come),
         \A r \in come : r.kind # "metadata",
         ShowDir(t, dir, newest, selected, data, p)
  PROVE  Shows(t, selected, data, gone, come)
<1>1. CASE \E f \in First(t, dir, newest) : ShowFileDetail(f, data, p)
  <2>1. PICK f \in First(t, dir, newest) : ShowFileDetail(f, data, p) BY <1>1
  <2>2. f \in Files /\ t[f] # 0 BY <2>1 DEF First, Newest, Leaves
  <2> QED BY <2>1, <2>2, ShowFileDetailMoves
<1>2. CASE /\ cur_file' = selected /\ metadata' = data /\ pending' = p
           /\ UNCHANGED details
  BY <1>2 DEF Goes, Keeps, Shows
<1> QED BY <1>1, <1>2 DEF ShowDir

(* The three ways of the taps and of a new list to show a folder *)
LEMMA OpenFilesDoes ==
  ASSUME Wire, OpenFiles
  PROVE  Shows(tree, cur_file, metadata, {}, {Ask("list")})
<1>1. connected BY DEF OpenFiles, Tap
<1>2. Moves(pending (+) SetToBag({Ask("list")}), pending, {}, {Ask("list")})
  BY PendingPlus
<1>3. \A r \in {Ask("list")} : r.kind # "metadata" BY DEF Ask
<1> QED BY <1>1, <1>2, <1>3, ShowDirMoves DEF OpenFiles

LEMMA ShowsHere ==
  ASSUME NEW dir, NEW newest, Wire, connected,
         ShowDir(tree, dir, newest, cur_file, metadata, pending)
  PROVE  Shows(tree, cur_file, metadata, {}, {})
<1>1. Moves(pending, pending, {}, {}) BY MovesNone DEF Wire
<1>2. \A r \in {} : r.kind # "metadata" OBVIOUS
<1> QED BY <1>1, <1>2, ShowDirMoves

LEMMA SortTapDoes ==
  ASSUME Wire, SortTap
  PROVE  Shows(tree, cur_file, metadata, {}, {})
BY ShowsHere DEF SortTap, Tap

LEMMA TapFolderDoes ==
  ASSUME NEW dir, Wire, TapFolder(dir)
  PROVE  Shows(tree, cur_file, metadata, {}, {})
BY ShowsHere DEF TapFolder, Tap

LEMMA TapFileDoes ==
  ASSUME NEW f \in Files, Wire, TapFile(f)
  PROVE  Shows(tree, cur_file, metadata, {}, {})
<1>1. connected /\ tree[f] # 0 BY DEF TapFile, Tap, Leaves
<1>2. Moves(pending, pending, {}, {}) BY MovesNone DEF Wire
<1>3. \A r \in {} : r.kind # "metadata" OBVIOUS
<1>4. ShowFileDetail(f, metadata, pending) BY DEF TapFile
<1> QED BY <1>1, <1>2, <1>3, <1>4, ShowFileDetailMoves

Again == IF refresh_pending THEN {Ask("list")} ELSE {}

LEMMA FileListDoes ==
  ASSUME NEW d, Wire, FileList(d)
  PROVE  /\ connected /\ Listing(d) \in DOMAIN pending /\ tree' = d
         /\ Shows(d, None, [f \in Files |-> 0], {Listing(d)}, Again)
         /\ refreshing_files' = refresh_pending /\ refresh_pending' = FALSE
         /\ overlapped' = IF refresh_pending THEN Refreshing(Rest(Listing(d)))
                          ELSE overlapped
<1>1. Reply(Listing(d)) BY DEF FileList
<1>2. connected BY <1>1, ReplyIsConnected
<1>3. Moves(Rest(Listing(d)) (+) SetToBag(Again), pending, {Listing(d)}, Again)
  BY <1>1, RestPlus
<1>4. \A r \in Again : r.kind # "metadata" BY DEF Again, Ask
<1>5. ShowDir(d, cur_dir', TRUE, None, [f \in Files |-> 0],
              Rest(Listing(d)) (+) SetToBag(Again))
  BY DEF FileList, Again
<1>6. Shows(d, None, [f \in Files |-> 0], {Listing(d)}, Again)
  BY <1>2, <1>3, <1>4, <1>5, ShowDirMoves
<1> QED BY <1>1, <1>2, <1>6 DEF FileList, Reply

(* A change of the files asks for a list, or marks the refresh under way.  *)
LEMMA FilelistChangedDoes ==
  ASSUME Wire, FilelistChanged
  PROVE  \/ ~connected /\ UNCHANGED <<refresh, pending, overlapped>>
         \/ /\ connected /\ refreshing_files /\ refresh_pending' = TRUE
            /\ UNCHANGED <<refreshing_files, pending, overlapped>>
         \/ /\ connected /\ ~refreshing_files /\ Goes({}, {Ask("list")})
            /\ Subscribing(pending)
BY SendMoves DEF FilelistChanged

(* The replies take their request away, and may ask for more.              *)
LEMMA ObjectListGoes ==
  ASSUME Wire, ObjectList
  PROVE  connected /\ Goes({Ask("objects")},
                           {Ask("list"), Ask("subscribe"), Ask("info")})
BY RestSendMoves, ReplyIsConnected DEF ObjectList

LEMMA SnapshotGoes ==
  ASSUME Wire, Snapshot
  PROVE  connected /\ Goes({Ask("subscribe")}, {})
BY RestGoes, ReplyIsConnected DEF Snapshot

SpoolAsks == IF Spools # {} THEN {Ask("spool")} ELSE {}

LEMMA ServerInfoGoes ==
  ASSUME Wire, ServerInfo
  PROVE  connected /\ Goes({Ask("info")}, SpoolAsks)
BY RestSendMoves, ReplyIsConnected DEF ServerInfo, SpoolAsks

LEMMA SpoolIdGoes ==
  ASSUME Wire, SpoolId
  PROVE  connected /\ Goes({Ask("spool")}, {})
BY RestGoes, ReplyIsConnected DEF SpoolId

LEMMA ListReadGoes ==
  ASSUME Wire, ListRead
  PROVE  connected /\ Goes({Ask("list")}, {Listing(disk)})
<1>1. connected /\ Reply(Ask("list")) BY ReplyIsConnected DEF ListRead
<1>2. pending' = Rest(Ask("list")) (+) SetToBag({Listing(disk)})
  BY DEF ListRead
<1> QED BY <1>1, <1>2, RestPlus DEF Goes

Rescan(f) == IF f \in scanned \/ cur_file # f THEN {} ELSE {About("metascan", f)}

LEMMA GotMetadataGoes ==
  ASSUME NEW f \in Files, Wire, GotMetadata(f)
  PROVE  connected /\ Goes({About("metadata", f)}, Rescan(f))
<1>1. connected /\ Reply(About("metadata", f))
  BY ReplyIsConnected DEF GotMetadata
<1>2. CASE f \in scanned
  <2>1. pending' = Rest(About("metadata", f)) BY <1>2 DEF GotMetadata
  <2> QED BY <1>1, <1>2, <2>1, RestGoes DEF Rescan
<1>3. CASE f \notin scanned
  <2>1. SendWith(Rest(About("metadata", f)),
                 {About("metascan", g) : g \in {f} \cap {cur_file}})
    BY <1>3 DEF GotMetadata
  <2>2. {About("metascan", g) : g \in {f} \cap {cur_file}} = Rescan(f)
    BY <1>3 DEF Rescan
  <2> QED BY <1>1, <2>1, <2>2, RestSendMoves
<1> QED BY <1>2, <1>3

LEMMA GotMetascanGoes ==
  ASSUME NEW f \in Files, Wire, GotMetascan(f)
  PROVE  connected /\ Goes({About("metascan", f)}, {})
BY RestGoes, ReplyIsConnected DEF GotMetascan

LEMMA StartedGoes ==
  ASSUME NEW f \in Files, Wire, Started(f)
  PROVE  connected /\ Goes({About("start", f)}, {})
BY RestGoes, ReplyIsConnected DEF Started

LEMMA PostedGoes ==
  ASSUME NEW s \in Spools, Wire, Posted(s)
  PROVE  connected /\ Goes({Post(s)}, {})
BY RestGoes, ReplyIsConnected DEF Posted, Post

LEMMA OnOpenGoes ==
  ASSUME OnOpen
  PROVE  IsABag(pending') /\ DOMAIN pending' = {Ask("objects")} /\ connected'
BY SetToBagIs DEF OnOpen

LEMMA OnCloseGoes ==
  ASSUME OnClose
  PROVE  IsABag(pending') /\ DOMAIN pending' = {} /\ ~connected'
BY EmptyBagIs DEF OnClose

(* The taps *)
LEMMA ReloadGoes ==
  ASSUME Wire, Reload
  PROVE  connected /\ Goes({}, {Ask("list")})
BY SendMoves DEF Reload, Tap

StartAsks(f) == {About("start", g) : g \in {f} \ {None}}

LEMMA StartsGoes ==
  ASSUME NEW f, Wire, connected, StartPendingPrint(f)
  PROVE  Goes({}, StartAsks(f))
BY SendMoves DEF StartPendingPrint, StartAsks

LEMMA TapYesGoes ==
  ASSUME Wire, TapYes
  PROVE  connected /\ Goes({}, StartAsks(pending_print_path))
BY StartsGoes DEF TapYes, Tap

LEMMA TapPrintGoes ==
  ASSUME Wire, TapPrint
  PROVE  /\ connected
         /\ \/ spoolman_enabled /\ UNCHANGED pending /\ Goes({}, {})
            \/ ~spoolman_enabled /\ Goes({}, StartAsks(cur_file))
<1>1. connected BY DEF TapPrint, Tap
<1>2. CASE spoolman_enabled
  <2>1. UNCHANGED pending BY <1>2 DEF TapPrint
  <2> QED BY <1>1, <1>2, <2>1, StayGoes
<1>3. CASE ~spoolman_enabled
  <2>1. StartPendingPrint(cur_file) BY <1>3 DEF TapPrint
  <2> QED BY <1>1, <1>3, <2>1, StartsGoes
<1> QED BY <1>2, <1>3

LEMMA ReloadSpoolsGoes ==
  ASSUME Wire, ReloadSpools
  PROVE  connected /\ Goes({}, {Ask("spool")})
BY SendMoves DEF ReloadSpools, Tap

LEMMA TapSpoolGoes ==
  ASSUME NEW s \in Spools, Wire, TapSpool(s)
  PROVE  connected /\ Goes({}, {Post(s)})
BY SendMoves DEF TapSpool, Tap, Post

-----------------------------------------------------------------------------
(* Types *)

FileTypes ==
  /\ disk \in [Files -> Version] /\ tree \in [Files -> Version]
  /\ metadata \in [Files -> Version] /\ scanned \subseteq Files
  /\ events \in 1..(MaxEvents + 1) /\ breaks \in 0..MaxEvents

ViewTypes ==
  /\ cur_dir \in {Root} \cup {Folder[f] : f \in Files}
  /\ cur_file \in Files \cup {None}
  /\ details \in [file : Files \cup {None}, version : Version,
                  state : {"loading", "shown", "missing"}]

WireTypes == Wire /\ DOMAIN pending \subseteq Request

SpoolTypes ==
  /\ spool \in Spools \cup {None} /\ active_id \in Spools \cup {None}
  /\ listed \in Spools \cup {None} /\ asked \in Spools \cup {None}
  /\ pending_print_path \in Files \cup {None} /\ tapped \in Files \cup {None}

StackTypes ==
  /\ open \subseteq Screens /\ over \subseteq open \X open
  /\ \A s, t \in open : <<s, t>> \in over <=> s # t /\ <<t, s>> \notin over

FlagTypes ==
  /\ known \in {"unknown", "idle", "running"}
  /\ printing \in BOOLEAN /\ connected \in BOOLEAN /\ newestFirst \in BOOLEAN
  /\ refreshing_files \in BOOLEAN /\ refresh_pending \in BOOLEAN
  /\ spoolman_enabled \in BOOLEAN /\ select_for_print \in BOOLEAN
  /\ misled \in BOOLEAN /\ overlapped \in BOOLEAN
  /\ taps \in 0..MaxTaps

Types ==
  FileTypes /\ ViewTypes /\ WireTypes /\ SpoolTypes /\ StackTypes /\ FlagTypes

LEMMA BoundsAreNat == {MaxEvents, MaxTaps, MaxUnderWay} \subseteq Nat
BY PrintAssumption DEF PrintAssumption

LEMMA FilesFrame ==
  ASSUME FileTypes, UNCHANGED <<disk, scanned, tree, metadata, events, breaks>>
  PROVE  FileTypes'
BY DEF FileTypes

LEMMA HappensCounts ==
  ASSUME FileTypes, Happens
  PROVE  /\ events' = events + 1 /\ events' \in 1..(MaxEvents + 1)
         /\ events' \in Version
BY BoundsAreNat DEF FileTypes, Happens, Version

LEMMA WriteFileFileTypes ==
  ASSUME NEW f \in Files, FileTypes, WriteFile(f)
  PROVE  FileTypes'
<1>1. /\ events' \in 1..(MaxEvents + 1) /\ events + 1 \in Version
  BY HappensCounts DEF WriteFile
<1>2. disk' = [disk EXCEPT ![f] = events + 1] BY DEF WriteFile
<1>3. disk' \in [Files -> Version] BY <1>1, <1>2 DEF FileTypes
<1>4. scanned' \subseteq Files BY DEF FileTypes, WriteFile
<1> QED BY <1>1, <1>3, <1>4 DEF FileTypes, WriteFile, list, choice

LEMMA DeleteFileFileTypes ==
  ASSUME NEW f \in Files, FileTypes, DeleteFile(f)
  PROVE  FileTypes'
<1>1. events' \in 1..(MaxEvents + 1) BY HappensCounts DEF DeleteFile
<1>2. 0 \in Version BY BoundsAreNat DEF Version
<1>3. disk' = [disk EXCEPT ![f] = 0] BY DEF DeleteFile
<1>4. disk' \in [Files -> Version] BY <1>2, <1>3 DEF FileTypes
<1>5. scanned' \subseteq Files BY DEF FileTypes, DeleteFile
<1> QED BY <1>1, <1>4, <1>5 DEF FileTypes, DeleteFile, list, choice

LEMMA ShowsFileTypes ==
  ASSUME FileTypes, UNCHANGED <<disk, scanned, events, breaks>>,
         NEW t \in [Files -> Version], NEW data \in [Files -> Version],
         tree' = t,
         NEW selected, NEW gone, NEW come, Shows(t, selected, data, gone, come)
  PROVE  FileTypes'
BY DEF FileTypes, Shows

LEMMA NothingKnown == [f \in Files |-> 0] \in [Files -> Version]
BY BoundsAreNat DEF Version

LEMMA ListingIs ==
  ASSUME WireTypes, NEW r \in DOMAIN pending, r.kind = "listing"
  PROVE  r.disk \in [Files -> Version] /\ r = Listing(r.disk)
BY DEF WireTypes, Request, Listing

LEMMA GotFileTypes ==
  ASSUME NEW f \in Files, FileTypes, Got(f)
  PROVE  metadata' \in [Files -> Version]
BY DEF FileTypes, Got

LEMMA FileTypesKept ==
  ASSUME FileTypes, WireTypes, Next
  PROVE  FileTypes'
<1> USE DEF printer, list, choice, refresh, spools, prompt, stack, counts,
        history, Untapped
<1>1. ASSUME NEW f \in Files, WriteFile(f) PROVE FileTypes'
  BY <1>1, WriteFileFileTypes
<1>2. ASSUME NEW f \in Files, DeleteFile(f) PROVE FileTypes'
  BY <1>2, DeleteFileFileTypes
<1>3. CASE PrintChanges BY <1>3, HappensCounts DEF PrintChanges, FileTypes
<1>4. ASSUME NEW s \in Spools \cup {None}, SpoolChanges(s) PROVE FileTypes'
  BY <1>4, HappensCounts DEF SpoolChanges, FileTypes
<1>5. CASE OnClose
  <2>1. breaks' \in 0..MaxEvents BY <1>5, BoundsAreNat DEF OnClose, FileTypes
  <2> QED BY <1>5, <2>1 DEF OnClose, FileTypes
<1>6. ASSUME NEW r \in DOMAIN pending, r.kind = "listing",
            FileList(r.disk)
      PROVE  FileTypes'
  <2>1. r.disk \in [Files -> Version] BY <1>6, ListingIs
  <2>2. tree' = r.disk /\ Shows(r.disk, None, [f \in Files |-> 0],
                                {Listing(r.disk)}, Again)
    BY <1>6, FileListDoes DEF WireTypes
  <2>3. UNCHANGED <<disk, scanned, events, breaks>> BY <1>6 DEF FileList
  <2> QED BY <2>1, <2>2, <2>3, NothingKnown, ShowsFileTypes
<1>7. ASSUME NEW f \in Files, GotMetadata(f) PROVE FileTypes'
  <2>1. metadata' \in [Files -> Version]
    BY <1>7, GotFileTypes DEF GotMetadata, FileTypes
  <2> QED BY <1>7, <2>1 DEF GotMetadata, FileTypes
<1>8. ASSUME NEW f \in Files, GotMetascan(f) PROVE FileTypes'
  <2>1. metadata' \in [Files -> Version]
    BY <1>8, GotFileTypes DEF GotMetascan, FileTypes
  <2>2. scanned' \subseteq Files BY <1>8 DEF GotMetascan, FileTypes
  <2> QED BY <1>8, <2>1, <2>2 DEF GotMetascan, FileTypes
<1>9. CASE OpenFiles
  <2>1. metadata' = metadata BY <1>9, OpenFilesDoes DEF Shows, WireTypes
  <2> QED BY <1>9, <2>1, FilesFrame DEF OpenFiles
<1>10. CASE SortTap
  <2>1. metadata' = metadata BY <1>10, SortTapDoes DEF Shows, WireTypes
  <2> QED BY <1>10, <2>1, FilesFrame DEF SortTap
<1>11. ASSUME NEW f \in Files, TapFile(f) PROVE FileTypes'
  <2>1. metadata' = metadata BY <1>11, TapFileDoes DEF Shows, WireTypes
  <2> QED BY <1>11, <2>1, FilesFrame DEF TapFile
<1>12. ASSUME NEW dir \in {Root} \cup {Folder[f] : f \in Files}, TapFolder(dir)
      PROVE  FileTypes'
  <2>1. metadata' = metadata BY <1>12, TapFolderDoes DEF Shows, WireTypes
  <2> QED BY <1>12, <2>1, FilesFrame DEF TapFolder
<1>13. CASE Status \/ OnOpen \/ ObjectList \/ Snapshot \/ ServerInfo
  BY <1>13, FilesFrame DEF Status, OnOpen, ObjectList, Snapshot, ServerInfo
<1>14. CASE SpoolId \/ ListRead \/ Reload \/ Back \/ BackStatus
  BY <1>14, FilesFrame DEF SpoolId, ListRead, Reload, Back, BackStatus
<1>15. CASE TapPrint \/ TapYes \/ TapNo \/ OpenSpools \/ ReloadSpools
  BY <1>15, FilesFrame DEF TapPrint, TapYes, TapNo, OpenSpools, ReloadSpools
<1>16. CASE BackSpools
  BY <1>16, FilesFrame DEF BackSpools
<1>17. ASSUME NEW f \in Files, Started(f)
      PROVE  FileTypes'
  BY <1>17, FilesFrame DEF Started
<1>18. ASSUME NEW s \in Spools, Posted(s) \/ TapSpool(s)
      PROVE  FileTypes'
  BY <1>18, FilesFrame DEF Posted, TapSpool
<1> QED BY <1>1, <1>2, <1>3, <1>4, <1>5, <1>6, <1>7, <1>8, <1>9, <1>10, <1>11,
           <1>12, <1>13, <1>14, <1>15, <1>16, <1>17, <1>18 DEF Next

LEMMA ViewFrame ==
  ASSUME ViewTypes, UNCHANGED <<cur_dir, cur_file, details>>
  PROVE  ViewTypes'
BY DEF ViewTypes

LEMMA ZeroIsVersion == 0 \in Version
BY BoundsAreNat DEF Version

LEMMA SelectsViewTypes ==
  ASSUME NEW f, NEW t, NEW data \in [Files -> Version], NEW asks,
         Selects(f, t, data, asks)
  PROVE  /\ cur_file' \in Files \cup {None}
         /\ details' \in [file : Files \cup {None}, version : Version,
                          state : {"loading", "shown", "missing"}]
<1>1. f \in Files /\ cur_file' = f BY DEF Selects
<1>2. data[f] \in Version BY <1>1
<1>3. CASE details' = [file |-> f, version |-> data[f], state |-> "shown"]
  BY <1>1, <1>2, <1>3
<1>4. CASE details' = [file |-> f, version |-> 0, state |-> "loading"]
  BY <1>1, <1>4, ZeroIsVersion
<1> QED BY <1>3, <1>4 DEF Selects

LEMMA ShowsViewTypes ==
  ASSUME ViewTypes, NEW t, NEW data \in [Files -> Version], NEW gone, NEW come,
         NEW selected \in Files \cup {None}, Shows(t, selected, data, gone, come),
         cur_dir' \in {Root} \cup {Folder[f] : f \in Files}
  PROVE  ViewTypes'
<1>1. CASE \E f, asks : Selects(f, t, data, asks)
  BY <1>1, SelectsViewTypes DEF ViewTypes
<1>2. CASE Keeps(selected) BY <1>2 DEF Keeps, ViewTypes
<1> QED BY <1>1, <1>2 DEF Shows

LEMMA GotViewTypes ==
  ASSUME NEW f \in Files, FileTypes, ViewTypes, Got(f)
  PROVE  details' \in [file : Files \cup {None}, version : Version,
                       state : {"loading", "shown", "missing"}]
<1>1. disk[f] \in Version BY DEF FileTypes
<1>2. CASE UNCHANGED details BY <1>2 DEF ViewTypes
<1>3. CASE details' = [file |-> f, version |-> disk[f], state |-> "shown"]
  BY <1>1, <1>3
<1> QED BY <1>2, <1>3 DEF Got

LEMMA ViewTypesKept ==
  ASSUME FileTypes, ViewTypes, WireTypes, Next
  PROVE  ViewTypes'
<1> USE DEF printer, list, choice, refresh, spools, prompt, stack, counts,
        history, Untapped
<1>1. ASSUME NEW r \in DOMAIN pending, r.kind = "listing",
            FileList(r.disk)
      PROVE  ViewTypes'
  <2>1. Shows(r.disk, None, [f \in Files |-> 0], {Listing(r.disk)}, Again)
    BY <1>1, FileListDoes DEF WireTypes
  <2>2. cur_dir' \in {Root} \cup {Folder[f] : f \in Files}
    BY <1>1 DEF FileList, ViewTypes
  <2> QED BY <2>1, <2>2, NothingKnown, ShowsViewTypes
<1>2. ASSUME NEW f \in Files, GotMetadata(f) PROVE ViewTypes'
  <2>1. CASE f \in scanned BY <1>2, <2>1, GotViewTypes DEF GotMetadata, ViewTypes
  <2>2. CASE f \notin scanned BY <1>2, <2>2, ViewFrame DEF GotMetadata
  <2> QED BY <2>1, <2>2
<1>3. ASSUME NEW f \in Files, GotMetascan(f) PROVE ViewTypes'
  <2>1. CASE Got(f) BY <1>3, <2>1, GotViewTypes DEF GotMetascan, ViewTypes
  <2>2. CASE UNCHANGED details BY <1>3, <2>2, ViewFrame DEF GotMetascan
  <2>3. CASE details' = [details EXCEPT !.state = "missing", !.version = 0]
    <3>1. details' \in [file : Files \cup {None}, version : Version,
                        state : {"loading", "shown", "missing"}]
      BY <2>3, ZeroIsVersion DEF ViewTypes
    <3> QED BY <1>3, <3>1 DEF GotMetascan, ViewTypes
  <2> QED BY <1>3, <2>1, <2>2, <2>3 DEF GotMetascan
<1>4. CASE OpenFiles
  <2>1. Shows(tree, cur_file, metadata, {}, {Ask("list")})
    BY <1>4, OpenFilesDoes DEF WireTypes
  <2>2. cur_dir' \in {Root} \cup {Folder[g] : g \in Files}
    BY <1>4 DEF OpenFiles, ViewTypes
  <2>3. cur_file \in Files \cup {None} /\ metadata \in [Files -> Version]
    BY DEF ViewTypes, FileTypes
  <2> QED BY <2>1, <2>2, <2>3, ShowsViewTypes
<1>5. CASE SortTap
  <2>1. Shows(tree, cur_file, metadata, {}, {})
    BY <1>5, SortTapDoes DEF WireTypes
  <2>2. cur_dir' \in {Root} \cup {Folder[g] : g \in Files}
    BY <1>5 DEF SortTap, ViewTypes
  <2>3. cur_file \in Files \cup {None} /\ metadata \in [Files -> Version]
    BY DEF ViewTypes, FileTypes
  <2> QED BY <2>1, <2>2, <2>3, ShowsViewTypes
<1>6. ASSUME NEW f \in Files, TapFile(f) PROVE ViewTypes'
  <2>1. Shows(tree, cur_file, metadata, {}, {})
    BY <1>6, TapFileDoes DEF WireTypes
  <2>2. cur_dir' \in {Root} \cup {Folder[g] : g \in Files}
    BY <1>6 DEF TapFile, ViewTypes
  <2>3. cur_file \in Files \cup {None} /\ metadata \in [Files -> Version]
    BY DEF ViewTypes, FileTypes
  <2> QED BY <2>1, <2>2, <2>3, ShowsViewTypes
<1>7. ASSUME NEW dir \in {Root} \cup {Folder[f] : f \in Files}, TapFolder(dir)
      PROVE  ViewTypes'
  <2>1. Shows(tree, cur_file, metadata, {}, {})
    BY <1>7, TapFolderDoes DEF WireTypes
  <2>2. cur_dir' \in {Root} \cup {Folder[g] : g \in Files}
    BY <1>7 DEF TapFolder
  <2>3. cur_file \in Files \cup {None} /\ metadata \in [Files -> Version]
    BY DEF ViewTypes, FileTypes
  <2> QED BY <2>1, <2>2, <2>3, ShowsViewTypes
<1>8. CASE PrintChanges \/ Status \/ OnOpen \/ OnClose \/ ObjectList
  BY <1>8, ViewFrame DEF PrintChanges, Status, OnOpen, OnClose, ObjectList
<1>9. CASE Snapshot \/ ServerInfo \/ SpoolId \/ ListRead \/ Reload
  BY <1>9, ViewFrame DEF Snapshot, ServerInfo, SpoolId, ListRead, Reload
<1>10. CASE Back \/ BackStatus \/ TapPrint \/ TapYes \/ TapNo
  BY <1>10, ViewFrame DEF Back, BackStatus, TapPrint, TapYes, TapNo
<1>11. CASE OpenSpools \/ ReloadSpools \/ BackSpools
  BY <1>11, ViewFrame DEF OpenSpools, ReloadSpools, BackSpools
<1>12. ASSUME NEW f \in Files, WriteFile(f) \/ DeleteFile(f) \/ Started(f)
      PROVE  ViewTypes'
  BY <1>12, ViewFrame DEF WriteFile, DeleteFile, Started
<1>13. ASSUME NEW s \in Spools \cup {None}, SpoolChanges(s)
      PROVE  ViewTypes'
  BY <1>13, ViewFrame DEF SpoolChanges
<1>14. ASSUME NEW s \in Spools, Posted(s) \/ TapSpool(s)
      PROVE  ViewTypes'
  BY <1>14, ViewFrame DEF Posted, TapSpool
<1> QED BY <1>1, <1>2, <1>3, <1>4, <1>5, <1>6, <1>7, <1>8, <1>9, <1>10, <1>11,
           <1>12, <1>13, <1>14 DEF Next

LEMMA WireFrame ==
  ASSUME WireTypes, UNCHANGED <<pending, connected>>
  PROVE  WireTypes'
BY DEF WireTypes, Wire

LEMMA WireMoves ==
  ASSUME WireTypes, connected, UNCHANGED connected, NEW gone, NEW come,
         Goes(gone, come), come \subseteq Request
  PROVE  WireTypes'
BY DEF WireTypes, Wire, Goes, Moves

LEMMA RequestsAre ==
  /\ \A k \in {"objects", "subscribe", "info", "list", "spool"} : Ask(k) \in Request
  /\ \A d \in [Files -> Version] : Listing(d) \in Request
  /\ \A k \in {"metadata", "metascan", "start"}, f \in Files :
       About(k, f) \in Request
  /\ \A s \in Spools : Post(s) \in Request
<1>1. \A k \in {"objects", "subscribe", "info", "list", "spool"} :
        Ask(k) \in Request
  BY DEF Ask, Request
<1>2. \A d \in [Files -> Version] : Listing(d) \in Request
  BY DEF Listing, Request
<1>3. \A k \in {"metadata", "metascan", "start"}, f \in Files :
        About(k, f) \in Request
  BY DEF About, Request
<1>4. \A s \in Spools : Post(s) \in Request
  BY DEF Post, Request
<1> QED BY <1>1, <1>2, <1>3, <1>4

LEMMA ShowsWireTypes ==
  ASSUME WireTypes, connected, UNCHANGED connected, NEW t, NEW selected, NEW data,
         NEW gone, NEW come, come \subseteq Request,
         Shows(t, selected, data, gone, come)
  PROVE  WireTypes'
<1>1. CASE \E f, asks :
             Goes(gone, come \cup asks) /\ Selects(f, t, data, asks)
  <2>1. PICK f, asks :
               Goes(gone, come \cup asks) /\ Selects(f, t, data, asks)
    BY <1>1
  <2>2. asks \subseteq Request BY <2>1, RequestsAre DEF Selects
  <2>3. come \cup asks \subseteq Request BY <2>2
  <2> QED BY <2>1, <2>3, WireMoves
<1>2. CASE Goes(gone, come) BY <1>2, WireMoves
<1> QED BY <1>1, <1>2 DEF Shows

LEMMA FilelistChangedWire ==
  ASSUME WireTypes, FilelistChanged, UNCHANGED connected
  PROVE  WireTypes'
<1>1. CASE UNCHANGED pending BY <1>1, WireFrame
<1>2. CASE connected /\ Goes({}, {Ask("list")})
  <2>1. {Ask("list")} \subseteq Request BY RequestsAre
  <2> QED BY <1>2, <2>1, WireMoves
<1> QED BY <1>1, <1>2, FilelistChangedDoes DEF WireTypes

LEMMA StartAsksAre ==
  ASSUME NEW f \in Files \cup {None}
  PROVE  StartAsks(f) \subseteq Request
BY RequestsAre DEF StartAsks

LEMMA WireTypesKept ==
  ASSUME FileTypes, ViewTypes, SpoolTypes, WireTypes, Next
  PROVE  WireTypes'
<1> USE DEF printer, list, choice, refresh, spools, prompt, stack, counts,
        history, Untapped
<1>1. ASSUME NEW f \in Files, WriteFile(f) PROVE WireTypes'
  BY <1>1, FilelistChangedWire DEF WriteFile
<1>2. ASSUME NEW f \in Files, DeleteFile(f) PROVE WireTypes'
  BY <1>2, FilelistChangedWire DEF DeleteFile
<1>3. CASE OnOpen
  <2>1. Ask("objects") \in Request BY RequestsAre
  <2> QED BY <1>3, <2>1, OnOpenGoes DEF WireTypes, Wire
<1>4. CASE OnClose BY <1>4, OnCloseGoes DEF WireTypes, Wire
<1>5. CASE ObjectList
  <2>1. {Ask("list"), Ask("subscribe"), Ask("info")} \subseteq Request
    BY RequestsAre
  <2> QED BY <1>5, <2>1, ObjectListGoes, WireMoves DEF ObjectList, WireTypes
<1>6. CASE Snapshot
  <2>1. connected /\ Goes({Ask("subscribe")}, {})
    BY <1>6, SnapshotGoes DEF WireTypes
  <2>2. {} \subseteq Request OBVIOUS
  <2> QED BY <1>6, <2>1, <2>2, WireMoves DEF Snapshot
<1>7. CASE ServerInfo
  <2>1. SpoolAsks \subseteq Request BY RequestsAre DEF SpoolAsks
  <2> QED BY <1>7, <2>1, ServerInfoGoes, WireMoves DEF ServerInfo, WireTypes
<1>8. CASE SpoolId
  <2>1. connected /\ Goes({Ask("spool")}, {}) BY <1>8, SpoolIdGoes DEF WireTypes
  <2>2. {} \subseteq Request OBVIOUS
  <2> QED BY <1>8, <2>1, <2>2, WireMoves DEF SpoolId
<1>9. CASE ListRead
  <2>1. {Listing(disk)} \subseteq Request BY RequestsAre DEF FileTypes
  <2> QED BY <1>9, <2>1, ListReadGoes, WireMoves DEF ListRead, WireTypes
<1>10. ASSUME NEW r \in DOMAIN pending, r.kind = "listing",
            FileList(r.disk)
      PROVE  WireTypes'
  <2>1. /\ connected
        /\ Shows(r.disk, None, [f \in Files |-> 0], {Listing(r.disk)}, Again)
    BY <1>10, FileListDoes DEF WireTypes
  <2>2. Again \subseteq Request BY RequestsAre DEF Again
  <2> QED BY <1>10, <2>1, <2>2, ShowsWireTypes DEF FileList
<1>11. ASSUME NEW f \in Files, GotMetadata(f) PROVE WireTypes'
  <2>1. Rescan(f) \subseteq Request BY RequestsAre DEF Rescan
  <2> QED BY <1>11, <2>1, GotMetadataGoes, WireMoves DEF GotMetadata, WireTypes
<1>12. ASSUME NEW f \in Files, GotMetascan(f) PROVE WireTypes'
  <2>1. connected /\ Goes({About("metascan", f)}, {})
    BY <1>12, GotMetascanGoes DEF WireTypes
  <2>2. {} \subseteq Request OBVIOUS
  <2> QED BY <1>12, <2>1, <2>2, WireMoves DEF GotMetascan
<1>13. ASSUME NEW f \in Files, Started(f) PROVE WireTypes'
  <2>1. connected /\ Goes({About("start", f)}, {})
    BY <1>13, StartedGoes DEF WireTypes
  <2>2. {} \subseteq Request OBVIOUS
  <2> QED BY <1>13, <2>1, <2>2, WireMoves DEF Started
<1>14. ASSUME NEW s \in Spools, Posted(s) PROVE WireTypes'
  <2>1. connected /\ Goes({Post(s)}, {}) BY <1>14, PostedGoes DEF WireTypes
  <2>2. {} \subseteq Request OBVIOUS
  <2> QED BY <1>14, <2>1, <2>2, WireMoves DEF Posted
<1>15. CASE OpenFiles
  <2>1. Shows(tree, cur_file, metadata, {}, {Ask("list")})
    BY <1>15, OpenFilesDoes DEF WireTypes
  <2>2. {Ask("list")} \subseteq Request BY RequestsAre
  <2> QED BY <1>15, <2>1, <2>2, ShowsWireTypes DEF OpenFiles, Tap
<1>16. CASE Reload
  <2>1. {Ask("list")} \subseteq Request BY RequestsAre
  <2> QED BY <1>16, <2>1, ReloadGoes, WireMoves DEF Reload, WireTypes
<1>17. CASE SortTap
  <2>1. Shows(tree, cur_file, metadata, {}, {})
    BY <1>17, SortTapDoes DEF WireTypes
  <2>2. {} \subseteq Request BY RequestsAre
  <2> QED BY <1>17, <2>1, <2>2, ShowsWireTypes DEF SortTap, Tap
<1>18. ASSUME NEW f \in Files, TapFile(f) PROVE WireTypes'
  <2>1. Shows(tree, cur_file, metadata, {}, {})
    BY <1>18, TapFileDoes DEF WireTypes
  <2>2. {} \subseteq Request BY RequestsAre
  <2> QED BY <1>18, <2>1, <2>2, ShowsWireTypes DEF TapFile, Tap
<1>19. ASSUME NEW dir \in {Root} \cup {Folder[f] : f \in Files}, TapFolder(dir)
      PROVE  WireTypes'
  <2>1. Shows(tree, cur_file, metadata, {}, {})
    BY <1>19, TapFolderDoes DEF WireTypes
  <2>2. {} \subseteq Request BY RequestsAre
  <2> QED BY <1>19, <2>1, <2>2, ShowsWireTypes DEF TapFolder, Tap
<1>20. CASE TapPrint
  <2>1. StartAsks(cur_file) \subseteq Request BY StartAsksAre DEF ViewTypes
  <2>2. CASE UNCHANGED pending BY <1>20, <2>2, WireFrame DEF TapPrint
  <2>3. CASE connected /\ Goes({}, StartAsks(cur_file))
    BY <1>20, <2>1, <2>3, WireMoves DEF TapPrint
  <2> QED BY <1>20, <2>2, <2>3, TapPrintGoes DEF WireTypes
<1>21. CASE TapYes
  <2>1. StartAsks(pending_print_path) \subseteq Request
    BY StartAsksAre DEF SpoolTypes
  <2> QED BY <1>21, <2>1, TapYesGoes, WireMoves DEF TapYes, WireTypes
<1>22. CASE ReloadSpools
  <2>1. {Ask("spool")} \subseteq Request BY RequestsAre
  <2> QED BY <1>22, <2>1, ReloadSpoolsGoes, WireMoves DEF ReloadSpools, WireTypes
<1>23. ASSUME NEW s \in Spools, TapSpool(s) PROVE WireTypes'
  <2>1. {Post(s)} \subseteq Request BY RequestsAre
  <2> QED BY <1>23, <2>1, TapSpoolGoes, WireMoves DEF TapSpool, WireTypes
<1>24. CASE PrintChanges \/ Status \/ Back \/ BackStatus \/ TapNo
  BY <1>24, WireFrame DEF PrintChanges, Status, Back, BackStatus, TapNo
<1>25. CASE OpenSpools \/ BackSpools
  BY <1>25, WireFrame DEF OpenSpools, BackSpools
<1>26. ASSUME NEW s \in Spools \cup {None}, SpoolChanges(s)
      PROVE  WireTypes'
  BY <1>26, WireFrame DEF SpoolChanges
<1> QED BY <1>1, <1>2, <1>3, <1>4, <1>5, <1>6, <1>7, <1>8, <1>9, <1>10, <1>11,
           <1>12, <1>13, <1>14, <1>15, <1>16, <1>17, <1>18, <1>19, <1>20,
           <1>21, <1>22, <1>23, <1>24, <1>25, <1>26 DEF Next

LEMMA SpoolFrame ==
  ASSUME SpoolTypes,
         UNCHANGED <<spool, active_id, listed, asked, pending_print_path, tapped>>
  PROVE  SpoolTypes'
BY DEF SpoolTypes

LEMMA HearTypes ==
  ASSUME SpoolTypes, NEW s \in Spools \cup {None}, Hear(s)
  PROVE  active_id' \in Spools \cup {None} /\ listed' \in Spools \cup {None}
BY DEF SpoolTypes, Hear

LEMMA SpoolTypesKept ==
  ASSUME SpoolTypes, ViewTypes, Next
  PROVE  SpoolTypes'
<1> USE DEF printer, list, choice, refresh, spools, prompt, stack, counts,
        history, Untapped
<1>1. ASSUME NEW s \in Spools \cup {None}, SpoolChanges(s) PROVE SpoolTypes'
  BY <1>1, HearTypes DEF SpoolChanges, SpoolTypes
<1>2. CASE SpoolId
  <2>1. spool \in Spools \cup {None} BY DEF SpoolTypes
  <2> QED BY <1>2, <2>1, HearTypes DEF SpoolId, SpoolTypes
<1>3. ASSUME NEW s \in Spools, Posted(s) PROVE SpoolTypes'
  <2>1. CASE Hear(s) /\ spool' = s BY <1>3, <2>1, HearTypes DEF Posted, SpoolTypes
  <2>2. CASE UNCHANGED <<spool, active_id, listed>>
    BY <1>3, <2>2, SpoolFrame DEF Posted
  <2> QED BY <1>3, <2>1, <2>2 DEF Posted
<1>4. CASE TapPrint
  <2>1. /\ tapped' \in Files \cup {None}
        /\ pending_print_path' \in Files \cup {None}
        /\ asked' \in Spools \cup {None}
    BY <1>4 DEF TapPrint, ShowFilamentDialog, StartPendingPrint, ViewTypes,
             SpoolTypes
  <2> QED BY <1>4, <2>1 DEF TapPrint, SpoolTypes
<1>5. CASE TapYes BY <1>5 DEF TapYes, StartPendingPrint, SpoolTypes
<1>6. ASSUME NEW s \in Spools, TapSpool(s) PROVE SpoolTypes'
  <2>1. active_id' \in Spools \cup {None} /\ asked' \in Spools \cup {None}
    BY <1>6 DEF TapSpool, ShowFilamentDialog, SpoolTypes
  <2> QED BY <1>6, <2>1 DEF TapSpool, SpoolTypes
<1>7. CASE PrintChanges \/ Status \/ OnOpen \/ OnClose \/ ObjectList
  BY <1>7, SpoolFrame DEF PrintChanges, Status, OnOpen, OnClose, ObjectList
<1>8. CASE Snapshot \/ ServerInfo \/ ListRead \/ OpenFiles \/ Reload
  BY <1>8, SpoolFrame DEF Snapshot, ServerInfo, ListRead, OpenFiles, Reload
<1>9. CASE SortTap \/ Back \/ BackStatus \/ TapNo \/ OpenSpools
  BY <1>9, SpoolFrame DEF SortTap, Back, BackStatus, TapNo, OpenSpools
<1>10. CASE ReloadSpools \/ BackSpools
  BY <1>10, SpoolFrame DEF ReloadSpools, BackSpools
<1>11. ASSUME NEW f \in Files,
            \/ WriteFile(f) \/ DeleteFile(f) \/ GotMetadata(f)
            \/ GotMetascan(f) \/ Started(f) \/ TapFile(f)
      PROVE  SpoolTypes'
  BY <1>11, SpoolFrame DEF WriteFile, DeleteFile, GotMetadata, GotMetascan,
     Started, TapFile
<1>12. ASSUME NEW dir \in {Root} \cup {Folder[f] : f \in Files},
            TapFolder(dir)
      PROVE  SpoolTypes'
  BY <1>12, SpoolFrame DEF TapFolder
<1>13. ASSUME NEW r \in DOMAIN pending, r.kind = "listing", FileList(r.disk)
      PROVE  SpoolTypes'
  BY <1>13, SpoolFrame DEF FileList
<1> QED BY <1>1, <1>2, <1>3, <1>4, <1>5, <1>6, <1>7, <1>8, <1>9, <1>10, <1>11,
           <1>12, <1>13 DEF Next

LEMMA StackFrame ==
  ASSUME StackTypes, UNCHANGED stack
  PROVE  StackTypes'
BY DEF StackTypes, stack

LEMMA LowerIs ==
  ASSUME StackTypes, NEW ss, Lower(ss)
  PROVE  /\ StackTypes' /\ open' = open \ ss
         /\ \A s, t \in open' : <<s, t>> \in over' <=> <<s, t>> \in over
<1>1. open' = open \ ss /\ over' = {p \in over : p[1] \notin ss /\ p[2] \notin ss}
  BY DEF Lower
<1>2. \A s, t \in open' : <<s, t>> \in over' <=> <<s, t>> \in over
  BY <1>1
<1>3. over' \subseteq open' \X open' BY <1>1 DEF StackTypes
<1> QED BY <1>1, <1>2, <1>3 DEF StackTypes

LEMMA RaiseIs ==
  ASSUME StackTypes, NEW s \in Screens, NEW ss, Raise(s, ss)
  PROVE  /\ StackTypes' /\ open' = (open \ ss) \cup {s}
         /\ \A t \in open' \ {s} : <<s, t>> \in over' /\ <<t, s>> \notin over'
         /\ \A t, u \in open' \ {s} : <<t, u>> \in over' <=> <<t, u>> \in over
<1> DEFINE kept == open \ (ss \cup {s})
<1>1. /\ open' = kept \cup {s}
      /\ over' = {p \in over : p[1] \in kept /\ p[2] \in kept} \cup ({s} \X kept)
  BY DEF Raise
<1>2. s \notin kept /\ kept \subseteq open /\ kept \subseteq Screens
  BY DEF StackTypes
<1>3. open' = (open \ ss) \cup {s} BY <1>1
<1> HIDE DEF kept
<1>4. \A t \in kept : <<s, t>> \in over' BY <1>1
<1>5. \A t, u : <<t, u>> \in over' /\ <<t, u>> \notin over => t = s /\ u \in kept
  BY <1>1
<1>6. \A t, u : <<t, u>> \in over' => u \in kept
  BY <1>1
<1>7. \A t, u \in kept : <<t, u>> \in over' <=> <<t, u>> \in over
  BY <1>1, <1>2
<1>8. over' \subseteq open' \X open'
  <2>1. {p \in over : p[1] \in kept /\ p[2] \in kept} \subseteq kept \X kept
    BY DEF StackTypes
  <2>2. /\ kept \X kept \subseteq (kept \cup {s}) \X (kept \cup {s})
        /\ {s} \X kept \subseteq (kept \cup {s}) \X (kept \cup {s})
    OBVIOUS
  <2> QED BY <1>1, <2>1, <2>2, Zenon
<1>9. \A t, u \in open' : <<t, u>> \in over' <=> t # u /\ <<u, t>> \notin over'
  <2>1. \A t, u \in kept : <<t, u>> \in over' <=> t # u /\ <<u, t>> \notin over'
    BY <1>2, <1>7 DEF StackTypes
  <2>2. \A t \in kept : <<s, t>> \in over' /\ <<t, s>> \notin over' /\ t # s
    BY <1>2, <1>4, <1>6
  <2>3. <<s, s>> \notin over' BY <1>2, <1>6
  <2> QED BY <1>1, <2>1, <2>2, <2>3
<1>10. open' \subseteq Screens BY <1>1, <1>2
<1>11. open' \ {s} = kept BY <1>1, <1>2
<1>12. \A t \in kept : <<t, s>> \notin over' BY <1>2, <1>6
<1> QED BY <1>3, <1>4, <1>7, <1>8, <1>9, <1>10, <1>11, <1>12 DEF StackTypes

LEMMA ScreensAre ==
  /\ "files" \in Screens /\ "dialog" \in Screens
  /\ "spools" \in Screens /\ "status" \in Screens
BY DEF Screens

LEMMA StackTypesKept ==
  ASSUME StackTypes, Next
  PROVE  StackTypes'
<1> USE DEF printer, list, choice, refresh, spools, prompt, stack, counts,
        history, Untapped
<1>1. CASE Status BY <1>1, LowerIs, RaiseIs, StackFrame, ScreensAre DEF Status
<1>2. CASE OpenFiles BY <1>2, RaiseIs, ScreensAre DEF OpenFiles
<1>3. CASE Back BY <1>3, LowerIs DEF Back
<1>4. CASE BackStatus BY <1>4, LowerIs DEF BackStatus
<1>5. CASE TapPrint
  BY <1>5, LowerIs, RaiseIs, ScreensAre DEF TapPrint, StartPendingPrint,
     ShowFilamentDialog
<1>6. CASE TapYes
  BY <1>6, LowerIs, RaiseIs, ScreensAre DEF TapYes, StartPendingPrint
<1>7. CASE TapNo BY <1>7, RaiseIs, ScreensAre DEF TapNo
<1>8. CASE OpenSpools BY <1>8, RaiseIs, ScreensAre DEF OpenSpools
<1>9. ASSUME NEW s \in Spools, TapSpool(s) PROVE StackTypes'
  BY <1>9, RaiseIs, StackFrame, ScreensAre DEF TapSpool, ShowFilamentDialog
<1>10. CASE BackSpools BY <1>10, LowerIs DEF BackSpools
<1>11. CASE PrintChanges \/ OnOpen \/ OnClose \/ ObjectList \/ Snapshot
  BY <1>11, StackFrame DEF PrintChanges, OnOpen, OnClose, ObjectList, Snapshot
<1>12. CASE ServerInfo \/ SpoolId \/ ListRead \/ Reload \/ SortTap
  BY <1>12, StackFrame DEF ServerInfo, SpoolId, ListRead, Reload, SortTap
<1>13. CASE ReloadSpools
  BY <1>13, StackFrame DEF ReloadSpools
<1>14. ASSUME NEW f \in Files,
            \/ WriteFile(f) \/ DeleteFile(f) \/ GotMetadata(f)
            \/ GotMetascan(f) \/ Started(f) \/ TapFile(f)
      PROVE  StackTypes'
  BY <1>14, StackFrame DEF WriteFile, DeleteFile, GotMetadata, GotMetascan,
     Started, TapFile
<1>15. ASSUME NEW s \in Spools \cup {None}, SpoolChanges(s)
      PROVE  StackTypes'
  BY <1>15, StackFrame DEF SpoolChanges
<1>16. ASSUME NEW s \in Spools, Posted(s)
      PROVE  StackTypes'
  BY <1>16, StackFrame DEF Posted
<1>17. ASSUME NEW dir \in {Root} \cup {Folder[f] : f \in Files},
            TapFolder(dir)
      PROVE  StackTypes'
  BY <1>17, StackFrame DEF TapFolder
<1>18. ASSUME NEW r \in DOMAIN pending, r.kind = "listing", FileList(r.disk)
      PROVE  StackTypes'
  BY <1>18, StackFrame DEF FileList
<1> QED BY <1>1, <1>2, <1>3, <1>4, <1>5, <1>6, <1>7, <1>8, <1>9, <1>10, <1>11,
           <1>12, <1>13, <1>14, <1>15, <1>16, <1>17, <1>18 DEF Next

LEMMA FlagFrame ==
  ASSUME FlagTypes, UNCHANGED <<known, printing, connected, newestFirst,
                               refresh, spoolman_enabled, select_for_print,
                               misled, overlapped, taps>>
  PROVE  FlagTypes'
BY DEF FlagTypes, refresh

LEMMA TapCounts ==
  ASSUME FlagTypes, Tap
  PROVE  taps' \in 0..MaxTaps
BY BoundsAreNat DEF FlagTypes, Tap

LEMMA FilelistChangedFlags ==
  ASSUME FlagTypes, FilelistChanged
  PROVE  /\ refreshing_files' \in BOOLEAN /\ refresh_pending' \in BOOLEAN
         /\ overlapped' \in BOOLEAN
BY DEF FlagTypes, FilelistChanged, Subscribing, Refreshing, refresh

LEMMA FlagTypesKept ==
  ASSUME FlagTypes, Next
  PROVE  FlagTypes'
<1> USE DEF printer, list, choice, refresh, spools, prompt, stack, counts,
        history, Untapped
<1>1. ASSUME NEW f \in Files, WriteFile(f) PROVE FlagTypes'
  BY <1>1, FilelistChangedFlags DEF WriteFile, FlagTypes
<1>2. ASSUME NEW f \in Files, DeleteFile(f) PROVE FlagTypes'
  BY <1>2, FilelistChangedFlags DEF DeleteFile, FlagTypes
<1>3. CASE PrintChanges BY <1>3 DEF PrintChanges, FlagTypes
<1>4. CASE Status BY <1>4 DEF Status, Known, FlagTypes
<1>5. ASSUME NEW s \in Spools \cup {None}, SpoolChanges(s) PROVE FlagTypes'
  BY <1>5 DEF SpoolChanges, FlagTypes
<1>6. CASE OnOpen BY <1>6 DEF OnOpen, FlagTypes
<1>7. CASE OnClose BY <1>7 DEF OnClose, FlagTypes
<1>8. CASE ObjectList BY <1>8 DEF ObjectList, Subscribing, Refreshing, FlagTypes
<1>9. CASE Snapshot BY <1>9 DEF Snapshot, Known, FlagTypes
<1>10. CASE ServerInfo BY <1>10 DEF ServerInfo, FlagTypes
<1>11. ASSUME NEW r \in DOMAIN pending, r.kind = "listing",
            FileList(r.disk)
      PROVE  FlagTypes'
  BY <1>11 DEF FileList, Refreshing, FlagTypes
<1>12. ASSUME NEW f \in Files, Started(f) PROVE FlagTypes'
  BY <1>12 DEF Started, FlagTypes
<1>13. ASSUME NEW s \in Spools, Posted(s) PROVE FlagTypes'
  BY <1>13 DEF Posted, FlagTypes
<1>14. CASE OpenFiles
  <2>1. taps' \in 0..MaxTaps BY <1>14, TapCounts DEF OpenFiles
  <2> QED BY <1>14, <2>1 DEF OpenFiles, Subscribing, Refreshing, FlagTypes
<1>15. CASE Reload
  <2>1. taps' \in 0..MaxTaps BY <1>15, TapCounts DEF Reload
  <2> QED BY <1>15, <2>1 DEF Reload, Subscribing, Refreshing, FlagTypes
<1>16. CASE SortTap
  <2>1. taps' \in 0..MaxTaps BY <1>16, TapCounts DEF SortTap
  <2> QED BY <1>16, <2>1 DEF SortTap, FlagTypes
<1>17. ASSUME NEW f \in Files, TapFile(f) PROVE FlagTypes'
  <2>1. taps' \in 0..MaxTaps BY <1>17, TapCounts DEF TapFile
  <2> QED BY <1>17, <2>1 DEF TapFile, FlagTypes
<1>18. ASSUME NEW dir \in {Root} \cup {Folder[f] : f \in Files}, TapFolder(dir)
      PROVE  FlagTypes'
  <2>1. taps' \in 0..MaxTaps BY <1>18, TapCounts DEF TapFolder
  <2> QED BY <1>18, <2>1 DEF TapFolder, FlagTypes
<1>19. CASE Back
  <2>1. taps' \in 0..MaxTaps BY <1>19, TapCounts DEF Back
  <2> QED BY <1>19, <2>1 DEF Back, FlagTypes
<1>20. CASE BackStatus
  <2>1. taps' \in 0..MaxTaps BY <1>20, TapCounts DEF BackStatus
  <2> QED BY <1>20, <2>1 DEF BackStatus, FlagTypes
<1>21. CASE TapPrint
  <2>1. taps' \in 0..MaxTaps BY <1>21, TapCounts DEF TapPrint
  <2> QED BY <1>21, <2>1 DEF TapPrint, ShowFilamentDialog, FlagTypes
<1>22. CASE TapYes
  <2>1. taps' \in 0..MaxTaps BY <1>22, TapCounts DEF TapYes
  <2> QED BY <1>22, <2>1 DEF TapYes, FlagTypes
<1>23. CASE TapNo
  <2>1. taps' \in 0..MaxTaps BY <1>23, TapCounts DEF TapNo
  <2> QED BY <1>23, <2>1 DEF TapNo, FlagTypes
<1>24. CASE OpenSpools
  <2>1. taps' \in 0..MaxTaps BY <1>24, TapCounts DEF OpenSpools
  <2> QED BY <1>24, <2>1 DEF OpenSpools, FlagTypes
<1>25. CASE ReloadSpools
  <2>1. taps' \in 0..MaxTaps BY <1>25, TapCounts DEF ReloadSpools
  <2> QED BY <1>25, <2>1 DEF ReloadSpools, FlagTypes
<1>26. ASSUME NEW s \in Spools, TapSpool(s) PROVE FlagTypes'
  <2>1. taps' \in 0..MaxTaps BY <1>26, TapCounts DEF TapSpool
  <2> QED BY <1>26, <2>1 DEF TapSpool, ShowFilamentDialog, FlagTypes
<1>27. CASE BackSpools
  <2>1. taps' \in 0..MaxTaps BY <1>27, TapCounts DEF BackSpools
  <2> QED BY <1>27, <2>1 DEF BackSpools, FlagTypes
<1>28. CASE SpoolId \/ ListRead
  BY <1>28, FlagFrame DEF SpoolId, ListRead
<1>29. ASSUME NEW f \in Files, GotMetadata(f) \/ GotMetascan(f)
      PROVE  FlagTypes'
  BY <1>29, FlagFrame DEF GotMetadata, GotMetascan
<1> QED BY <1>1, <1>2, <1>3, <1>4, <1>5, <1>6, <1>7, <1>8, <1>9, <1>10, <1>11,
           <1>12, <1>13, <1>14, <1>15, <1>16, <1>17, <1>18, <1>19, <1>20,
           <1>21, <1>22, <1>23, <1>24, <1>25, <1>26, <1>27, <1>28, <1>29 DEF
           Next

LEMMA TypesKept ==
  ASSUME Types, Next
  PROVE  Types'
BY FileTypesKept, ViewTypesKept, WireTypesKept, SpoolTypesKept, StackTypesKept,
   FlagTypesKept DEF Types

LEMMA TypesAreTypeOK ==
  ASSUME Types
  PROVE  TypeOK
BY DEF Types, FileTypes, ViewTypes, WireTypes, Wire, SpoolTypes, StackTypes,
       FlagTypes, TypeOK, BagToSet

-----------------------------------------------------------------------------
(* The list *)

IsRefresh(r) == r.kind \in {"list", "listing"}
Under(r)     == r \in DOMAIN pending

(* One refresh is under way at most. *)
One == \A r, q \in DOMAIN pending :
          IsRefresh(r) /\ IsRefresh(q) => r = q /\ pending[r] = 1

(* A list that will be right when it comes, or asked for again *)
Coming == \E r \in DOMAIN pending :
             r.kind = "listing" /\ (r.disk = disk \/ refresh_pending)

Refreshes  == connected /\ refreshing_files =>
                Refreshing(pending) \/ Under(Ask("objects"))
Waits      == refresh_pending => refreshing_files
OneRefresh == ~overlapped => One
ListComes  == connected /\ ~overlapped =>
                \/ Under(Ask("objects")) \/ Under(Ask("list")) \/ Coming
                \/ ~Refreshing(pending) /\ tree = disk

RefreshInv == Refreshes /\ Waits /\ OneRefresh /\ ListComes

LEMMA RefreshFrame ==
  ASSUME RefreshInv,
         UNCHANGED <<connected, pending, refresh, overlapped, tree, disk>>
  PROVE  RefreshInv'
BY DEF RefreshInv, Refreshes, Waits, OneRefresh, ListComes, One, Coming, Under,
       Refreshing, refresh

Other(r) == r.kind \notin {"objects", "list", "listing"}

LEMMA OthersStay ==
  ASSUME NEW gone, NEW come, Goes(gone, come), \A r \in gone \cup come : Other(r),
         NEW r, ~Other(r)
  PROVE  r \in DOMAIN pending' <=> Under(r)
BY DEF Goes, Moves, Under

(* Requests of other kinds come and go beside a refresh. *)
LEMMA OthersKeepRefresh ==
  ASSUME RefreshInv, WireTypes, NEW gone, NEW come, Goes(gone, come),
         \A r \in gone \cup come : Other(r),
         UNCHANGED <<connected, refresh, overlapped, tree, disk>>
  PROVE  RefreshInv'
<1>1. \A r : ~Other(r) => (r \in DOMAIN pending' <=> Under(r))
  BY OthersStay
<1>2. Ask("objects").kind = "objects" /\ Ask("list").kind = "list" BY DEF Ask
<1>3. Refreshing(pending)' <=> Refreshing(pending)
  BY <1>1 DEF Refreshing, Other, Under
<1>4. /\ Under(Ask("objects"))' <=> Under(Ask("objects"))
      /\ Under(Ask("list"))' <=> Under(Ask("list"))
  BY <1>1, <1>2 DEF Other, Under
<1>5. Coming' <=> Coming BY <1>1 DEF Coming, Other, Under, refresh
<1>6. One => One'
  <2> SUFFICES ASSUME One, NEW r \in DOMAIN pending', NEW q \in DOMAIN pending',
                      IsRefresh(r), IsRefresh(q)
               PROVE  r = q /\ pending'[r] = 1
    BY DEF One, IsRefresh
  <2>1. r \in DOMAIN pending /\ q \in DOMAIN pending
    BY <1>1 DEF IsRefresh, Other, Under
  <2>2. r = q /\ pending[r] = 1 BY <2>1 DEF One
  <2>3. pending'[r] <= pending[r] BY DEF Goes, Moves, IsRefresh, Other
  <2>4. pending'[r] \in Nat \ {0} BY BagCounts DEF Goes, Moves
  <2> QED BY <2>2, <2>3, <2>4
<1> QED BY <1>3, <1>4, <1>5, <1>6
        DEF RefreshInv, Refreshes, Waits, OneRefresh, ListComes, refresh

(* subscribe() begins a refresh: over another, or alone. *)
LEMMA SubscribingKeeps ==
  ASSUME NEW gone, NEW come, Goes(gone, come), Ask("list") \in come,
         \A r \in come : IsRefresh(r) => r = Ask("list"), Subscribing(pending)
  PROVE  RefreshInv'
<1>1. Under(Ask("list"))' BY DEF Under, Goes, Moves
<1>2. Ask("list").kind = "list" BY DEF Ask
<1>3. Refreshing(pending)' BY <1>1, <1>2 DEF Refreshing, Under
<1>4. ASSUME ~Refreshing(pending) PROVE One'
  <2>1. \A r \in DOMAIN pending' : IsRefresh(r) => r = Ask("list")
    BY <1>4 DEF Goes, Moves, Refreshing, IsRefresh
  <2>2. Ask("list") \notin DOMAIN pending BY <1>2, <1>4 DEF Refreshing
  <2>3. pending'[Ask("list")] = 1 BY <2>2 DEF Goes, Moves
  <2> QED BY <2>1, <2>3 DEF One, IsRefresh
<1> QED BY <1>1, <1>3, <1>4
        DEF RefreshInv, Refreshes, Waits, OneRefresh, ListComes, Subscribing

LEMMA FilelistChangedKeeps ==
  ASSUME RefreshInv, WireTypes, FilelistChanged, UNCHANGED <<connected, tree>>
  PROVE  RefreshInv'
<1>1. CASE ~connected /\ UNCHANGED <<refresh, pending, overlapped>>
  BY <1>1 DEF RefreshInv, Refreshes, Waits, OneRefresh, ListComes, One, refresh
<1>2. CASE /\ connected /\ refreshing_files /\ refresh_pending' = TRUE
           /\ UNCHANGED <<refreshing_files, pending, overlapped>>
  <2>1. Refreshing(pending) \/ Under(Ask("objects"))
    BY <1>2 DEF RefreshInv, Refreshes
  <2>2. Refreshing(pending) =>
          Under(Ask("list")) \/ \E r \in DOMAIN pending : r.kind = "listing"
    BY DEF Refreshing, WireTypes, Request, Under, Ask
  <2>3. Under(Ask("objects"))' \/ Under(Ask("list"))' \/ Coming'
    BY <1>2, <2>1, <2>2 DEF Under, Coming
  <2>4. Refreshes' /\ Waits' /\ OneRefresh'
    BY <1>2, <2>1 DEF RefreshInv, Refreshes, Waits, OneRefresh, One, Under,
                      Refreshing
  <2> QED BY <2>3, <2>4 DEF RefreshInv, ListComes
<1>3. CASE Goes({}, {Ask("list")}) /\ Subscribing(pending)
  BY <1>3, SubscribingKeeps
<1> QED BY <1>1, <1>2, <1>3, FilelistChangedDoes DEF WireTypes

LEMMA OnOpenKeepsRefresh ==
  ASSUME RefreshInv, OnOpen
  PROVE  RefreshInv'
<1>1. DOMAIN pending' = {Ask("objects")} BY OnOpenGoes
<1>2. Ask("objects").kind = "objects" BY DEF Ask
<1>3. One' BY <1>1, <1>2 DEF One, IsRefresh
<1>4. Under(Ask("objects"))' BY <1>1 DEF Under
<1> QED BY <1>3, <1>4 DEF RefreshInv, Refreshes, Waits, OneRefresh, ListComes,
                         OnOpen, refresh

LEMMA OnCloseKeepsRefresh ==
  ASSUME RefreshInv, OnClose
  PROVE  RefreshInv'
<1>1. DOMAIN pending' = {} /\ ~connected' BY OnCloseGoes
<1>2. One' BY <1>1 DEF One
<1> QED BY <1>1, <1>2 DEF RefreshInv, Refreshes, Waits, OneRefresh, ListComes,
                         OnClose, refresh

LEMMA ListReadKeepsRefresh ==
  ASSUME RefreshInv, WireTypes, ListRead
  PROVE  RefreshInv'
<1>1. connected /\ Goes({Ask("list")}, {Listing(disk)})
  BY ListReadGoes DEF WireTypes
<1>2. Ask("list") \in DOMAIN pending BY DEF ListRead, Reply
<1>3. Ask("list").kind = "list" BY DEF Ask
<1>4. Listing(disk).kind = "listing" /\ Listing(disk).disk = disk BY DEF Listing
<1>5. Listing(disk) \in DOMAIN pending' BY <1>1 DEF Goes, Moves
<1>6. UNCHANGED <<connected, refresh, overlapped, tree, disk>>
  BY DEF ListRead, printer, list, history
<1>7. Refreshing(pending)' BY <1>4, <1>5 DEF Refreshing
<1>8. Coming' BY <1>4, <1>5, <1>6 DEF Coming
<1>9. ASSUME One PROVE One'
  <2>1. Listing(disk) # Ask("list") BY <1>3, <1>4
  <2>2. \A r \in DOMAIN pending : IsRefresh(r) => r = Ask("list")
    BY <1>2, <1>3, <1>9 DEF One, IsRefresh
  <2>3. pending[Ask("list")] = 1 BY <1>2, <1>3, <1>9 DEF One, IsRefresh
  <2>4. Listing(disk) \notin DOMAIN pending
    BY <1>4, <2>1, <2>2 DEF IsRefresh
  <2>5. pending'[Listing(disk)] = 1 BY <1>1, <2>4 DEF Goes, Moves
  <2>6. \A r \in DOMAIN pending' : pending'[r] \in Nat \ {0}
    BY <1>1, BagCounts DEF Goes, Moves
  <2>7. Ask("list") \notin DOMAIN pending'
    <3> SUFFICES ASSUME Ask("list") \in DOMAIN pending' PROVE FALSE OBVIOUS
    <3>1. pending'[Ask("list")] < pending[Ask("list")]
      BY <1>1, <2>1 DEF Goes, Moves
    <3> QED BY <2>3, <2>6, <3>1
  <2>8. \A r \in DOMAIN pending' : IsRefresh(r) => r = Listing(disk)
    BY <1>1, <2>2, <2>7 DEF Goes, Moves
  <2> QED BY <2>5, <2>8 DEF One, IsRefresh
<1> QED BY <1>6, <1>7, <1>8, <1>9
        DEF RefreshInv, Refreshes, Waits, OneRefresh, ListComes, refresh

(* A list that was the only one leaves none, but for the one asked again.  *)
LEMMA LastListing ==
  ASSUME WireTypes, NEW x, IsRefresh(x), x \in DOMAIN pending,
         pending[x] = 1, \A r \in DOMAIN pending : IsRefresh(r) => r = x,
         NEW come, Goes({x}, come), x \notin come,
         NEW r \in DOMAIN pending', IsRefresh(r)
  PROVE  r \in come
<1> SUFFICES ASSUME r \notin come PROVE FALSE OBVIOUS
<1>1. r = x BY DEF Goes, Moves
<1>2. pending'[x] < pending[x] BY <1>1 DEF Goes, Moves
<1>3. pending'[x] \in Nat \ {0} BY <1>1, BagCounts DEF Goes, Moves
<1> QED BY <1>2, <1>3

LEMMA FileListGoes ==
  ASSUME NEW d, Wire, FileList(d)
  PROVE  \E asks : /\ Goes({Listing(d)}, Again \cup asks)
                   /\ \A r \in asks : r.kind = "metadata"
<1>1. Shows(d, None, [f \in Files |-> 0], {Listing(d)}, Again) BY FileListDoes
<1>2. CASE \E f, asks : /\ Goes({Listing(d)}, Again \cup asks)
                                  /\ Selects(f, d, [g \in Files |-> 0], asks)
  <2>1. PICK f, asks : /\ Goes({Listing(d)}, Again \cup asks)
                                 /\ Selects(f, d, [g \in Files |-> 0], asks)
    BY <1>2
  <2>2. \A r \in asks : r.kind = "metadata" BY <2>1 DEF Selects, About
  <2> QED BY <2>1, <2>2
<1>3. CASE Goes({Listing(d)}, Again)
  <2> DEFINE none == {}
  <2>1. Goes({Listing(d)}, Again \cup none) BY <1>3
  <2>2. \A r \in none : r.kind = "metadata" OBVIOUS
  <2> HIDE DEF none
  <2> QED BY <2>1, <2>2
<1> QED BY <1>1, <1>2, <1>3 DEF Shows

LEMMA FileListKeepsRefresh ==
  ASSUME NEW d, RefreshInv, WireTypes, FileList(d)
  PROVE  RefreshInv'
<1> DEFINE x == Listing(d)
<1>1. x.kind = "listing" /\ x.disk = d BY DEF Listing
<1>2. Ask("list").kind = "list" /\ Ask("objects").kind = "objects" BY DEF Ask
<1>3. /\ x \in DOMAIN pending /\ tree' = d
      /\ refreshing_files' = refresh_pending /\ refresh_pending' = FALSE
      /\ overlapped' = IF refresh_pending THEN Refreshing(Rest(x))
                       ELSE overlapped
  BY FileListDoes DEF WireTypes
<1>4. PICK asks : Goes({x}, Again \cup asks) /\ \A r \in asks : r.kind = "metadata"
  BY FileListGoes DEF WireTypes
<1>5. UNCHANGED <<connected, disk>> BY DEF FileList, printer
<1>6. Moves(Rest(x), pending, {x}, {})
  BY RestMoves DEF WireTypes, FileList
<1> HIDE DEF x
<1>7. IsRefresh(x) /\ \A r \in asks : ~IsRefresh(r) BY <1>1, <1>4 DEF IsRefresh
<1>8. x \notin Again \cup asks BY <1>1, <1>2, <1>7 DEF Again
<1>9. ASSUME One, NEW r \in DOMAIN pending', IsRefresh(r) PROVE r \in Again
  <2>1. pending[x] = 1 /\ \A q \in DOMAIN pending : IsRefresh(q) => q = x
    BY <1>3, <1>7, <1>9 DEF One
  <2>2. r \in Again \cup asks
    BY <1>3, <1>4, <1>7, <1>8, <1>9, <2>1, LastListing
  <2> QED BY <1>7, <1>9, <2>2
<1>10. CASE refresh_pending
  <2>1. Again = {Ask("list")} BY <1>10 DEF Again
  <2>2. Under(Ask("list"))' BY <1>4, <2>1 DEF Goes, Moves, Under
  <2>3. Refreshing(pending)' BY <1>2, <2>2 DEF Refreshing, Under
  <2>4. ASSUME ~Refreshing(Rest(x)) PROVE One'
    <3>1. \A r \in DOMAIN pending : IsRefresh(r) => r = x
      BY <1>6, <2>4 DEF Moves, Refreshing, IsRefresh
    <3>2. pending[x] = 1
      BY <1>3, <1>6, <1>7, <2>4 DEF Moves, Refreshing, IsRefresh
    <3>3. One BY <3>1, <3>2 DEF One
    <3>4. \A r \in DOMAIN pending' : IsRefresh(r) => r = Ask("list")
      BY <1>9, <2>1, <3>3
    <3>5. Ask("list") \notin DOMAIN pending
      BY <1>1, <1>2, <3>1 DEF IsRefresh
    <3>6. pending'[Ask("list")] = 1
      BY <1>4, <2>1, <3>5 DEF Goes, Moves
    <3> QED BY <3>4, <3>6 DEF One, IsRefresh
  <2> QED BY <1>3, <1>10, <2>2, <2>3, <2>4
          DEF RefreshInv, Refreshes, Waits, OneRefresh, ListComes
<1>11. CASE ~refresh_pending
  <2>1. Again = {} BY <1>11 DEF Again
  <2>2. ~refreshing_files' /\ ~refresh_pending' /\ (overlapped' <=> overlapped)
    BY <1>3, <1>11
  <2>3. ASSUME ~overlapped PROVE One' /\ ~Refreshing(pending)'
    <3>1. \A r \in DOMAIN pending' : ~IsRefresh(r)
      BY <1>9, <2>1, <2>3 DEF RefreshInv, OneRefresh
    <3> QED BY <3>1 DEF One, Refreshing, IsRefresh
  <2>4. ASSUME connected, ~overlapped PROVE Under(Ask("objects"))' \/ tree' = disk'
    <3>1. One BY <2>4 DEF RefreshInv, OneRefresh
    <3>2. ~Under(Ask("list"))
      BY <1>1, <1>2, <1>3, <1>7, <3>1 DEF One, Under, IsRefresh
    <3>3. CASE Under(Ask("objects"))
      BY <1>1, <1>2, <1>4, <3>3 DEF Under, Goes, Moves
    <3>4. CASE Coming
      <4>1. PICK r \in DOMAIN pending : r.kind = "listing" /\ r.disk = disk
        BY <1>11, <3>4 DEF Coming
      <4>2. r = x BY <1>3, <1>7, <3>1, <4>1 DEF One, IsRefresh
      <4> QED BY <1>1, <1>3, <1>5, <4>1, <4>2
    <3>5. CASE ~Refreshing(pending)
      BY <1>1, <1>3, <3>5 DEF Refreshing
    <3> QED BY <2>4, <3>2, <3>3, <3>4, <3>5 DEF RefreshInv, ListComes
  <2> QED BY <1>5, <2>2, <2>3, <2>4
          DEF RefreshInv, Refreshes, Waits, OneRefresh, ListComes
<1> QED BY <1>10, <1>11

(* Showing a folder asks for nothing but metadata. *)
LEMMA BrowsingKeepsRefresh ==
  ASSUME RefreshInv, WireTypes, Shows(tree, cur_file, metadata, {}, {}),
         UNCHANGED <<connected, refresh, overlapped, tree, disk>>
  PROVE  RefreshInv'
<1>1. CASE \E f, asks :
             Goes({}, {} \cup asks) /\ Selects(f, tree, metadata, asks)
  <2>1. PICK f, asks :
               Goes({}, {} \cup asks) /\ Selects(f, tree, metadata, asks)
    BY <1>1
  <2>2. \A r \in asks : r.kind = "metadata" BY <2>1 DEF Selects, About
  <2>3. \A r \in {} \cup ({} \cup asks) : Other(r) BY <2>2 DEF Other
  <2> QED BY <2>1, <2>3, OthersKeepRefresh
<1>2. CASE Goes({}, {})
  <2>1. \A r \in {} \cup {} : Other(r) OBVIOUS
  <2> QED BY <1>2, <2>1, OthersKeepRefresh
<1> QED BY <1>1, <1>2 DEF Shows

LEMMA OpenFilesKeepsRefresh ==
  ASSUME RefreshInv, WireTypes, OpenFiles
  PROVE  RefreshInv'
<1>1. Shows(tree, cur_file, metadata, {}, {Ask("list")})
  BY OpenFilesDoes DEF WireTypes
<1>2. Subscribing(pending) BY DEF OpenFiles
<1>3. CASE \E f, asks :
             Goes({}, {Ask("list")} \cup asks) /\ Selects(f, tree, metadata, asks)
  <2>1. PICK f, asks :
          Goes({}, {Ask("list")} \cup asks) /\ Selects(f, tree, metadata, asks)
    BY <1>3
  <2>2. \A r \in {Ask("list")} \cup asks : IsRefresh(r) => r = Ask("list")
    BY <2>1 DEF Selects, About, IsRefresh
  <2> QED BY <1>2, <2>1, <2>2, SubscribingKeeps
<1>4. CASE Goes({}, {Ask("list")})
  BY <1>2, <1>4, SubscribingKeeps
<1> QED BY <1>1, <1>3, <1>4 DEF Shows

LEMMA RefreshKept ==
  ASSUME RefreshInv, WireTypes, Next
  PROVE  RefreshInv'
<1> USE DEF printer, list, choice, refresh, spools, prompt, stack, counts,
        history, Untapped
<1>1. ASSUME NEW f \in Files, WriteFile(f) PROVE RefreshInv'
  BY <1>1, FilelistChangedKeeps DEF WriteFile
<1>2. ASSUME NEW f \in Files, DeleteFile(f) PROVE RefreshInv'
  BY <1>2, FilelistChangedKeeps DEF DeleteFile
<1>3. CASE OnOpen BY <1>3, OnOpenKeepsRefresh
<1>4. CASE OnClose BY <1>4, OnCloseKeepsRefresh
<1>5. CASE ObjectList
  <2> DEFINE come == {Ask("list"), Ask("subscribe"), Ask("info")}
  <2>1. Goes({Ask("objects")}, come) BY <1>5, ObjectListGoes DEF WireTypes
  <2>2. \A r \in come : IsRefresh(r) => r = Ask("list") BY DEF IsRefresh, Ask
  <2>3. Ask("list") \in come OBVIOUS
  <2> HIDE DEF come
  <2> QED BY <1>5, <2>1, <2>2, <2>3, SubscribingKeeps DEF ObjectList
<1>6. CASE Snapshot
  <2>1. Goes({Ask("subscribe")}, {}) BY <1>6, SnapshotGoes DEF WireTypes
  <2>2. \A q \in {Ask("subscribe")} \cup {} : Other(q)
    BY DEF Other, Ask
  <2> QED BY <1>6, <2>1, <2>2, OthersKeepRefresh DEF Snapshot
<1>7. CASE ServerInfo
  <2>1. Goes({Ask("info")}, SpoolAsks) BY <1>7, ServerInfoGoes DEF WireTypes
  <2>2. \A q \in {Ask("info")} \cup SpoolAsks : Other(q)
    BY DEF Other, Ask, SpoolAsks
  <2> QED BY <1>7, <2>1, <2>2, OthersKeepRefresh DEF ServerInfo
<1>8. CASE SpoolId
  <2>1. Goes({Ask("spool")}, {}) BY <1>8, SpoolIdGoes DEF WireTypes
  <2>2. \A q \in {Ask("spool")} \cup {} : Other(q)
    BY DEF Other, Ask
  <2> QED BY <1>8, <2>1, <2>2, OthersKeepRefresh DEF SpoolId
<1>9. CASE ListRead BY <1>9, ListReadKeepsRefresh
<1>10. ASSUME NEW r \in DOMAIN pending, r.kind = "listing",
            FileList(r.disk)
      PROVE  RefreshInv'
  BY <1>10, FileListKeepsRefresh
<1>11. ASSUME NEW f \in Files, GotMetadata(f) PROVE RefreshInv'
  <2>1. Goes({About("metadata", f)}, Rescan(f))
    BY <1>11, GotMetadataGoes DEF WireTypes
  <2>2. \A q \in {About("metadata", f)} \cup Rescan(f) : Other(q)
    BY DEF Other, About, Rescan
  <2> QED BY <1>11, <2>1, <2>2, OthersKeepRefresh DEF GotMetadata
<1>12. ASSUME NEW f \in Files, GotMetascan(f) PROVE RefreshInv'
  <2>1. Goes({About("metascan", f)}, {}) BY <1>12, GotMetascanGoes DEF WireTypes
  <2>2. \A q \in {About("metascan", f)} \cup {} : Other(q)
    BY DEF Other, About
  <2> QED BY <1>12, <2>1, <2>2, OthersKeepRefresh DEF GotMetascan
<1>13. ASSUME NEW f \in Files, Started(f) PROVE RefreshInv'
  <2>1. Goes({About("start", f)}, {}) BY <1>13, StartedGoes DEF WireTypes
  <2>2. \A q \in {About("start", f)} \cup {} : Other(q)
    BY DEF Other, About
  <2> QED BY <1>13, <2>1, <2>2, OthersKeepRefresh DEF Started
<1>14. ASSUME NEW s \in Spools, Posted(s) PROVE RefreshInv'
  <2>1. Goes({Post(s)}, {}) BY <1>14, PostedGoes DEF WireTypes
  <2>2. \A q \in {Post(s)} \cup {} : Other(q)
    BY DEF Other, Post
  <2> QED BY <1>14, <2>1, <2>2, OthersKeepRefresh DEF Posted
<1>15. CASE OpenFiles BY <1>15, OpenFilesKeepsRefresh
<1>16. CASE Reload
  <2>1. Goes({}, {Ask("list")}) BY <1>16, ReloadGoes DEF WireTypes
  <2> QED BY <1>16, <2>1, SubscribingKeeps DEF Reload
<1>17. CASE SortTap
  BY <1>17, SortTapDoes, BrowsingKeepsRefresh DEF SortTap, WireTypes
<1>18. ASSUME NEW f \in Files, TapFile(f) PROVE RefreshInv'
  BY <1>18, TapFileDoes, BrowsingKeepsRefresh DEF TapFile, WireTypes
<1>19. ASSUME NEW dir \in {Root} \cup {Folder[f] : f \in Files}, TapFolder(dir)
      PROVE  RefreshInv'
  BY <1>19, TapFolderDoes, BrowsingKeepsRefresh DEF TapFolder, WireTypes
<1>20. CASE TapPrint
  <2>1. Goes({}, {}) \/ Goes({}, StartAsks(cur_file))
    BY <1>20, TapPrintGoes DEF WireTypes
  <2>2. \A q \in {} \cup StartAsks(cur_file) : Other(q)
    BY DEF Other, About, StartAsks
  <2>3. \A q \in {} \cup {} : Other(q) OBVIOUS
  <2> QED BY <1>20, <2>1, <2>2, <2>3, OthersKeepRefresh DEF TapPrint
<1>21. CASE TapYes
  <2>1. Goes({}, StartAsks(pending_print_path)) BY <1>21, TapYesGoes DEF WireTypes
  <2>2. \A q \in {} \cup StartAsks(pending_print_path) : Other(q)
    BY DEF Other, About, StartAsks
  <2> QED BY <1>21, <2>1, <2>2, OthersKeepRefresh DEF TapYes
<1>22. CASE ReloadSpools
  <2>1. Goes({}, {Ask("spool")}) BY <1>22, ReloadSpoolsGoes DEF WireTypes
  <2>2. \A q \in {} \cup {Ask("spool")} : Other(q)
    BY DEF Other, Ask
  <2> QED BY <1>22, <2>1, <2>2, OthersKeepRefresh DEF ReloadSpools
<1>23. ASSUME NEW s \in Spools, TapSpool(s) PROVE RefreshInv'
  <2>1. Goes({}, {Post(s)}) BY <1>23, TapSpoolGoes DEF WireTypes
  <2>2. \A q \in {} \cup {Post(s)} : Other(q)
    BY DEF Other, Post
  <2> QED BY <1>23, <2>1, <2>2, OthersKeepRefresh DEF TapSpool
<1>24. CASE PrintChanges \/ Status \/ Back \/ BackStatus \/ TapNo
  BY <1>24, RefreshFrame DEF PrintChanges, Status, Back, BackStatus, TapNo
<1>25. CASE OpenSpools \/ BackSpools
  BY <1>25, RefreshFrame DEF OpenSpools, BackSpools
<1>26. ASSUME NEW s \in Spools \cup {None}, SpoolChanges(s)
      PROVE  RefreshInv'
  BY <1>26, RefreshFrame DEF SpoolChanges
<1> QED BY <1>1, <1>2, <1>3, <1>4, <1>5, <1>6, <1>7, <1>8, <1>9, <1>10, <1>11,
           <1>12, <1>13, <1>14, <1>15, <1>16, <1>17, <1>18, <1>19, <1>20,
           <1>21, <1>22, <1>23, <1>24, <1>25, <1>26 DEF Next

-----------------------------------------------------------------------------
(* The selected file and its details *)

DisksOld    == \A f \in Files : disk[f] <= events /\ tree[f] <= events
ListingsOld == \A r \in DOMAIN pending :
                  r.kind = "listing" => \A f \in Files : r.disk[f] <= events
ScannedHas  == scanned \cap Unscannable = {}

(* What is known of a file that did not change since is true of it. *)
KnownRight(data) ==
  \A f \in Files : data[f] # 0 =>
     tree[f] # 0 /\ (tree[f] = disk[f] => data[f] = disk[f] /\ f \notin Unscannable)

Rightly(f) ==
  IF f \in Unscannable THEN details.state = "missing"
  ELSE details.state = "shown" /\ details.version = disk[f]

(* What will bring the details up to date *)
Awaited(f) ==
  \/ Under(Ask("objects")) \/ Refreshing(pending)
  \/ Under(About("metadata", f)) \/ Under(About("metascan", f))

DetailInv ==
  cur_file # None =>
    /\ tree[cur_file] # 0 /\ details.file = cur_file
    /\ connected /\ tree[cur_file] = disk[cur_file] =>
         Rightly(cur_file) \/ Awaited(cur_file)

FileInv ==
  DisksOld /\ ListingsOld /\ ScannedHas /\ KnownRight(metadata) /\ DetailInv

LEMMA VersionsAreNat ==
  ASSUME FileTypes
  PROVE  /\ events \in Nat
         /\ \A f \in Files : disk[f] \in Nat /\ tree[f] \in Nat
BY BoundsAreNat DEF FileTypes, Version

LEMMA VersionsFrame ==
  ASSUME DisksOld, ListingsOld, ScannedHas, KnownRight(metadata), FileTypes,
         WireTypes,
         UNCHANGED <<disk, tree, scanned, metadata>>,
         events' = events \/ events' = events + 1,
         \A r \in DOMAIN pending' : r.kind = "listing" => r \in DOMAIN pending
  PROVE  DisksOld' /\ ListingsOld' /\ ScannedHas' /\ KnownRight(metadata)'
<1>1. events \in Nat /\ \A f \in Files : disk[f] \in Nat /\ tree[f] \in Nat
  BY VersionsAreNat
<1>2. DisksOld' BY <1>1 DEF DisksOld
<1>3. ListingsOld'
  <2> SUFFICES ASSUME NEW r \in DOMAIN pending', r.kind = "listing",
                      NEW f \in Files
               PROVE  r.disk[f] <= events'
    BY DEF ListingsOld
  <2>1. r \in DOMAIN pending BY DEF ListingsOld
  <2>2. r.disk[f] <= events BY <2>1 DEF ListingsOld
  <2>3. r.disk[f] \in Nat BY <2>1, ListingIs, BoundsAreNat DEF Version
  <2> QED BY <1>1, <2>2, <2>3
<1>4. ScannedHas' /\ KnownRight(metadata)' BY DEF ScannedHas, KnownRight
<1> QED BY <1>2, <1>3, <1>4

LEMMA DetailFrame ==
  ASSUME DetailInv, UNCHANGED <<tree, disk, cur_file, details, connected>>,
         Awaited(cur_file) => Awaited(cur_file)'
  PROVE  DetailInv'
BY DEF DetailInv, Rightly

LEMMA FileFrame ==
  ASSUME FileInv, FileTypes, WireTypes,
         UNCHANGED <<disk, tree, scanned, metadata, cur_file, details, connected,
                     pending>>,
         events' = events \/ events' = events + 1
  PROVE  FileInv'
<1>1. Awaited(cur_file)' <=> Awaited(cur_file) BY DEF Awaited, Under, Refreshing
<1>2. DetailInv' BY <1>1, DetailFrame DEF FileInv
<1> QED BY <1>2, VersionsFrame DEF FileInv

(* A request that a shown file may wait for *)
Telling(r) ==
  r.kind \in {"objects", "list", "listing", "metadata", "metascan"}

LEMMA OthersKeepFile ==
  ASSUME FileInv, FileTypes, WireTypes, NEW gone, NEW come, Goes(gone, come),
         \A r \in gone : ~Telling(r), \A r \in come : r.kind # "listing",
         UNCHANGED <<disk, tree, scanned, metadata, cur_file, details, connected,
                     events>>
  PROVE  FileInv'
<1>1. \A r \in DOMAIN pending : Telling(r) => r \in DOMAIN pending'
  BY DEF Goes, Moves
<1>2. \A r \in DOMAIN pending' : r.kind = "listing" => r \in DOMAIN pending
  BY DEF Goes, Moves
<1>3. Awaited(cur_file) => Awaited(cur_file)'
  BY <1>1 DEF Awaited, Under, Refreshing, Telling, Ask, About
<1> QED BY <1>2, <1>3, DetailFrame, VersionsFrame DEF FileInv

LEMMA RefreshKeepsFile ==
  ASSUME FileInv, FileTypes, WireTypes, Refreshing(pending)',
         \A r \in DOMAIN pending' : r.kind = "listing" => r \in DOMAIN pending,
         UNCHANGED <<disk, tree, scanned, metadata, cur_file, details, connected,
                     events>>
  PROVE  FileInv'
<1>1. Awaited(cur_file)' BY DEF Awaited
<1> QED BY <1>1, DetailFrame, VersionsFrame DEF FileInv

(* A file that changes is another than the one that is listed. *)
LEMMA DiskChanges ==
  ASSUME FileInv, FileTypes, WireTypes, FilelistChanged, NEW f \in Files,
         disk'[f] # tree[f] \/ disk'[f] = 0,
         events' = events + 1, events + 1 \in Version,
         \A g \in Files : disk'[g] \in Nat /\ disk'[g] <= events',
         \A g \in Files \ {f} : disk'[g] = disk[g],
         scanned' \cap Unscannable = {},
         UNCHANGED <<tree, metadata, cur_file, details, connected>>,
         cur_file \in Files \cup {None}
  PROVE  FileInv'
<1>1. events \in Nat /\ \A g \in Files : disk[g] \in Nat /\ tree[g] \in Nat
  BY VersionsAreNat
<1>2. \A r \in DOMAIN pending : r \in DOMAIN pending'
  BY FilelistChangedDoes DEF WireTypes, Goes, Moves
<1>3. \A r \in DOMAIN pending' : r.kind = "listing" => r \in DOMAIN pending
  <2>1. Ask("list").kind # "listing" BY DEF Ask
  <2>2. CASE Goes({}, {Ask("list")}) BY <2>1, <2>2 DEF Goes, Moves
  <2>3. CASE UNCHANGED pending BY <2>3
  <2> QED BY <2>2, <2>3, FilelistChangedDoes DEF WireTypes
<1>4. DisksOld' BY <1>1 DEF FileInv, DisksOld
<1>5. ListingsOld'
  <2> SUFFICES ASSUME NEW r \in DOMAIN pending', r.kind = "listing",
                      NEW g \in Files
               PROVE  r.disk[g] <= events'
    BY DEF ListingsOld
  <2>1. r \in DOMAIN pending BY <1>3
  <2>2. r.disk[g] <= events BY <2>1 DEF FileInv, ListingsOld
  <2>3. r.disk[g] \in Nat BY <2>1, ListingIs, BoundsAreNat DEF Version
  <2> QED BY <1>1, <2>2, <2>3
<1>6. KnownRight(metadata)'
  <2> SUFFICES ASSUME NEW g \in Files, metadata[g] # 0
               PROVE  /\ tree[g] # 0
                      /\ tree[g] = disk'[g] =>
                           metadata[g] = disk'[g] /\ g \notin Unscannable
    BY DEF KnownRight
  <2>1. tree[g] # 0 BY DEF FileInv, KnownRight
  <2>2. CASE g = f BY <2>1, <2>2
  <2>3. CASE g # f BY <2>1, <2>3 DEF FileInv, KnownRight
  <2> QED BY <2>2, <2>3
<1>7. Awaited(cur_file) => Awaited(cur_file)'
  BY <1>2 DEF Awaited, Under, Refreshing
<1>8. DetailInv'
  <2> SUFFICES ASSUME cur_file # None
               PROVE  /\ tree[cur_file] # 0 /\ details.file = cur_file
                      /\ connected /\ tree[cur_file] = disk'[cur_file] =>
                           Rightly(cur_file)' \/ Awaited(cur_file)'
    BY DEF DetailInv
  <2>1. tree[cur_file] # 0 /\ details.file = cur_file
    BY DEF FileInv, DetailInv
  <2>2. CASE cur_file = f BY <2>1, <2>2
  <2>3. CASE cur_file # f
    <3>1. disk'[cur_file] = disk[cur_file] BY <2>3
    <3>2. Rightly(cur_file)' <=> Rightly(cur_file) BY <3>1 DEF Rightly
    <3> QED BY <1>7, <2>1, <3>1, <3>2 DEF FileInv, DetailInv
  <2> QED BY <2>2, <2>3
<1> QED BY <1>4, <1>5, <1>6, <1>8 DEF FileInv, ScannedHas

LEMMA WriteFileKeeps ==
  ASSUME NEW f \in Files, FileInv, FileTypes, ViewTypes, WireTypes, WriteFile(f)
  PROVE  FileInv'
<1>1. events \in Nat /\ \A g \in Files : disk[g] \in Nat /\ tree[g] \in Nat
  BY VersionsAreNat
<1>2. events' = events + 1 /\ events + 1 \in Version
  BY HappensCounts DEF WriteFile
<1>3. disk' = [disk EXCEPT ![f] = events + 1] BY DEF WriteFile
<1>4. disk'[f] = events + 1 BY <1>3 DEF FileTypes
<1>5. \A g \in Files \ {f} : disk'[g] = disk[g] BY <1>3 DEF FileTypes
<1>6. \A g \in Files : disk[g] <= events /\ tree[g] <= events
  BY DEF FileInv, DisksOld
<1>7. \A g \in Files : disk'[g] \in Nat /\ disk'[g] <= events'
  BY <1>1, <1>2, <1>4, <1>5, <1>6
<1>8. disk'[f] # tree[f] BY <1>1, <1>4, <1>6
<1>9. scanned' \cap Unscannable = {} BY DEF WriteFile, FileInv, ScannedHas
<1>10. /\ UNCHANGED <<tree, metadata, cur_file, details, connected>>
       /\ FilelistChanged
  BY DEF WriteFile, list, choice
<1> QED BY <1>2, <1>5, <1>7, <1>8, <1>9, <1>10, DiskChanges DEF ViewTypes

LEMMA DeleteFileKeeps ==
  ASSUME NEW f \in Files, FileInv, FileTypes, ViewTypes, WireTypes, DeleteFile(f)
  PROVE  FileInv'
<1>1. events \in Nat /\ \A g \in Files : disk[g] \in Nat /\ tree[g] \in Nat
  BY VersionsAreNat
<1>2. events' = events + 1 /\ events + 1 \in Version
  BY HappensCounts DEF DeleteFile
<1>3. disk' = [disk EXCEPT ![f] = 0] BY DEF DeleteFile
<1>4. disk'[f] = 0 BY <1>3 DEF FileTypes
<1>5. \A g \in Files \ {f} : disk'[g] = disk[g] BY <1>3 DEF FileTypes
<1>6. \A g \in Files : disk[g] <= events /\ tree[g] <= events
  BY DEF FileInv, DisksOld
<1>7. \A g \in Files : disk'[g] \in Nat /\ disk'[g] <= events'
  BY <1>1, <1>2, <1>4, <1>5, <1>6
<1>8. scanned' \cap Unscannable = {} BY DEF DeleteFile, FileInv, ScannedHas
<1>9. /\ UNCHANGED <<tree, metadata, cur_file, details, connected>>
      /\ FilelistChanged
  BY DEF DeleteFile, list, choice
<1> QED BY <1>2, <1>4, <1>5, <1>7, <1>8, <1>9, DiskChanges DEF ViewTypes

LEMMA ListReadKeepsFile ==
  ASSUME FileInv, FileTypes, WireTypes, ListRead
  PROVE  FileInv'
<1>1. Goes({Ask("list")}, {Listing(disk)}) BY ListReadGoes DEF WireTypes
<1>2. Listing(disk).kind = "listing" /\ Listing(disk).disk = disk BY DEF Listing
<1>3. Listing(disk) \in DOMAIN pending' BY <1>1 DEF Goes, Moves
<1>4. Refreshing(pending)' BY <1>2, <1>3 DEF Refreshing
<1>5. UNCHANGED <<disk, tree, scanned, metadata, cur_file, details, connected,
                  events>>
  BY DEF ListRead, printer, list, choice, counts
<1>6. Awaited(cur_file)' BY <1>4 DEF Awaited
<1>7. DetailInv' BY <1>5, <1>6, DetailFrame DEF FileInv
<1>8. ListingsOld'
  <2> SUFFICES ASSUME NEW r \in DOMAIN pending', r.kind = "listing",
                      NEW f \in Files
               PROVE  r.disk[f] <= events
    BY <1>5 DEF ListingsOld
  <2>1. CASE r = Listing(disk) BY <1>2, <2>1 DEF FileInv, DisksOld
  <2>2. CASE r # Listing(disk)
    <3>1. r \in DOMAIN pending BY <1>1, <2>2 DEF Goes, Moves
    <3> QED BY <3>1 DEF FileInv, ListingsOld
  <2> QED BY <2>1, <2>2
<1> QED BY <1>5, <1>7, <1>8 DEF FileInv, DisksOld, ScannedHas, KnownRight

(* A folder is shown from the tree there is, or from a new one.            *)
LEMMA ShowsKeepsFile ==
  ASSUME DisksOld', ListingsOld', ScannedHas',
         NEW data, KnownRight(data)', NEW t, tree' = t,
         UNCHANGED <<disk, connected>>,
         NEW gone, NEW come, NEW selected, Shows(t, selected, data, gone, come),
         Keeps(selected) /\ Goes(gone, come) => DetailInv'
  PROVE  FileInv'
<1>1. KnownRight(metadata)' BY DEF Shows, KnownRight
<1>2. CASE \E f, asks :
             Goes(gone, come \cup asks) /\ Selects(f, t, data, asks)
  <2>1. PICK f, asks :
               Goes(gone, come \cup asks) /\ Selects(f, t, data, asks)
    BY <1>2
  <2>2. f \in Files /\ cur_file' = f /\ tree'[f] # 0 /\ details'.file = f
    BY <2>1 DEF Selects
  <2>3. ASSUME data[f] # 0, tree'[f] = disk'[f] PROVE Rightly(f)'
    <3>1. data[f] = disk'[f] /\ f \notin Unscannable
      BY <2>2, <2>3 DEF KnownRight
    <3>2. details'.version = data[f] /\ details'.state = "shown"
      BY <2>1, <2>3 DEF Selects
    <3> QED BY <3>1, <3>2 DEF Rightly
  <2>4. ASSUME data[f] = 0 PROVE Awaited(f)'
    <3>1. About("metadata", f) \in DOMAIN pending'
      BY <2>1, <2>4 DEF Selects, Goes, Moves
    <3> QED BY <3>1 DEF Awaited, Under
  <2>5. DetailInv' BY <2>2, <2>3, <2>4 DEF DetailInv, Rightly, Awaited
  <2> QED BY <1>1, <2>5 DEF FileInv
<1>3. CASE Keeps(selected) /\ Goes(gone, come) BY <1>1, <1>3 DEF FileInv
<1> QED BY <1>2, <1>3 DEF Shows

LEMMA ShowsOld ==
  ASSUME NEW t, NEW selected, NEW data, NEW gone, NEW come,
         Shows(t, selected, data, gone, come),
         \A r \in come : r.kind # "listing",
         NEW r \in DOMAIN pending', r.kind = "listing"
  PROVE  r \in DOMAIN pending
<1>1. CASE \E f, asks :
             Goes(gone, come \cup asks) /\ Selects(f, t, data, asks)
  <2>1. PICK f, asks :
               Goes(gone, come \cup asks) /\ Selects(f, t, data, asks)
    BY <1>1
  <2>2. \A q \in come \cup asks : q.kind # "listing"
    BY <2>1 DEF Selects, About
  <2> QED BY <2>1, <2>2 DEF Goes, Moves
<1>2. CASE Goes(gone, come) BY <1>2 DEF Goes, Moves
<1> QED BY <1>1, <1>2 DEF Shows

LEMMA BrowsingKeepsFile ==
  ASSUME FileInv, FileTypes, WireTypes, NEW come,
         \A r \in come : r.kind # "listing",
         Shows(tree, cur_file, metadata, {}, come),
         UNCHANGED <<tree, disk, scanned, connected, events>>
  PROVE  FileInv'
<1>1. \A r \in DOMAIN pending' : r.kind = "listing" => r \in DOMAIN pending
  BY ShowsOld
<1>2. metadata' = metadata BY DEF Shows
<1>3. DisksOld' /\ ListingsOld' /\ ScannedHas' /\ KnownRight(metadata)'
  BY <1>1, <1>2, VersionsFrame DEF FileInv
<1>4. ASSUME Keeps(cur_file), Goes({}, come) PROVE DetailInv'
  <2>1. \A r \in DOMAIN pending : r \in DOMAIN pending'
    BY <1>4 DEF Goes, Moves
  <2>2. Awaited(cur_file) => Awaited(cur_file)'
    BY <1>4, <2>1 DEF Awaited, Under, Refreshing, Keeps
  <2> QED BY <1>4, <2>2, DetailFrame DEF FileInv, Keeps
<1>5. KnownRight(metadata') BY <1>2, <1>3 DEF KnownRight
<1>6. Shows(tree', cur_file, metadata', {}, come) BY <1>2
<1>7. ASSUME NEW data, data = metadata PROVE KnownRight(data)'
  BY <1>2, <1>3, <1>7 DEF KnownRight
<1> QED BY <1>3, <1>4, <1>7, ShowsKeepsFile

LEMMA FileListKeepsFile ==
  ASSUME NEW r \in DOMAIN pending, r.kind = "listing",
         FileInv, FileTypes, WireTypes, FileList(r.disk)
  PROVE  FileInv'
<1> DEFINE zero == [f \in Files |-> 0]
<1>1. /\ tree' = r.disk
      /\ Shows(r.disk, None, zero, {Listing(r.disk)}, Again)
  BY FileListDoes DEF WireTypes
<1>2. UNCHANGED <<disk, scanned, connected, events>>
  BY DEF FileList, printer, counts
<1>3. \A q \in Again : q.kind # "listing" BY DEF Again, Ask
<1>4. \A q \in DOMAIN pending' : q.kind = "listing" => q \in DOMAIN pending
  BY <1>1, <1>3, ShowsOld
<1>5. \A f \in Files : r.disk[f] <= events BY DEF FileInv, ListingsOld
<1>6. DisksOld' BY <1>1, <1>2, <1>5 DEF FileInv, DisksOld
<1>7. ListingsOld' BY <1>2, <1>4 DEF FileInv, ListingsOld
<1>8. ScannedHas' BY <1>2 DEF FileInv, ScannedHas
<1>9. KnownRight(zero)' BY DEF KnownRight
<1>10. Keeps(None) => DetailInv' BY DEF Keeps, DetailInv
<1> HIDE DEF zero
<1> QED BY <1>1, <1>2, <1>6, <1>7, <1>8, <1>9, <1>10, ShowsKeepsFile

(* A reply about a file that is no longer selected changes nothing.        *)
LEMMA LateReplyKeeps ==
  ASSUME NEW f \in Files, FileInv, FileTypes, WireTypes, cur_file # f,
         NEW k, NEW come, Goes({About(k, f)}, come), k \in {"metadata", "metascan"},
         \A r \in come : r.kind # "listing",
         scanned' \cap Unscannable = {},
         UNCHANGED <<disk, tree, metadata, cur_file, details, connected, events>>
  PROVE  FileInv'
<1>1. \A r \in DOMAIN pending : r # About(k, f) => r \in DOMAIN pending'
  BY DEF Goes, Moves
<1>2. \A r \in DOMAIN pending' : r.kind = "listing" => r \in DOMAIN pending
  BY DEF Goes, Moves
<1>3. /\ About("metadata", cur_file) # About(k, f)
      /\ About("metascan", cur_file) # About(k, f)
      /\ Ask("objects") # About(k, f)
      /\ \A r : r.kind \in {"list", "listing"} => r # About(k, f)
  <2>1. About(k, f).kind = k /\ About(k, f).file = f BY DEF About
  <2>2. /\ About("metadata", cur_file).file = cur_file
        /\ About("metascan", cur_file).file = cur_file
        /\ Ask("objects").kind = "objects"
    BY DEF About, Ask
  <2> QED BY <2>1, <2>2
<1>4. Awaited(cur_file) => Awaited(cur_file)'
  BY <1>1, <1>3 DEF Awaited, Under, Refreshing
<1>5. DetailInv' BY <1>4, DetailFrame DEF FileInv
<1>6. ListingsOld' BY <1>2 DEF FileInv, ListingsOld
<1> QED BY <1>5, <1>6 DEF FileInv, DisksOld, ScannedHas, KnownRight

(* One about the file that is selected settles what is shown. *)
LEMMA GotKeeps ==
  ASSUME NEW f \in Files, FileInv, FileTypes, cur_file = f, cur_file # None,
         f \notin Unscannable, Got(f), scanned' \cap Unscannable = {},
         \A r \in DOMAIN pending' : r.kind = "listing" => r \in DOMAIN pending,
         UNCHANGED <<disk, tree, cur_file, connected, events>>
  PROVE  FileInv'
<1>1. /\ metadata' = [metadata EXCEPT ![f] = disk[f]]
      /\ details' = [file |-> f, version |-> disk[f], state |-> "shown"]
  BY DEF Got
<1>2. tree[f] # 0 BY DEF FileInv, DetailInv
<1>3. metadata'[f] = disk[f] /\ \A g \in Files \ {f} : metadata'[g] = metadata[g]
  BY <1>1 DEF FileTypes
<1>4. KnownRight(metadata)'
  BY <1>2, <1>3 DEF FileInv, KnownRight
<1>5. Rightly(f)' BY <1>1 DEF Rightly
<1>6. DetailInv' BY <1>1, <1>2, <1>5 DEF DetailInv, Rightly
<1>7. DisksOld' /\ ListingsOld' /\ ScannedHas'
  BY DEF FileInv, DisksOld, ListingsOld, ScannedHas
<1> QED BY <1>4, <1>6, <1>7 DEF FileInv

LEMMA GotMetadataKeeps ==
  ASSUME NEW f \in Files, FileInv, FileTypes, ViewTypes, WireTypes, GotMetadata(f)
  PROVE  FileInv'
<1>1. Goes({About("metadata", f)}, Rescan(f)) BY GotMetadataGoes DEF WireTypes
<1>2. \A r \in Rescan(f) : r.kind # "listing" BY DEF Rescan, About
<1>3. UNCHANGED <<disk, tree, scanned, cur_file, connected, events>>
  BY DEF GotMetadata, printer, list, counts
<1>4. scanned' \cap Unscannable = {} BY <1>3 DEF FileInv, ScannedHas
<1>5. CASE cur_file # f
  <2>1. UNCHANGED <<metadata, details>> BY <1>5 DEF GotMetadata, Got
  <2> QED BY <1>1, <1>2, <1>3, <1>4, <1>5, <2>1, LateReplyKeeps
<1>6. CASE cur_file = f /\ f \in scanned
  <2>1. Got(f) BY <1>6 DEF GotMetadata
  <2>2. f \notin Unscannable BY <1>6 DEF FileInv, ScannedHas
  <2>3. cur_file # None BY <1>6, PrintAssumption DEF PrintAssumption
  <2>4. \A r \in DOMAIN pending' : r.kind = "listing" => r \in DOMAIN pending
    BY <1>1, <1>2 DEF Goes, Moves
  <2> QED BY <1>3, <1>4, <1>6, <2>1, <2>2, <2>3, <2>4, GotKeeps
<1>7. CASE cur_file = f /\ f \notin scanned
  <2>1. UNCHANGED <<metadata, details>> BY <1>7 DEF GotMetadata
  <2>2. About("metascan", f) \in DOMAIN pending'
    BY <1>1, <1>7 DEF Goes, Moves, Rescan
  <2>3. Awaited(f)' BY <2>2 DEF Awaited, Under
  <2>4. Awaited(cur_file)' BY <1>3, <1>7, <2>3 DEF Awaited
  <2>5. DetailInv' BY <1>3, <2>1, <2>4, DetailFrame DEF FileInv
  <2>6. \A r \in DOMAIN pending' : r.kind = "listing" => r \in DOMAIN pending
    BY <1>1, <1>2 DEF Goes, Moves
  <2> QED BY <1>3, <2>1, <2>5, <2>6, VersionsFrame DEF FileInv
<1> QED BY <1>5, <1>6, <1>7

LEMMA GotMetascanKeeps ==
  ASSUME NEW f \in Files, FileInv, FileTypes, ViewTypes, WireTypes, GotMetascan(f)
  PROVE  FileInv'
<1>1. Goes({About("metascan", f)}, {}) BY GotMetascanGoes DEF WireTypes
<1>2. \A r \in {} : r.kind # "listing" OBVIOUS
<1>3. UNCHANGED <<disk, tree, cur_file, connected, events>>
  BY DEF GotMetascan, list, counts
<1>4. scanned' \cap Unscannable = {} BY DEF GotMetascan, FileInv, ScannedHas
<1>5. \A r \in DOMAIN pending' : r.kind = "listing" => r \in DOMAIN pending
  BY <1>1 DEF Goes, Moves
<1>6. CASE cur_file # f
  <2>1. UNCHANGED <<metadata, details>> BY <1>6 DEF GotMetascan, Got
  <2> QED BY <1>1, <1>2, <1>3, <1>4, <1>6, <2>1, LateReplyKeeps
<1>7. CASE cur_file = f /\ disk[f] # 0 /\ f \notin Unscannable
  <2>1. Got(f) BY <1>7 DEF GotMetascan
  <2>2. cur_file # None BY <1>7, PrintAssumption DEF PrintAssumption
  <2> QED BY <1>3, <1>4, <1>5, <1>7, <2>1, <2>2, GotKeeps
<1>8. CASE cur_file = f /\ ~(disk[f] # 0 /\ f \notin Unscannable)
  <2>1. /\ details' = [details EXCEPT !.state = "missing", !.version = 0]
        /\ UNCHANGED <<scanned, metadata>>
    BY <1>8 DEF GotMetascan
  <2>2. details'.state = "missing" /\ details'.file = details.file
    BY <2>1 DEF ViewTypes
  <2>3. cur_file # None BY <1>8, PrintAssumption DEF PrintAssumption
  <2>4. tree[f] # 0 /\ details.file = f BY <1>8, <2>3 DEF FileInv, DetailInv
  <2>5. tree[f] = disk[f] => f \in Unscannable BY <1>8, <2>4
  <2>6. DetailInv'
    BY <1>3, <1>8, <2>2, <2>4, <2>5 DEF DetailInv, Rightly
  <2> QED BY <1>3, <1>5, <2>1, <2>6, VersionsFrame DEF FileInv
<1> QED BY <1>6, <1>7, <1>8

LEMMA FileKept ==
  ASSUME FileInv, FileTypes, ViewTypes, WireTypes, Next
  PROVE  FileInv'
<1> USE DEF printer, list, choice, refresh, spools, prompt, stack, counts,
        history, Untapped
<1>1. ASSUME NEW f \in Files, WriteFile(f) PROVE FileInv'
  BY <1>1, WriteFileKeeps
<1>2. ASSUME NEW f \in Files, DeleteFile(f) PROVE FileInv'
  BY <1>2, DeleteFileKeeps
<1>3. CASE PrintChanges
  <2>1. events' = events + 1 BY <1>3, HappensCounts DEF PrintChanges
  <2> QED BY <1>3, <2>1, FileFrame DEF PrintChanges
<1>4. ASSUME NEW s \in Spools \cup {None}, SpoolChanges(s) PROVE FileInv'
  <2>1. events' = events + 1 BY <1>4, HappensCounts DEF SpoolChanges
  <2> QED BY <1>4, <2>1, FileFrame DEF SpoolChanges
<1>5. CASE OnOpen
  <2>1. DOMAIN pending' = {Ask("objects")} BY <1>5, OnOpenGoes
  <2>2. Under(Ask("objects"))' /\ Ask("objects").kind = "objects"
    BY <2>1 DEF Under, Ask
  <2>3. Awaited(cur_file)' BY <2>2 DEF Awaited
  <2>4. UNCHANGED <<disk, tree, scanned, metadata, cur_file, details, events>>
    BY <1>5 DEF OnOpen
  <2>5. DetailInv' BY <2>3, <2>4 DEF FileInv, DetailInv
  <2>6. \A r \in DOMAIN pending' : r.kind = "listing" => r \in DOMAIN pending
    BY <2>1, <2>2
  <2> QED BY <2>4, <2>5, <2>6, VersionsFrame DEF FileInv
<1>6. CASE OnClose
  <2>1. DOMAIN pending' = {} /\ ~connected' BY <1>6, OnCloseGoes
  <2>2. UNCHANGED <<disk, tree, scanned, metadata, cur_file, details, events>>
    BY <1>6 DEF OnClose
  <2>3. DetailInv' BY <2>1, <2>2 DEF FileInv, DetailInv
  <2>4. \A r \in DOMAIN pending' : r.kind = "listing" => r \in DOMAIN pending
    BY <2>1
  <2> QED BY <2>2, <2>3, <2>4, VersionsFrame DEF FileInv
<1>7. CASE ObjectList
  <2>1. Goes({Ask("objects")}, {Ask("list"), Ask("subscribe"), Ask("info")})
    BY <1>7, ObjectListGoes DEF WireTypes
  <2>2. Ask("list") \in DOMAIN pending' BY <2>1 DEF Goes, Moves
  <2>3. Refreshing(pending)' BY <2>2 DEF Refreshing, Ask
  <2>4. \A r \in DOMAIN pending' : r.kind = "listing" => r \in DOMAIN pending
    BY <2>1 DEF Goes, Moves, Ask
  <2> QED BY <1>7, <2>3, <2>4, RefreshKeepsFile DEF ObjectList
<1>8. CASE Snapshot
  <2>1. Goes({Ask("subscribe")}, {}) BY <1>8, SnapshotGoes DEF WireTypes
  <2>2. /\ \A q \in {Ask("subscribe")} : ~Telling(q)
        /\ \A q \in {} : q.kind # "listing"
    BY DEF Telling, Ask
  <2>3. UNCHANGED <<disk, tree, scanned, metadata, cur_file, details, connected,
                    events>>
    BY <1>8 DEF Snapshot
  <2> QED BY <2>1, <2>2, <2>3, OthersKeepFile
<1>9. CASE ServerInfo
  <2>1. Goes({Ask("info")}, SpoolAsks) BY <1>9, ServerInfoGoes DEF WireTypes
  <2>2. /\ \A q \in {Ask("info")} : ~Telling(q)
        /\ \A q \in SpoolAsks : q.kind # "listing"
    BY DEF Telling, Ask, SpoolAsks
  <2>3. UNCHANGED <<disk, tree, scanned, metadata, cur_file, details, connected,
                    events>>
    BY <1>9 DEF ServerInfo
  <2> QED BY <2>1, <2>2, <2>3, OthersKeepFile
<1>10. CASE SpoolId
  <2>1. Goes({Ask("spool")}, {}) BY <1>10, SpoolIdGoes DEF WireTypes
  <2>2. /\ \A q \in {Ask("spool")} : ~Telling(q)
        /\ \A q \in {} : q.kind # "listing"
    BY DEF Telling, Ask
  <2>3. UNCHANGED <<disk, tree, scanned, metadata, cur_file, details, connected,
                    events>>
    BY <1>10 DEF SpoolId
  <2> QED BY <2>1, <2>2, <2>3, OthersKeepFile
<1>11. CASE ListRead BY <1>11, ListReadKeepsFile
<1>12. ASSUME NEW r \in DOMAIN pending, r.kind = "listing",
            FileList(r.disk)
      PROVE  FileInv'
  BY <1>12, FileListKeepsFile
<1>13. ASSUME NEW f \in Files, GotMetadata(f) PROVE FileInv'
  BY <1>13, GotMetadataKeeps
<1>14. ASSUME NEW f \in Files, GotMetascan(f) PROVE FileInv'
  BY <1>14, GotMetascanKeeps
<1>15. ASSUME NEW f \in Files, Started(f) PROVE FileInv'
  <2>1. Goes({About("start", f)}, {}) BY <1>15, StartedGoes DEF WireTypes
  <2>2. /\ \A q \in {About("start", f)} : ~Telling(q)
        /\ \A q \in {} : q.kind # "listing"
    BY DEF Telling, About
  <2>3. UNCHANGED <<disk, tree, scanned, metadata, cur_file, details, connected,
                    events>>
    BY <1>15 DEF Started
  <2> QED BY <2>1, <2>2, <2>3, OthersKeepFile
<1>16. ASSUME NEW s \in Spools, Posted(s) PROVE FileInv'
  <2>1. Goes({Post(s)}, {}) BY <1>16, PostedGoes DEF WireTypes
  <2>2. /\ \A q \in {Post(s)} : ~Telling(q)
        /\ \A q \in {} : q.kind # "listing"
    BY DEF Telling, Post
  <2>3. UNCHANGED <<disk, tree, scanned, metadata, cur_file, details, connected,
                    events>>
    BY <1>16 DEF Posted
  <2> QED BY <2>1, <2>2, <2>3, OthersKeepFile
<1>17. CASE OpenFiles
  <2>1. Shows(tree, cur_file, metadata, {}, {Ask("list")})
    BY <1>17, OpenFilesDoes DEF WireTypes
  <2>2. \A r \in {Ask("list")} : r.kind # "listing" BY DEF Ask
  <2>3. UNCHANGED <<tree, disk, scanned, connected, events>>
    BY <1>17 DEF OpenFiles, Tap
  <2> QED BY <2>1, <2>2, <2>3, BrowsingKeepsFile
<1>18. CASE Reload
  <2>1. Goes({}, {Ask("list")}) BY <1>18, ReloadGoes DEF WireTypes
  <2>2. /\ \A q \in {} : ~Telling(q)
        /\ \A q \in {Ask("list")} : q.kind # "listing"
    BY DEF Telling, Ask
  <2>3. UNCHANGED <<disk, tree, scanned, metadata, cur_file, details, connected,
                    events>>
    BY <1>18 DEF Reload
  <2> QED BY <2>1, <2>2, <2>3, OthersKeepFile
<1>19. CASE SortTap
  <2>1. Shows(tree, cur_file, metadata, {}, {})
    BY <1>19, SortTapDoes DEF WireTypes
  <2>2. \A r \in {} : r.kind # "listing" OBVIOUS
  <2>3. UNCHANGED <<tree, disk, scanned, connected, events>>
    BY <1>19 DEF SortTap, Tap
  <2> QED BY <2>1, <2>2, <2>3, BrowsingKeepsFile
<1>20. ASSUME NEW f \in Files, TapFile(f) PROVE FileInv'
  <2>1. Shows(tree, cur_file, metadata, {}, {})
    BY <1>20, TapFileDoes DEF WireTypes
  <2>2. \A r \in {} : r.kind # "listing" OBVIOUS
  <2>3. UNCHANGED <<tree, disk, scanned, connected, events>>
    BY <1>20 DEF TapFile, Tap
  <2> QED BY <2>1, <2>2, <2>3, BrowsingKeepsFile
<1>21. ASSUME NEW dir \in {Root} \cup {Folder[f] : f \in Files}, TapFolder(dir)
      PROVE  FileInv'
  <2>1. Shows(tree, cur_file, metadata, {}, {})
    BY <1>21, TapFolderDoes DEF WireTypes
  <2>2. \A r \in {} : r.kind # "listing" OBVIOUS
  <2>3. UNCHANGED <<tree, disk, scanned, connected, events>>
    BY <1>21 DEF TapFolder, Tap
  <2> QED BY <2>1, <2>2, <2>3, BrowsingKeepsFile
<1>22. CASE TapPrint
  <2>1. Goes({}, {}) \/ Goes({}, StartAsks(cur_file))
    BY <1>22, TapPrintGoes DEF WireTypes
  <2>2. \A q \in StartAsks(cur_file) : q.kind # "listing"
    BY DEF About, StartAsks
  <2>3. (\A q \in {} : ~Telling(q)) /\ (\A q \in {} : q.kind # "listing") OBVIOUS
  <2>4. UNCHANGED <<disk, tree, scanned, metadata, cur_file, details, connected,
                    events>>
    BY <1>22 DEF TapPrint
  <2> QED BY <2>1, <2>2, <2>3, <2>4, OthersKeepFile
<1>23. CASE TapYes
  <2>1. Goes({}, StartAsks(pending_print_path)) BY <1>23, TapYesGoes DEF WireTypes
  <2>2. /\ \A q \in {} : ~Telling(q)
        /\ \A q \in StartAsks(pending_print_path) : q.kind # "listing"
    BY DEF Telling, About, StartAsks
  <2>3. UNCHANGED <<disk, tree, scanned, metadata, cur_file, details, connected,
                    events>>
    BY <1>23 DEF TapYes
  <2> QED BY <2>1, <2>2, <2>3, OthersKeepFile
<1>24. CASE ReloadSpools
  <2>1. Goes({}, {Ask("spool")}) BY <1>24, ReloadSpoolsGoes DEF WireTypes
  <2>2. /\ \A q \in {} : ~Telling(q)
        /\ \A q \in {Ask("spool")} : q.kind # "listing"
    BY DEF Telling, Ask
  <2>3. UNCHANGED <<disk, tree, scanned, metadata, cur_file, details, connected,
                    events>>
    BY <1>24 DEF ReloadSpools
  <2> QED BY <2>1, <2>2, <2>3, OthersKeepFile
<1>25. ASSUME NEW s \in Spools, TapSpool(s) PROVE FileInv'
  <2>1. Goes({}, {Post(s)}) BY <1>25, TapSpoolGoes DEF WireTypes
  <2>2. /\ \A q \in {} : ~Telling(q)
        /\ \A q \in {Post(s)} : q.kind # "listing"
    BY DEF Telling, Post
  <2>3. UNCHANGED <<disk, tree, scanned, metadata, cur_file, details, connected,
                    events>>
    BY <1>25 DEF TapSpool
  <2> QED BY <2>1, <2>2, <2>3, OthersKeepFile
<1>26. CASE Status \/ Back \/ BackStatus \/ TapNo \/ OpenSpools
  BY <1>26, FileFrame DEF Status, Back, BackStatus, TapNo, OpenSpools
<1>27. CASE BackSpools
  BY <1>27, FileFrame DEF BackSpools
<1> QED BY <1>1, <1>2, <1>3, <1>4, <1>5, <1>6, <1>7, <1>8, <1>9, <1>10, <1>11,
           <1>12, <1>13, <1>14, <1>15, <1>16, <1>17, <1>18, <1>19, <1>20,
           <1>21, <1>22, <1>23, <1>24, <1>25, <1>26, <1>27 DEF Next

-----------------------------------------------------------------------------
(* The screens and the print that waits *)

FilesBelow  == \A t \in open \ {"files"} :
                 "files" \in open => <<t, "files">> \in over
OnePanel    == ~("dialog" \in open /\ "spools" \in open)
ChoiceFor   == select_for_print => "spools" \in open /\ pending_print_path # None
QuestionFor == "dialog" \in open => pending_print_path # None
TappedWaits == pending_print_path # None => pending_print_path = tapped

StackInv == FilesBelow /\ OnePanel /\ ChoiceFor /\ QuestionFor /\ TappedWaits

LEMMA StackInvFrame ==
  ASSUME StackInv, UNCHANGED <<stack, select_for_print, pending_print_path, tapped>>
  PROVE  StackInv'
BY DEF StackInv, FilesBelow, OnePanel, ChoiceFor, QuestionFor, TappedWaits, stack

LEMMA LowerBelow ==
  ASSUME StackTypes, FilesBelow, NEW ss, Lower(ss)
  PROVE  FilesBelow'
<1>1. open' \subseteq open BY LowerIs
<1>2. \A s, t \in open' : <<s, t>> \in over' <=> <<s, t>> \in over BY LowerIs
<1> QED BY <1>1, <1>2 DEF FilesBelow

LEMMA RaiseBelow ==
  ASSUME StackTypes, FilesBelow, NEW s \in Screens \ {"files"}, NEW ss, Raise(s, ss)
  PROVE  FilesBelow'
<1>1. /\ open' = (open \ ss) \cup {s}
      /\ \A t \in open' \ {s} : <<s, t>> \in over' /\ <<t, s>> \notin over'
      /\ \A t, u \in open' \ {s} : <<t, u>> \in over' <=> <<t, u>> \in over
  BY RaiseIs
<1> SUFFICES ASSUME NEW t \in open' \ {"files"}, "files" \in open'
             PROVE  <<t, "files">> \in over'
  BY DEF FilesBelow
<1>2. CASE t = s BY <1>1, <1>2
<1>3. CASE t # s
  <2>1. t \in open \ {"files"} /\ "files" \in open BY <1>1, <1>3
  <2>2. <<t, "files">> \in over BY <2>1 DEF FilesBelow
  <2> QED BY <1>1, <1>3, <2>2
<1> QED BY <1>2, <1>3

(* The file browser takes taps only when nothing lies over it. *)
LEMMA FilesAlone ==
  ASSUME StackTypes, FilesBelow, OnTop("files")
  PROVE  open = {"files"}
<1> SUFFICES ASSUME NEW t \in open, t # "files" PROVE FALSE
  BY DEF OnTop
<1>1. <<t, "files">> \in over BY DEF FilesBelow, OnTop
<1>2. <<"files", t>> \in over BY DEF OnTop
<1> QED BY <1>1, <1>2 DEF StackTypes, OnTop

(* A panel comes to the front, or some close, with no other question.      *)
LEMMA OthersKeepStack ==
  ASSUME StackInv, StackTypes,
         \/ \E ss : Lower(ss) /\ "spools" \notin ss
         \/ Raise("status", {}) \/ UNCHANGED stack,
         UNCHANGED <<select_for_print, pending_print_path, tapped>>
  PROVE  StackInv'
<1>1. CASE UNCHANGED stack BY <1>1, StackInvFrame
<1>2. CASE Raise("status", {})
  <2>1. FilesBelow' BY <1>2, RaiseBelow, ScreensAre DEF StackInv
  <2>2. open' = open \cup {"status"} BY <1>2, RaiseIs, ScreensAre
  <2> QED BY <2>1, <2>2 DEF StackInv, OnePanel, ChoiceFor, QuestionFor, TappedWaits
<1>3. CASE \E ss : Lower(ss) /\ "spools" \notin ss
  <2>1. PICK ss : Lower(ss) /\ "spools" \notin ss BY <1>3
  <2>2. FilesBelow' BY <2>1, LowerBelow DEF StackInv
  <2>3. open' = open \ ss BY <2>1, LowerIs
  <2> QED BY <2>1, <2>2, <2>3 DEF StackInv, OnePanel, ChoiceFor, QuestionFor,
             TappedWaits
<1> QED BY <1>1, <1>2, <1>3

LEMMA StackKept ==
  ASSUME StackInv, StackTypes, FileInv, Next
  PROVE  StackInv'
<1> USE DEF printer, list, choice, refresh, spools, prompt, stack, counts,
        history, Untapped
<1>1. CASE Status
  <2>1. ASSUME Lower({"status"}) PROVE \E ss : Lower(ss) /\ "spools" \notin ss
    BY <2>1
  <2>2. \/ \E ss : Lower(ss) /\ "spools" \notin ss
        \/ Raise("status", {}) \/ UNCHANGED stack
    BY <1>1, <2>1 DEF Status
  <2> QED BY <1>1, <2>2, OthersKeepStack DEF Status
<1>2. CASE OpenFiles
  <2>1. open = {} /\ Raise("files", {}) BY <1>2 DEF OpenFiles
  <2>2. open' = {"files"} BY <2>1, RaiseIs, ScreensAre
  <2>3. UNCHANGED <<select_for_print, pending_print_path, tapped>>
    BY <1>2 DEF OpenFiles
  <2> QED BY <2>1, <2>2, <2>3 DEF StackInv, FilesBelow, OnePanel, ChoiceFor,
             QuestionFor, TappedWaits
<1>3. CASE Back
  <2>1. Lower({"files", "status"}) BY <1>3 DEF Back
  <2>2. \E ss : Lower(ss) /\ "spools" \notin ss BY <2>1
  <2> QED BY <1>3, <2>2, OthersKeepStack DEF Back
<1>4. CASE BackStatus
  <2>1. Lower({"status"}) BY <1>4 DEF BackStatus
  <2>2. \E ss : Lower(ss) /\ "spools" \notin ss BY <2>1
  <2> QED BY <1>4, <2>2, OthersKeepStack DEF BackStatus
<1>5. CASE TapPrint
  <2>1. open = {"files"} BY <1>5, FilesAlone DEF TapPrint, StackInv
  <2>2. ~select_for_print' BY <1>5, <2>1 DEF TapPrint, StackInv, ChoiceFor
  <2>3. CASE spoolman_enabled
    <3>1. /\ Raise("dialog", {}) /\ pending_print_path' = cur_file
          /\ cur_file # None /\ tapped' = details.file
      BY <1>5, <2>3 DEF TapPrint, ShowFilamentDialog
    <3>2. tapped' = cur_file BY <3>1 DEF FileInv, DetailInv
    <3>3. open' = {"files", "dialog"} BY <2>1, <3>1, RaiseIs, ScreensAre
    <3>4. FilesBelow' BY <3>1, RaiseBelow, ScreensAre DEF StackInv
    <3> QED BY <2>2, <3>1, <3>2, <3>3, <3>4 DEF StackInv, OnePanel, ChoiceFor,
               QuestionFor, TappedWaits
  <2>4. CASE ~spoolman_enabled
    <3>1. Raise("status", {"dialog"}) /\ pending_print_path' = None
      BY <1>5, <2>4 DEF TapPrint, StartPendingPrint
    <3>2. open' = {"files", "status"} BY <2>1, <3>1, RaiseIs, ScreensAre
    <3>3. FilesBelow' BY <3>1, RaiseBelow, ScreensAre DEF StackInv
    <3> QED BY <2>2, <3>1, <3>2, <3>3 DEF StackInv, OnePanel, ChoiceFor,
               QuestionFor, TappedWaits
  <2> QED BY <2>3, <2>4
<1>6. CASE TapYes
  <2>1. "dialog" \in open BY <1>6 DEF TapYes, OnTop
  <2>2. ~select_for_print' BY <1>6, <2>1 DEF TapYes, StackInv, OnePanel, ChoiceFor
  <2>3. Raise("status", {"dialog"}) /\ pending_print_path' = None
    BY <1>6, <2>1 DEF TapYes, StartPendingPrint, StackInv, QuestionFor
  <2>4. open' = (open \ {"dialog"}) \cup {"status"} BY <2>3, RaiseIs, ScreensAre
  <2>5. FilesBelow' BY <2>3, RaiseBelow, ScreensAre DEF StackInv
  <2> QED BY <2>2, <2>3, <2>4, <2>5 DEF StackInv, OnePanel, ChoiceFor,
             QuestionFor, TappedWaits
<1>7. CASE TapNo
  <2>1. "dialog" \in open /\ Raise("spools", {"dialog"}) BY <1>7 DEF TapNo, OnTop
  <2>2. open' = (open \ {"dialog"}) \cup {"spools"} BY <2>1, RaiseIs, ScreensAre
  <2>3. FilesBelow' BY <2>1, RaiseBelow, ScreensAre DEF StackInv
  <2>4. UNCHANGED <<pending_print_path, tapped>> BY <1>7 DEF TapNo
  <2> QED BY <2>1, <2>2, <2>3, <2>4 DEF StackInv, OnePanel, ChoiceFor,
             QuestionFor, TappedWaits
<1>8. CASE OpenSpools
  <2>1. open = {} /\ Raise("spools", {}) BY <1>8 DEF OpenSpools
  <2>2. open' = {"spools"} BY <2>1, RaiseIs, ScreensAre
  <2>3. UNCHANGED <<select_for_print, pending_print_path, tapped>>
    BY <1>8 DEF OpenSpools
  <2> QED BY <2>1, <2>2, <2>3 DEF StackInv, FilesBelow, OnePanel, ChoiceFor,
             QuestionFor, TappedWaits
<1>9. ASSUME NEW s \in Spools, TapSpool(s) PROVE StackInv'
  <2>1. /\ "spools" \in open /\ ~select_for_print'
        /\ UNCHANGED <<pending_print_path, tapped>>
    BY <1>9 DEF TapSpool, OnTop
  <2>2. CASE select_for_print
    <3>1. Raise("dialog", {"spools"}) BY <1>9, <2>2 DEF TapSpool, ShowFilamentDialog
    <3>2. open' = (open \ {"spools"}) \cup {"dialog"} BY <3>1, RaiseIs, ScreensAre
    <3>3. FilesBelow' BY <3>1, RaiseBelow, ScreensAre DEF StackInv
    <3>4. pending_print_path # None BY <2>2 DEF StackInv, ChoiceFor
    <3> QED BY <2>1, <3>2, <3>3, <3>4 DEF StackInv, OnePanel, ChoiceFor,
               QuestionFor, TappedWaits
  <2>3. CASE ~select_for_print
    <3>1. UNCHANGED stack BY <1>9, <2>3 DEF TapSpool
    <3> QED BY <2>1, <3>1 DEF StackInv, FilesBelow, OnePanel, ChoiceFor,
               QuestionFor, TappedWaits
  <2> QED BY <2>2, <2>3
<1>10. CASE BackSpools
  <2>1. Lower({"spools"}) /\ ~select_for_print' BY <1>10 DEF BackSpools
  <2>2. open' = open \ {"spools"} BY <2>1, LowerIs
  <2>3. FilesBelow' BY <2>1, LowerBelow DEF StackInv
  <2>4. UNCHANGED <<pending_print_path, tapped>> BY <1>10 DEF BackSpools
  <2> QED BY <2>1, <2>2, <2>3, <2>4 DEF StackInv, OnePanel, ChoiceFor,
             QuestionFor, TappedWaits
<1>11. CASE PrintChanges \/ OnOpen \/ OnClose \/ ObjectList \/ Snapshot
  BY <1>11, StackInvFrame DEF PrintChanges, OnOpen, OnClose, ObjectList,
     Snapshot
<1>12. CASE ServerInfo \/ SpoolId \/ ListRead \/ Reload \/ SortTap
  BY <1>12, StackInvFrame DEF ServerInfo, SpoolId, ListRead, Reload, SortTap
<1>13. CASE ReloadSpools
  BY <1>13, StackInvFrame DEF ReloadSpools
<1>14. ASSUME NEW f \in Files,
            \/ WriteFile(f) \/ DeleteFile(f) \/ GotMetadata(f)
            \/ GotMetascan(f) \/ Started(f) \/ TapFile(f)
      PROVE  StackInv'
  BY <1>14, StackInvFrame DEF WriteFile, DeleteFile, GotMetadata, GotMetascan,
     Started, TapFile
<1>15. ASSUME NEW s \in Spools \cup {None}, SpoolChanges(s)
      PROVE  StackInv'
  BY <1>15, StackInvFrame DEF SpoolChanges
<1>16. ASSUME NEW s \in Spools, Posted(s)
      PROVE  StackInv'
  BY <1>16, StackInvFrame DEF Posted
<1>17. ASSUME NEW dir \in {Root} \cup {Folder[f] : f \in Files},
            TapFolder(dir)
      PROVE  StackInv'
  BY <1>17, StackInvFrame DEF TapFolder
<1>18. ASSUME NEW r \in DOMAIN pending, r.kind = "listing", FileList(r.disk)
      PROVE  StackInv'
  BY <1>18, StackInvFrame DEF FileList
<1> QED BY <1>1, <1>2, <1>3, <1>4, <1>5, <1>6, <1>7, <1>8, <1>9, <1>10, <1>11,
           <1>12, <1>13, <1>14, <1>15, <1>16, <1>17, <1>18 DEF Next

-----------------------------------------------------------------------------
(* The spool the question names *)

Spooler(r)  == r.kind \in {"objects", "info", "spool", "post"}
Spooling(p) == \E r \in DOMAIN p : Spooler(r)
Charging    == \E s \in Spools : Under(Post(s))

(* What the panel has heard of the active spool, what it cannot hear, and  *)
(* what the question says while a change of spool is under way             *)
Heard == spoolman_enabled /\ connected => active_id = spool \/ Spooling(pending)
Unset == spool = None => active_id = None \/ Charging
Named == "dialog" \in open =>
           /\ asked = spool \/ (asked \in Spools /\ Under(Post(asked)))
           /\ \A s \in Spools : Under(Post(s)) => s = asked

SpoolInv ==
  /\ spoolman_enabled => Spools # {}
  /\ ~misled => Heard /\ Unset /\ Named

(* Requests that stay, and what they are about *)
SameSpooling ==
  /\ Spooling(pending) => Spooling(pending)'
  /\ \A s \in Spools : Under(Post(s))' <=> Under(Post(s))

LEMMA SpoolsFrame ==
  ASSUME SpoolInv, SameSpooling,
         UNCHANGED <<spoolman_enabled, connected, spool, active_id, asked>>,
         misled => misled', "dialog" \in open' => "dialog" \in open
  PROVE  SpoolInv'
<1>1. Charging' <=> Charging BY DEF Charging, SameSpooling
<1> QED BY <1>1 DEF SpoolInv, Heard, Unset, Named, SameSpooling

LEMMA PostIs == \A s : Spooler(Post(s)) /\ Post(s).spool = s
BY DEF Spooler, Post

LEMMA SpoolInvFrame ==
  ASSUME SpoolInv,
         UNCHANGED <<spoolman_enabled, connected, spool, active_id, asked, misled,
                     pending, open>>
  PROVE  SpoolInv'
BY SpoolsFrame DEF SameSpooling, Under

LEMMA OthersAre ==
  ASSUME NEW gone, NEW come, Goes(gone, come),
         \A r \in gone \cup come : ~Spooler(r)
  PROVE  SameSpooling
<1>1. \A r : Spooler(r) => (r \in DOMAIN pending' <=> r \in DOMAIN pending)
  BY DEF Goes, Moves
<1> QED BY <1>1, PostIs DEF SameSpooling, Spooling, Under

LEMMA OthersKeepSpools ==
  ASSUME SpoolInv, NEW gone, NEW come, Goes(gone, come),
         \A r \in gone \cup come : ~Spooler(r),
         UNCHANGED <<spoolman_enabled, connected, spool, active_id, asked>>,
         misled => misled', "dialog" \in open' => "dialog" \in open
  PROVE  SpoolInv'
BY OthersAre, SpoolsFrame

LEMMA ShowsKeepsSpools ==
  ASSUME SpoolInv, NEW t, NEW selected, NEW data, NEW gone, NEW come,
         Shows(t, selected, data, gone, come),
         \A r \in gone \cup come : ~Spooler(r),
         UNCHANGED <<spoolman_enabled, connected, spool, active_id, asked, misled>>,
         "dialog" \in open' => "dialog" \in open
  PROVE  SpoolInv'
<1>1. CASE \E f, asks :
             Goes(gone, come \cup asks) /\ Selects(f, t, data, asks)
  <2>1. PICK f, asks :
               Goes(gone, come \cup asks) /\ Selects(f, t, data, asks)
    BY <1>1
  <2>2. \A q \in asks : ~Spooler(q) BY <2>1 DEF Selects, About, Spooler
  <2>3. \A q \in gone \cup (come \cup asks) : ~Spooler(q) BY <2>2
  <2> QED BY <2>1, <2>3, OthersKeepSpools
<1>2. CASE Goes(gone, come) BY <1>2, OthersKeepSpools
<1> QED BY <1>1, <1>2 DEF Shows

LEMMA ChangesKeepSpools ==
  ASSUME SpoolInv, Wire, FilelistChanged,
         UNCHANGED <<spoolman_enabled, connected, spool, active_id, asked, misled,
                     stack>>
  PROVE  SpoolInv'
<1>1. CASE UNCHANGED pending BY <1>1, SpoolInvFrame DEF stack
<1>2. CASE Goes({}, {Ask("list")})
  <2>1. \A r \in {} \cup {Ask("list")} : ~Spooler(r) BY DEF Ask, Spooler
  <2> QED BY <1>2, <2>1, OthersKeepSpools DEF stack
<1> QED BY <1>1, <1>2, FilelistChangedDoes

LEMMA OnOpenKeepsSpools ==
  ASSUME SpoolInv, Wire, OnOpen
  PROVE  SpoolInv'
<1>1. DOMAIN pending' = {Ask("objects")} /\ DOMAIN pending = {}
  BY OnOpenGoes DEF OnOpen, Wire
<1>2. Spooling(pending)' BY <1>1 DEF Spooling, Spooler, Ask
<1>3. \A s : ~Under(Post(s)) /\ ~Under(Post(s))' BY <1>1 DEF Under, Post, Ask
<1>4. ~Charging /\ ~Charging' BY <1>3 DEF Charging
<1>5. UNCHANGED <<spoolman_enabled, spool, active_id, asked, misled, open>>
  BY DEF OnOpen, printer, spools, prompt, history, stack
<1> QED BY <1>2, <1>3, <1>4, <1>5 DEF SpoolInv, Heard, Unset, Named

LEMMA OnCloseKeepsSpools ==
  ASSUME SpoolInv, OnClose
  PROVE  SpoolInv'
<1>1. DOMAIN pending' = {} /\ ~connected' BY OnCloseGoes
<1>2. UNCHANGED <<spoolman_enabled, spool, active_id, asked, open>>
  BY DEF OnClose, printer, spools, prompt, stack
<1>3. \A s : ~Under(Post(s))' BY <1>1 DEF Under
<1>4. ~misled' => ~misled /\ \A s : ~Under(Post(s)) BY DEF OnClose, Under, Post
<1>5. ~Charging' /\ (~misled' => ~Charging) BY <1>3, <1>4 DEF Charging
<1>6. Heard' BY <1>1 DEF Heard
<1>7. ~misled' => Unset' BY <1>2, <1>4, <1>5 DEF SpoolInv, Unset
<1>8. ~misled' => Named' BY <1>2, <1>3, <1>4 DEF SpoolInv, Named
<1> QED BY <1>2, <1>6, <1>7, <1>8 DEF SpoolInv

(* The handshake asks for the spool in the end. *)
LEMMA HandshakeKeepsSpools ==
  ASSUME SpoolInv, NEW gone, NEW come, Goes(gone, come),
         \A r \in gone \cup come : r.kind # "post",
         spoolman_enabled' => \E r \in come : Spooler(r),
         spoolman_enabled' => Spools # {},
         UNCHANGED <<connected, spool, active_id, asked, misled, open>>
  PROVE  SpoolInv'
<1>1. \A s : Post(s).kind = "post" BY DEF Post
<1>2. \A s \in Spools : Under(Post(s))' <=> Under(Post(s))
  BY <1>1 DEF Under, Goes, Moves
<1>3. Charging' <=> Charging BY <1>2 DEF Charging
<1>4. spoolman_enabled' => Spooling(pending)' BY DEF Spooling, Goes, Moves
<1>5. Heard' BY <1>4 DEF Heard
<1>6. Unset => Unset' BY <1>3 DEF Unset
<1>7. Named => Named' BY <1>2 DEF Named
<1> QED BY <1>5, <1>6, <1>7 DEF SpoolInv

LEMMA SpoolIdKeepsSpools ==
  ASSUME SpoolInv, Wire, SpoolId
  PROVE  SpoolInv'
<1>1. connected /\ Goes({Ask("spool")}, {}) BY SpoolIdGoes
<1>2. \A s : Post(s) # Ask("spool") BY DEF Post, Ask
<1>3. \A s \in Spools : Under(Post(s))' <=> Under(Post(s))
  BY <1>1, <1>2 DEF Under, Goes, Moves
<1>4. Charging' <=> Charging BY <1>3 DEF Charging
<1>5. UNCHANGED <<spoolman_enabled, connected, spool, asked, misled, open>>
  BY DEF SpoolId, printer, prompt, history, stack
<1>6. Charging' => Spooling(pending)' BY PostIs DEF Charging, Under, Spooling
<1>7. Hear(spool) BY DEF SpoolId
<1>8. ~misled => Named' BY <1>3, <1>5 DEF SpoolInv, Named
<1>9. CASE spool = None
  <2>1. active_id' = active_id BY <1>7, <1>9 DEF Hear
  <2>2. ~misled => active_id = None \/ Charging BY <1>9 DEF SpoolInv, Unset
  <2> QED BY <1>4, <1>5, <1>6, <1>8, <1>9, <2>1, <2>2 DEF SpoolInv, Heard, Unset
<1>10. CASE spool # None
  <2>1. active_id' = spool BY <1>1, <1>7, <1>10 DEF Hear
  <2> QED BY <1>5, <1>8, <1>10, <2>1 DEF SpoolInv, Heard, Unset
<1> QED BY <1>9, <1>10

LEMMA PostedKeepsSpools ==
  ASSUME NEW s \in Spools, SpoolInv, Wire, Posted(s)
  PROVE  SpoolInv'
<1>1. connected /\ Goes({Post(s)}, {}) BY PostedGoes
<1>2. UNCHANGED <<spoolman_enabled, connected, asked, open>>
  BY DEF Posted, prompt, stack
<1>3. CASE misled' = TRUE BY <1>2, <1>3 DEF SpoolInv
<1>4. CASE spool' = s /\ Hear(s) /\ UNCHANGED misled
  <2>1. s # None BY PrintAssumption DEF PrintAssumption
  <2>2. active_id' = s BY <1>1, <1>4, <2>1 DEF Hear
  <2>3. Under(Post(s)) BY DEF Posted, Reply, Under, Post
  <2>4. \A q \in Spools : Under(Post(q))' => Under(Post(q))
    BY <1>1 DEF Under, Goes, Moves
  <2>5. Named => Named' BY <1>2, <1>4, <2>3, <2>4 DEF Named
  <2>6. Heard' /\ Unset' BY <1>4, <2>1, <2>2 DEF Heard, Unset
  <2> QED BY <1>2, <1>4, <2>5, <2>6 DEF SpoolInv
<1> QED BY <1>3, <1>4 DEF Posted

(* The question names the spool the panel has heard of, as nothing is      *)
(* under way that would tell of another.                                   *)
LEMMA TapPrintKeepsSpools ==
  ASSUME SpoolInv, StackTypes, Wire, TapPrint
  PROVE  SpoolInv'
<1>1. UNCHANGED <<spoolman_enabled, connected, spool, active_id>>
  BY DEF TapPrint, Untapped, printer, spools
<1>2. CASE spoolman_enabled
  <2>1. connected /\ UNCHANGED pending BY <1>2, TapPrintGoes
  <2>2. asked' = active_id /\ misled' = (misled \/ Spooling(pending))
    BY <1>2 DEF TapPrint, ShowFilamentDialog, Spooling, Spooler
  <2>3. ~misled' => ~misled /\ ~Spooling(pending) BY <2>2
  <2>4. ~misled' => active_id = spool BY <1>2, <2>1, <2>3 DEF SpoolInv, Heard
  <2>5. \A s : Under(Post(s))' <=> Under(Post(s)) BY <2>1 DEF Under
  <2>6. ~misled' => \A s : ~Under(Post(s)) BY <2>3, PostIs DEF Spooling, Under
  <2>7. Charging' <=> Charging BY <2>5 DEF Charging
  <2>8. ~misled' => Heard' /\ Unset'
    BY <1>1, <2>3, <2>4, <2>7 DEF SpoolInv, Heard, Unset
  <2>9. ~misled' => Named' BY <1>1, <2>2, <2>4, <2>5, <2>6 DEF Named
  <2> QED BY <1>1, <2>8, <2>9 DEF SpoolInv
<1>3. CASE ~spoolman_enabled
  <2>1. Goes({}, StartAsks(cur_file)) BY <1>3, TapPrintGoes
  <2>2. \A r \in {} \cup StartAsks(cur_file) : ~Spooler(r)
    BY DEF StartAsks, About, Spooler
  <2>3. StartPendingPrint(cur_file) /\ UNCHANGED <<asked, misled>>
    BY <1>3 DEF TapPrint
  <2>4. Raise("status", {"dialog"}) BY <2>3 DEF StartPendingPrint, TapPrint
  <2>5. "dialog" \in open' => "dialog" \in open BY <2>4, RaiseIs, ScreensAre
  <2> QED BY <1>1, <2>1, <2>2, <2>3, <2>5, OthersKeepSpools
<1> QED BY <1>2, <1>3

(* Another spool is chosen: what is asked next names it.                   *)
LEMMA TapSpoolKeepsSpools ==
  ASSUME NEW s \in Spools, SpoolInv, StackInv, Wire, TapSpool(s)
  PROVE  SpoolInv'
<1>1. connected /\ Goes({}, {Post(s)}) BY TapSpoolGoes
<1>2. Under(Post(s))' BY <1>1 DEF Under, Goes, Moves
<1>3. Charging' BY <1>2 DEF Charging
<1>4. Spooling(pending)' BY <1>2, PostIs DEF Spooling, Under
<1>5. Heard' /\ Unset' BY <1>3, <1>4 DEF Heard, Unset
<1>6. UNCHANGED spoolman_enabled BY DEF TapSpool, Untapped
<1>7. CASE select_for_print
  <2>1. asked' = s /\ misled' = (misled \/ Spooling(pending))
    BY <1>7 DEF TapSpool, ShowFilamentDialog, Spooling, Spooler
  <2>2. ASSUME ~misled', NEW q \in Spools, Under(Post(q))' PROVE q = s
    <3>1. ~Under(Post(q)) BY <2>1, <2>2, PostIs DEF Spooling, Under
    <3>2. Post(q) = Post(s) BY <1>1, <2>2, <3>1 DEF Under, Goes, Moves
    <3> QED BY <3>2, PostIs
  <2>3. ~misled' => Named' BY <1>2, <2>1, <2>2 DEF Named
  <2> QED BY <1>5, <1>6, <2>3 DEF SpoolInv
<1>8. CASE ~select_for_print
  <2>1. "spools" \in open /\ open' = open
    BY <1>8 DEF TapSpool, OnTop, stack
  <2>2. Named' BY <2>1 DEF StackInv, OnePanel, Named
  <2> QED BY <1>5, <1>6, <2>2 DEF SpoolInv
<1> QED BY <1>7, <1>8

LEMMA SpoolKept ==
  ASSUME SpoolInv, StackInv, StackTypes, Wire, Next
  PROVE  SpoolInv'
<1> USE DEF printer, list, choice, refresh, spools, prompt, stack, counts,
        history, Untapped
<1>1. ASSUME NEW f \in Files, WriteFile(f) PROVE SpoolInv'
  BY <1>1, ChangesKeepSpools DEF WriteFile
<1>2. ASSUME NEW f \in Files, DeleteFile(f) PROVE SpoolInv'
  BY <1>2, ChangesKeepSpools DEF DeleteFile
<1>3. CASE Status
  <2>1. "dialog" \in open' => "dialog" \in open
    BY <1>3, LowerIs, RaiseIs, ScreensAre DEF Status
  <2>2. SameSpooling BY <1>3 DEF Status, SameSpooling, Under
  <2> QED BY <1>3, <2>1, <2>2, SpoolsFrame DEF Status
<1>4. ASSUME NEW s \in Spools \cup {None}, SpoolChanges(s) PROVE SpoolInv'
  BY <1>4 DEF SpoolChanges, SpoolInv
<1>5. CASE OnOpen BY <1>5, OnOpenKeepsSpools
<1>6. CASE OnClose BY <1>6, OnCloseKeepsSpools
<1>7. CASE ObjectList
  <2>1. Goes({Ask("objects")}, {Ask("list"), Ask("subscribe"), Ask("info")})
    BY <1>7, ObjectListGoes
  <2>2. \A q \in {Ask("objects")} \cup
                 {Ask("list"), Ask("subscribe"), Ask("info")} : q.kind # "post"
    BY DEF Ask
  <2>3. spoolman_enabled' => Spools # {} BY <1>7 DEF ObjectList, SpoolInv
  <2>4. spoolman_enabled' =>
          \E q \in {Ask("list"), Ask("subscribe"), Ask("info")} : Spooler(q)
    BY <2>3 DEF Ask, Spooler
  <2> QED BY <1>7, <2>1, <2>2, <2>3, <2>4, HandshakeKeepsSpools DEF ObjectList
<1>8. CASE Snapshot
  <2>1. Goes({Ask("subscribe")}, {}) BY <1>8, SnapshotGoes
  <2>2. \A q \in {Ask("subscribe")} \cup {} : ~Spooler(q)
    BY DEF Spooler, Ask
  <2> QED BY <1>8, <2>1, <2>2, OthersKeepSpools DEF Snapshot
<1>9. CASE ServerInfo
  <2>1. Goes({Ask("info")}, SpoolAsks)
    BY <1>9, ServerInfoGoes
  <2>2. \A q \in {Ask("info")} \cup SpoolAsks : q.kind # "post"
    BY DEF Ask, SpoolAsks
  <2>3. spoolman_enabled' => Spools # {} BY <1>9 DEF ServerInfo, SpoolInv
  <2>4. spoolman_enabled' => \E q \in SpoolAsks : Spooler(q)
    BY <2>3 DEF Ask, Spooler, SpoolAsks
  <2> QED BY <1>9, <2>1, <2>2, <2>3, <2>4, HandshakeKeepsSpools DEF ServerInfo
<1>10. CASE SpoolId BY <1>10, SpoolIdKeepsSpools
<1>11. CASE ListRead
  <2>1. Goes({Ask("list")}, {Listing(disk)}) BY <1>11, ListReadGoes
  <2>2. \A q \in {Ask("list")} \cup {Listing(disk)} : ~Spooler(q)
    BY DEF Spooler, Ask, Listing
  <2> QED BY <1>11, <2>1, <2>2, OthersKeepSpools DEF ListRead
<1>12. ASSUME NEW r \in DOMAIN pending, r.kind = "listing",
            FileList(r.disk)
      PROVE  SpoolInv'
  <2>1. Shows(r.disk, None, [f \in Files |-> 0], {Listing(r.disk)}, Again)
    BY <1>12, FileListDoes
  <2>2. \A q \in {Listing(r.disk)} \cup Again : ~Spooler(q)
    BY DEF Spooler, Listing, Again, Ask
  <2>3. UNCHANGED <<spoolman_enabled, connected, spool, active_id, asked, misled>>
    BY <1>12 DEF FileList
  <2> QED BY <1>12, <2>1, <2>2, <2>3, ShowsKeepsSpools DEF FileList
<1>13. ASSUME NEW f \in Files, GotMetadata(f) PROVE SpoolInv'
  <2>1. Goes({About("metadata", f)}, Rescan(f)) BY <1>13, GotMetadataGoes
  <2>2. \A q \in {About("metadata", f)} \cup Rescan(f) : ~Spooler(q)
    BY DEF Spooler, About, Rescan
  <2> QED BY <1>13, <2>1, <2>2, OthersKeepSpools DEF GotMetadata
<1>14. ASSUME NEW f \in Files, GotMetascan(f) PROVE SpoolInv'
  <2>1. Goes({About("metascan", f)}, {}) BY <1>14, GotMetascanGoes
  <2>2. \A q \in {About("metascan", f)} \cup {} : ~Spooler(q)
    BY DEF Spooler, About
  <2> QED BY <1>14, <2>1, <2>2, OthersKeepSpools DEF GotMetascan
<1>15. ASSUME NEW f \in Files, Started(f) PROVE SpoolInv'
  <2>1. Goes({About("start", f)}, {}) BY <1>15, StartedGoes
  <2>2. \A q \in {About("start", f)} \cup {} : ~Spooler(q)
    BY DEF Spooler, About
  <2> QED BY <1>15, <2>1, <2>2, OthersKeepSpools DEF Started
<1>16. ASSUME NEW s \in Spools, Posted(s) PROVE SpoolInv'
  BY <1>16, PostedKeepsSpools
<1>17. CASE OpenFiles
  <2>1. Shows(tree, cur_file, metadata, {}, {Ask("list")})
    BY <1>17, OpenFilesDoes
  <2>2. \A q \in {} \cup {Ask("list")} : ~Spooler(q) BY DEF Spooler, Ask
  <2>3. "dialog" \in open' => "dialog" \in open
    BY <1>17, RaiseIs, ScreensAre DEF OpenFiles
  <2>4. UNCHANGED <<spoolman_enabled, connected, spool, active_id, asked, misled>>
    BY <1>17 DEF OpenFiles
  <2> QED BY <1>17, <2>1, <2>2, <2>3, <2>4, ShowsKeepsSpools DEF OpenFiles
<1>18. CASE Reload
  <2>1. Goes({}, {Ask("list")}) BY <1>18, ReloadGoes
  <2>2. \A q \in {} \cup {Ask("list")} : ~Spooler(q)
    BY DEF Spooler, Ask
  <2> QED BY <1>18, <2>1, <2>2, OthersKeepSpools DEF Reload
<1>19. CASE SortTap
  <2>1. Shows(tree, cur_file, metadata, {}, {})
    BY <1>19, SortTapDoes
  <2>2. \A q \in {} \cup {} : ~Spooler(q) BY DEF Spooler
  <2>3. UNCHANGED <<spoolman_enabled, connected, spool, active_id, asked, misled>>
    BY <1>19 DEF SortTap
  <2> QED BY <1>19, <2>1, <2>2, <2>3, ShowsKeepsSpools DEF SortTap
<1>20. ASSUME NEW f \in Files, TapFile(f) PROVE SpoolInv'
  <2>1. Shows(tree, cur_file, metadata, {}, {})
    BY <1>20, TapFileDoes
  <2>2. \A q \in {} \cup {} : ~Spooler(q) BY DEF Spooler
  <2>3. UNCHANGED <<spoolman_enabled, connected, spool, active_id, asked, misled>>
    BY <1>20 DEF TapFile
  <2> QED BY <1>20, <2>1, <2>2, <2>3, ShowsKeepsSpools DEF TapFile
<1>21. ASSUME NEW dir \in {Root} \cup {Folder[f] : f \in Files}, TapFolder(dir)
      PROVE  SpoolInv'
  <2>1. Shows(tree, cur_file, metadata, {}, {})
    BY <1>21, TapFolderDoes
  <2>2. \A q \in {} \cup {} : ~Spooler(q) BY DEF Spooler
  <2>3. UNCHANGED <<spoolman_enabled, connected, spool, active_id, asked, misled>>
    BY <1>21 DEF TapFolder
  <2> QED BY <1>21, <2>1, <2>2, <2>3, ShowsKeepsSpools DEF TapFolder
<1>22. CASE Back
  <2>1. Lower({"files", "status"}) BY <1>22 DEF Back
  <2>2. "dialog" \in open' => "dialog" \in open BY <2>1, LowerIs
  <2>3. SameSpooling BY <1>22 DEF Back, SameSpooling, Under
  <2> QED BY <1>22, <2>2, <2>3, SpoolsFrame DEF Back
<1>23. CASE BackStatus
  <2>1. Lower({"status"}) BY <1>23 DEF BackStatus
  <2>2. "dialog" \in open' => "dialog" \in open BY <2>1, LowerIs
  <2>3. SameSpooling BY <1>23 DEF BackStatus, SameSpooling, Under
  <2> QED BY <1>23, <2>2, <2>3, SpoolsFrame DEF BackStatus
<1>24. CASE TapPrint BY <1>24, TapPrintKeepsSpools
<1>25. CASE TapYes
  <2>1. Goes({}, StartAsks(pending_print_path)) BY <1>25, TapYesGoes
  <2>2. \A q \in {} \cup StartAsks(pending_print_path) : ~Spooler(q)
    BY DEF StartAsks, About, Spooler
  <2>3. "dialog" \in open BY <1>25 DEF TapYes, OnTop
  <2> QED BY <1>25, <2>1, <2>2, <2>3, OthersKeepSpools DEF TapYes
<1>26. CASE TapNo
  <2>1. Raise("spools", {"dialog"}) BY <1>26 DEF TapNo
  <2>2. "dialog" \in open' => "dialog" \in open BY <2>1, RaiseIs, ScreensAre
  <2>3. SameSpooling BY <1>26 DEF TapNo, SameSpooling, Under
  <2> QED BY <1>26, <2>2, <2>3, SpoolsFrame DEF TapNo
<1>27. CASE OpenSpools
  <2>1. Raise("spools", {}) BY <1>27 DEF OpenSpools
  <2>2. "dialog" \in open' => "dialog" \in open BY <2>1, RaiseIs, ScreensAre
  <2>3. SameSpooling BY <1>27 DEF OpenSpools, SameSpooling, Under
  <2> QED BY <1>27, <2>2, <2>3, SpoolsFrame DEF OpenSpools
<1>28. CASE ReloadSpools
  <2>1. Goes({}, {Ask("spool")}) BY <1>28, ReloadSpoolsGoes
  <2>2. \A q : Post(q) # Ask("spool") BY DEF Post, Ask
  <2>3. SameSpooling BY <2>1, <2>2 DEF SameSpooling, Spooling, Under, Goes, Moves
  <2> QED BY <1>28, <2>3, SpoolsFrame DEF ReloadSpools
<1>29. ASSUME NEW s \in Spools, TapSpool(s) PROVE SpoolInv'
  BY <1>29, TapSpoolKeepsSpools
<1>30. CASE BackSpools
  <2>1. Lower({"spools"}) BY <1>30 DEF BackSpools
  <2>2. "dialog" \in open' => "dialog" \in open BY <2>1, LowerIs
  <2>3. SameSpooling BY <1>30 DEF BackSpools, SameSpooling, Under
  <2> QED BY <1>30, <2>2, <2>3, SpoolsFrame DEF BackSpools
<1>31. CASE PrintChanges
  BY <1>31, SpoolInvFrame DEF PrintChanges
<1> QED BY <1>1, <1>2, <1>3, <1>4, <1>5, <1>6, <1>7, <1>8, <1>9, <1>10, <1>11,
           <1>12, <1>13, <1>14, <1>15, <1>16, <1>17, <1>18, <1>19, <1>20,
           <1>21, <1>22, <1>23, <1>24, <1>25, <1>26, <1>27, <1>28, <1>29,
           <1>30, <1>31 DEF Next

-----------------------------------------------------------------------------
(* Prints that start *)

StartsTapped == \A g \in Files : Starts(g) => g = tapped'

LEMMA NoneStart ==
  ASSUME Wire, NEW gone, NEW come, Goes(gone, come), NEW g,
         About("start", g) \notin come
  PROVE  ~Starts(g)
<1> DEFINE r == About("start", g)
<1> SUFFICES ASSUME r \in DOMAIN pending',
                    r \in DOMAIN pending => pending'[r] > pending[r]
             PROVE  FALSE
  BY DEF Starts
<1>1. r \in DOMAIN pending /\ pending'[r] <= pending[r] BY DEF Goes, Moves
<1>2. pending[r] \in Nat BY <1>1, BagCounts DEF Wire
<1>3. IsABag(pending') BY DEF Goes, Moves
<1>4. pending'[r] \in Nat BY <1>3, BagCounts
<1> QED BY <1>1, <1>2, <1>4

LEMMA OthersStartNone ==
  ASSUME Wire, NEW gone, NEW come, Goes(gone, come), \A r \in come : r.kind # "start"
  PROVE  StartsTapped
<1>1. \A g : About("start", g) \notin come BY DEF About
<1> QED BY <1>1, NoneStart DEF StartsTapped

LEMMA StayStartsNone ==
  ASSUME Wire, UNCHANGED pending
  PROVE  StartsTapped
<1>1. Goes({}, {}) BY StayGoes
<1>2. \A r \in {} : r.kind # "start" OBVIOUS
<1> QED BY <1>1, <1>2, OthersStartNone

LEMMA ShowsStartNone ==
  ASSUME Wire, NEW t, NEW selected, NEW data, NEW gone, NEW come,
         Shows(t, selected, data, gone, come), \A r \in come : r.kind # "start"
  PROVE  StartsTapped
<1>1. CASE \E f, asks :
             Goes(gone, come \cup asks) /\ Selects(f, t, data, asks)
  <2>1. PICK f, asks :
               Goes(gone, come \cup asks) /\ Selects(f, t, data, asks)
    BY <1>1
  <2>2. \A q \in come \cup asks : q.kind # "start" BY <2>1 DEF Selects, About
  <2> QED BY <2>1, <2>2, OthersStartNone
<1>2. CASE Goes(gone, come) BY <1>2, OthersStartNone
<1> QED BY <1>1, <1>2 DEF Shows

LEMMA ChangesStartNone ==
  ASSUME Wire, FilelistChanged
  PROVE  StartsTapped
<1>1. CASE UNCHANGED pending BY <1>1, StayStartsNone
<1>2. CASE Goes({}, {Ask("list")})
  <2>1. \A r \in {Ask("list")} : r.kind # "start" BY DEF Ask
  <2> QED BY <1>2, <2>1, OthersStartNone
<1> QED BY <1>1, <1>2, FilelistChangedDoes

(* One file is asked to be printed. *)
LEMMA OneStarts ==
  ASSUME Wire, NEW f, Goes({}, StartAsks(f)), f = tapped'
  PROVE  StartsTapped
<1> SUFFICES ASSUME NEW g \in Files, Starts(g), g # f PROVE FALSE
  BY DEF StartsTapped
<1>1. \A h : About("start", h).file = h BY DEF About
<1>2. About("start", g) \notin StartAsks(f) BY <1>1 DEF StartAsks
<1> QED BY <1>2, NoneStart

LEMMA StepsStartTapped ==
  ASSUME FileInv, StackInv, Wire, Next
  PROVE  StartsTapped
<1> USE DEF printer, list, choice, refresh, spools, prompt, stack, counts,
        history, Untapped
<1>1. ASSUME NEW f \in Files, WriteFile(f) PROVE StartsTapped
  BY <1>1, ChangesStartNone DEF WriteFile
<1>2. ASSUME NEW f \in Files, DeleteFile(f) PROVE StartsTapped
  BY <1>2, ChangesStartNone DEF DeleteFile
<1>3. CASE OnOpen BY <1>3, OnOpenGoes DEF StartsTapped, Starts, About, Ask
<1>4. CASE OnClose BY <1>4, OnCloseGoes DEF StartsTapped, Starts
<1>5. CASE ObjectList
  <2>1. Goes({Ask("objects")}, {Ask("list"), Ask("subscribe"), Ask("info")})
    BY <1>5, ObjectListGoes
  <2>2. \A q \in {Ask("list"), Ask("subscribe"), Ask("info")} : q.kind # "start"
    BY DEF Ask
  <2> QED BY <2>1, <2>2, OthersStartNone
<1>6. CASE Snapshot
  <2>1. Goes({Ask("subscribe")}, {}) BY <1>6, SnapshotGoes
  <2>2. \A q \in {} : q.kind # "start" OBVIOUS
  <2> QED BY <2>1, <2>2, OthersStartNone
<1>7. CASE ServerInfo
  <2>1. Goes({Ask("info")}, SpoolAsks) BY <1>7, ServerInfoGoes
  <2>2. \A q \in SpoolAsks : q.kind # "start" BY DEF SpoolAsks, Ask
  <2> QED BY <2>1, <2>2, OthersStartNone
<1>8. CASE SpoolId
  <2>1. Goes({Ask("spool")}, {}) BY <1>8, SpoolIdGoes
  <2>2. \A q \in {} : q.kind # "start" OBVIOUS
  <2> QED BY <2>1, <2>2, OthersStartNone
<1>9. CASE ListRead
  <2>1. Goes({Ask("list")}, {Listing(disk)}) BY <1>9, ListReadGoes
  <2>2. \A q \in {Listing(disk)} : q.kind # "start" BY DEF Listing
  <2> QED BY <2>1, <2>2, OthersStartNone
<1>10. ASSUME NEW r \in DOMAIN pending, r.kind = "listing",
            FileList(r.disk)
      PROVE  StartsTapped
  <2>1. Shows(r.disk, None, [f \in Files |-> 0], {Listing(r.disk)}, Again)
    BY <1>10, FileListDoes
  <2>2. \A q \in Again : q.kind # "start" BY DEF Again, Ask
  <2> QED BY <2>1, <2>2, ShowsStartNone
<1>11. ASSUME NEW f \in Files, GotMetadata(f) PROVE StartsTapped
  <2>1. Goes({About("metadata", f)}, Rescan(f)) BY <1>11, GotMetadataGoes
  <2>2. \A q \in Rescan(f) : q.kind # "start" BY DEF About, Rescan
  <2> QED BY <2>1, <2>2, OthersStartNone
<1>12. ASSUME NEW f \in Files, GotMetascan(f) PROVE StartsTapped
  <2>1. Goes({About("metascan", f)}, {}) BY <1>12, GotMetascanGoes
  <2>2. \A q \in {} : q.kind # "start" OBVIOUS
  <2> QED BY <2>1, <2>2, OthersStartNone
<1>13. ASSUME NEW f \in Files, Started(f) PROVE StartsTapped
  <2>1. Goes({About("start", f)}, {}) BY <1>13, StartedGoes
  <2>2. \A q \in {} : q.kind # "start" OBVIOUS
  <2> QED BY <2>1, <2>2, OthersStartNone
<1>14. ASSUME NEW s \in Spools, Posted(s) PROVE StartsTapped
  <2>1. Goes({Post(s)}, {}) BY <1>14, PostedGoes
  <2>2. \A q \in {} : q.kind # "start" OBVIOUS
  <2> QED BY <2>1, <2>2, OthersStartNone
<1>15. CASE OpenFiles
  <2>1. Shows(tree, cur_file, metadata, {}, {Ask("list")})
    BY <1>15, OpenFilesDoes
  <2>2. \A q \in {Ask("list")} : q.kind # "start" BY DEF Ask
  <2> QED BY <2>1, <2>2, ShowsStartNone
<1>16. CASE Reload
  <2>1. Goes({}, {Ask("list")}) BY <1>16, ReloadGoes
  <2>2. \A q \in {Ask("list")} : q.kind # "start" BY DEF Ask
  <2> QED BY <2>1, <2>2, OthersStartNone
<1>17. CASE SortTap
  <2>1. Shows(tree, cur_file, metadata, {}, {})
    BY <1>17, SortTapDoes
  <2>2. \A q \in {} : q.kind # "start" OBVIOUS
  <2> QED BY <2>1, <2>2, ShowsStartNone
<1>18. ASSUME NEW f \in Files, TapFile(f) PROVE StartsTapped
  <2>1. Shows(tree, cur_file, metadata, {}, {})
    BY <1>18, TapFileDoes
  <2>2. \A q \in {} : q.kind # "start" OBVIOUS
  <2> QED BY <2>1, <2>2, ShowsStartNone
<1>19. ASSUME NEW dir \in {Root} \cup {Folder[f] : f \in Files}, TapFolder(dir)
      PROVE  StartsTapped
  <2>1. Shows(tree, cur_file, metadata, {}, {})
    BY <1>19, TapFolderDoes
  <2>2. \A q \in {} : q.kind # "start" OBVIOUS
  <2> QED BY <2>1, <2>2, ShowsStartNone
<1>20. CASE TapPrint
  <2>1. CASE UNCHANGED pending BY <2>1, StayStartsNone
  <2>2. CASE Goes({}, StartAsks(cur_file))
    <3>1. cur_file = tapped' BY <1>20 DEF TapPrint, FileInv, DetailInv
    <3> QED BY <2>2, <3>1, OneStarts
  <2> QED BY <1>20, <2>1, <2>2, TapPrintGoes
<1>21. CASE TapYes
  <2>1. Goes({}, StartAsks(pending_print_path)) BY <1>21, TapYesGoes
  <2>2. pending_print_path = tapped' \/ pending_print_path = None
    BY <1>21 DEF TapYes, StackInv, TappedWaits
  <2>3. CASE pending_print_path = tapped' BY <2>1, <2>3, OneStarts
  <2>4. CASE pending_print_path = None
    <3>1. \A q \in StartAsks(pending_print_path) : q.kind # "start"
      BY <2>4 DEF StartAsks
    <3> QED BY <2>1, <3>1, OthersStartNone
  <2> QED BY <2>2, <2>3, <2>4
<1>22. CASE ReloadSpools
  <2>1. Goes({}, {Ask("spool")}) BY <1>22, ReloadSpoolsGoes
  <2>2. \A q \in {Ask("spool")} : q.kind # "start" BY DEF Ask
  <2> QED BY <2>1, <2>2, OthersStartNone
<1>23. ASSUME NEW s \in Spools, TapSpool(s) PROVE StartsTapped
  <2>1. Goes({}, {Post(s)}) BY <1>23, TapSpoolGoes
  <2>2. \A q \in {Post(s)} : q.kind # "start" BY DEF Post
  <2> QED BY <2>1, <2>2, OthersStartNone
<1>24. CASE PrintChanges \/ Status \/ Back \/ BackStatus \/ TapNo
  BY <1>24, StayStartsNone DEF PrintChanges, Status, Back, BackStatus, TapNo
<1>25. CASE OpenSpools \/ BackSpools
  BY <1>25, StayStartsNone DEF OpenSpools, BackSpools
<1>26. ASSUME NEW s \in Spools \cup {None}, SpoolChanges(s)
      PROVE  StartsTapped
  BY <1>26, StayStartsNone DEF SpoolChanges
<1> QED BY <1>1, <1>2, <1>3, <1>4, <1>5, <1>6, <1>7, <1>8, <1>9, <1>10, <1>11,
           <1>12, <1>13, <1>14, <1>15, <1>16, <1>17, <1>18, <1>19, <1>20,
           <1>21, <1>22, <1>23, <1>24, <1>25, <1>26 DEF Next

-----------------------------------------------------------------------------
(* The invariant *)

IInv == Types /\ RefreshInv /\ FileInv /\ StackInv /\ SpoolInv

LEMMA InitTypes ==
  ASSUME Init
  PROVE  Types
<1>1. 0 \in Version /\ 1 \in Version BY BoundsAreNat DEF Version
<1>2. FileTypes BY <1>1, BoundsAreNat DEF Init, FileTypes
<1>3. details \in [file : Files \cup {None}, version : Version,
                   state : {"loading", "shown", "missing"}]
  BY <1>1 DEF Init
<1>4. ViewTypes BY <1>3 DEF Init, ViewTypes
<1>5. WireTypes BY EmptyBagIs DEF Init, WireTypes, Wire
<1>6. SpoolTypes BY DEF Init, SpoolTypes
<1>7. StackTypes BY DEF Init, StackTypes
<1>8. FlagTypes
  <2>1. taps \in 0..MaxTaps BY BoundsAreNat DEF Init
  <2>2. misled \in BOOLEAN /\ overlapped \in BOOLEAN /\ newestFirst \in BOOLEAN
    BY DEF Init
  <2>3. refreshing_files \in BOOLEAN /\ refresh_pending \in BOOLEAN BY DEF Init
  <2>4. printing \in BOOLEAN /\ connected \in BOOLEAN BY DEF Init
  <2>5. spoolman_enabled \in BOOLEAN /\ select_for_print \in BOOLEAN BY DEF Init
  <2> QED BY <2>1, <2>2, <2>3, <2>4, <2>5 DEF Init, FlagTypes
<1> QED BY <1>2, <1>4, <1>5, <1>6, <1>7, <1>8 DEF Types

LEMMA InitEstablishes ==
  ASSUME Init
  PROVE  IInv
<1>1. DOMAIN pending = {} BY EmptyBagIs DEF Init
<1>2. RefreshInv
  BY <1>1 DEF Init, RefreshInv, Refreshes, Waits, OneRefresh, ListComes, One
<1>3. DisksOld BY DEF Init, DisksOld
<1>4. ListingsOld BY <1>1 DEF ListingsOld
<1>5. ScannedHas BY DEF Init, ScannedHas
<1>6. KnownRight(metadata) BY DEF Init, KnownRight
<1>7. DetailInv BY DEF Init, DetailInv
<1>8. FileInv BY <1>3, <1>4, <1>5, <1>6, <1>7 DEF FileInv
<1>9. StackInv
  BY DEF Init, StackInv, FilesBelow, OnePanel, ChoiceFor, QuestionFor,
         TappedWaits
<1>10. SpoolInv BY DEF Init, SpoolInv, Heard, Unset, Named
<1> QED BY <1>2, <1>8, <1>9, <1>10, InitTypes DEF IInv

LEMMA StutterKeeps ==
  ASSUME IInv, UNCHANGED vars
  PROVE  IInv'
<1> USE DEF printer, list, choice, refresh, spools, prompt, stack, counts,
        history, vars, IInv, Types
<1>1. FileTypes' /\ ViewTypes' BY FilesFrame, ViewFrame
<1>2. WireTypes' /\ SpoolTypes' BY WireFrame, SpoolFrame
<1>3. StackTypes' /\ FlagTypes' BY StackFrame, FlagFrame
<1>4. RefreshInv' /\ FileInv' BY RefreshFrame, FileFrame
<1>5. StackInv' /\ SpoolInv' BY StackInvFrame, SpoolInvFrame
<1> QED BY <1>1, <1>2, <1>3, <1>4, <1>5

LEMMA NextPreserves ==
  ASSUME IInv, Next
  PROVE  IInv'
<1>1. Types' BY TypesKept DEF IInv
<1>2. RefreshInv' BY RefreshKept DEF IInv, Types
<1>3. FileInv' BY FileKept DEF IInv, Types
<1>4. StackInv' BY StackKept DEF IInv, Types
<1>5. SpoolInv' BY SpoolKept DEF IInv, Types, WireTypes
<1> QED BY <1>1, <1>2, <1>3, <1>4, <1>5 DEF IInv

LEMMA Invariant == Spec => []IInv
<1>1. Init => IInv BY InitEstablishes
<1>2. IInv /\ [Next]_vars => IInv' BY StutterKeeps, NextPreserves
<1> QED BY <1>1, <1>2, PTL DEF Spec

-----------------------------------------------------------------------------
(* The theorems *)

(* Every state of the browser, of the question and of the requests under   *)
(* way is of its type, and the panels on the screen lie in one order       *)
(* (print_panel.h, spoolman_panel.h).                                      *)
THEOREM PrintTypes == Spec => []TypeOK
<1>1. IInv => TypeOK BY TypesAreTypeOK DEF IInv
<1> QED BY <1>1, Invariant, PTL

(* Once the panel has heard everything, it lists what is on disk, unless   *)
(* two refreshes overlapped: a list is asked for after the last change, or *)
(* the refresh under way is marked to be done again                        *)
(* (print_panel.cpp:206-254).                                              *)
THEOREM ListsTheDisk == Spec => []OnlyOverlapMislists
<1>1. IInv => OnlyOverlapMislists
  <2> SUFFICES ASSUME IInv, Quiet
               PROVE  ~refreshing_files /\ (tree = disk \/ overlapped)
    BY DEF OnlyOverlapMislists
  <2>1. connected /\ DOMAIN pending = {} BY EmptyBagIs DEF Quiet
  <2>2. ~refreshing_files
    BY <2>1 DEF IInv, RefreshInv, Refreshes, Refreshing, Under
  <2>3. tree = disk \/ overlapped
    BY <2>1 DEF IInv, RefreshInv, ListComes, Under, Coming
  <2> QED BY <2>2, <2>3
<1> QED BY <1>1, Invariant, PTL

(* The selected file is listed and is the one the screen names, and with   *)
(* the right list and nothing under way, what the screen says of it is     *)
(* true of the file there is: details that are not right are still waited  *)
(* for (print_panel.cpp:237, 367-404).                                     *)
THEOREM ShowsTheFile == Spec => []DetailsAreTheFiles
<1>1. IInv => DetailsAreTheFiles
  <2> SUFFICES ASSUME IInv, cur_file # None
               PROVE  /\ tree[cur_file] # 0 /\ details.file = cur_file
                      /\ Quiet /\ tree = disk => Rightly(cur_file)
    BY DEF DetailsAreTheFiles, Rightly
  <2>1. tree[cur_file] # 0 /\ details.file = cur_file
    BY DEF IInv, FileInv, DetailInv
  <2>2. ASSUME Quiet, tree = disk PROVE Rightly(cur_file)
    <3>1. connected /\ DOMAIN pending = {} BY <2>2, EmptyBagIs DEF Quiet
    <3>2. ~Awaited(cur_file) BY <3>1 DEF Awaited, Under, Refreshing
    <3> QED BY <2>2, <3>1, <3>2 DEF IInv, FileInv, DetailInv
  <2> QED BY <2>1, <2>2
<1> QED BY <1>1, Invariant, PTL

(* The question is about a print that still waits, and names the spool the *)
(* print will be charged to, unless another client or a refusal changed    *)
(* that, or the question came before the panel had heard of it             *)
(* (spoolman_panel.cpp:324, 457; print_panel.cpp:430).                     *)
THEOREM NamesTheSpool == Spec => []OnlyOthersMislead
<1>1. IInv => OnlyOthersMislead
  <2> SUFFICES ASSUME IInv
               PROVE  OnlyOthersMislead
    OBVIOUS
  <2>1. select_for_print => "spools" \in open
    BY DEF IInv, StackInv, ChoiceFor
  <2>2. "dialog" \in open => pending_print_path # None
    BY DEF IInv, StackInv, QuestionFor
  <2>3. ASSUME "dialog" \in open, Quiet, ~misled PROVE asked = spool
    <3>1. \A s : ~Under(Post(s)) BY <2>3, EmptyBagIs DEF Quiet, Under
    <3> QED BY <2>3, <3>1 DEF IInv, SpoolInv, Named
  <2> QED BY <2>1, <2>2, <2>3 DEF OnlyOthersMislead
<1> QED BY <1>1, Invariant, PTL

(* Every print that the panel starts, at the tap of Print or at the Yes    *)
(* to the question, is of the file the screen named when Print was tapped, *)
(* as the path that waits is kept apart from the selection                 *)
(* (print_panel.cpp:430, 459-468).                                         *)
THEOREM StartsTheTapped == Spec => PrintsTheTapped
<1>1. IInv /\ [Next]_vars => [\A f \in Files : Starts(f) => f = tapped']_vars
  BY StepsStartTapped DEF IInv, Types, WireTypes, StartsTapped
<1> QED BY <1>1, Invariant, PTL DEF Spec, PrintsTheTapped
=============================================================================
