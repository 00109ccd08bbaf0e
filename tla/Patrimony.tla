------------------------------- MODULE Patrimony -------------------------------
(***************************************************************************)
(* The assets of a church: registered, edited, disposed of and counted, by *)
(* requests and by the job that reads an inventory sheet row by row. Every *)
(* change is a whole document read, altered and written back; the files of *)
(* its attachments are stored before and deleted after.                    *)
(*                                                                         *)
(* Abstractions: `name' stands for name and category, `quantity' for value *)
(* and date of acquisition too when an asset is edited; an attachment is   *)
(* its file.                                                               *)
(***************************************************************************)
EXTENDS Naturals, SequencesExt

CONSTANTS
  Asset,       \* assets to be registered
  Request,     \* slots for running requests
  File,        \* files to upload
  Person,      \* who may be named as responsible
  Member,      \* those of them that are members
  Name,        \* names, and locations
  Code,        \* codes
  Quantity,    \* quantities
  Draft,       \* what a registration may send
  Edit,        \* what an edit may send
  Count,       \* what a request may say of one asset counted
  Sheet,       \* inventory sheets, filled in
  Missing,     \* undefined or null: a field that is absent or empty
  MaxRequests, \* bound: requests
  MaxImports,  \* bound: sheets sent
  MaxTroubles  \* bound: database errors, crashes, lost deletions and dispatches

Maybe(S) == S \union {Missing}

AssetStatus  == {"ACTIVE", "INACTIVE", "DONATED", "SOLD", "LOST"}
Disposals    == {"DONATED", "SOLD", "LOST"}
CheckResults == {"CONFIRMED", "NOT_FOUND"}

(* The properties of Asset that its history speaks about.                  *)
Facts == [code : Code, name : Maybe(Name), location : Maybe(Name),
          quantity : Quantity, keeper : Person, status : AssetStatus,
          attachments : SUBSET File, result : Maybe(CheckResults),
          disposal : Maybe(Disposals)]
Fact  == {"code", "name", "location", "quantity", "keeper", "status",
          "attachments", "result", "disposal"}

(* What an edit sends; every field may be left out.                        *)
Payload == [name : Maybe(Name), location : Maybe(Name),
            quantity : Maybe(Quantity), keeper : Maybe(Person),
            status : Maybe(AssetStatus), add : SUBSET File,
            remove : SUBSET File]

(* A line of a sheet. A code left blank is not taken from the column of    *)
(* the current code, since blank is not absent.                            *)
Row == [asset : Maybe(Asset), code : Maybe(Code), quantity : Maybe(Quantity),
        result : CheckResults]

(* What CreateAssetValidator and RecordAssetInventoryValidator let pass.   *)
Registration == {f \in Facts : f.result = Missing /\ f.disposal = Missing}
Confirmation == {row \in Row : Missing \notin {row.asset, row.code, row.quantity}}

ASSUME InputAssumption ==
  /\ Member \subseteq Person
  /\ Draft \subseteq Registration
  /\ Edit \subseteq Payload
  /\ Count \subseteq Confirmation
  /\ Sheet \subseteq Seq(Row)
ASSUME MissingAssumption ==
  Missing \notin Asset \union File \union Person \union Name \union Code
ASSUME BoundAssumption == {MaxRequests, MaxImports, MaxTroubles} \subseteq Nat

VARIABLES
  asset,     \* the collection patrimony_assets
  files,     \* the files in the storage
  req,       \* running requests
  queue,     \* jobs of ProcessInventoryFromFileJob; the head is being run
  importer,  \* its worker: the row, and the asset read for it
  incidents, \* history: what happened that the code does not undo
  used       \* how much of each bound is spent

vars == <<asset, files, req, queue, importer, incidents, used>>

Idle == [step |-> "idle"]

Init ==
  /\ asset = [a \in Asset |-> Missing]
  /\ files = {}
  /\ req = [r \in Request |-> Idle]
  /\ queue = <<>>
  /\ importer = [row |-> 1, copy |-> Missing]
  /\ incidents = {}
  /\ used = [requests |-> 0, imports |-> 0, troubles |-> 0, files |-> {}]
-----------------------------------------------------------------------------
Stored == {a \in Asset : asset[a] # Missing}

(* An entry of the history tells of the facts in S what they were and are. *)
Entry(action, S, old, new) ==
  [action |-> action,
   was |-> [f \in S |-> old[f]], is |-> [f \in S |-> new[f]]]

Changed(old, new) == {f \in Fact : old[f] # new[f]}

(* Variant with a bug: the history keeps the last entry only.              *)
AppendHistoryOnce(doc, new, entry) ==
  [facts |-> new, history |-> <<entry>>, checked |-> doc.checked]

(* The document with new facts and their entry, the newest first.          *)
AppendHistory(doc, new, entry) ==
  [facts |-> new, history |-> <<entry>> \o doc.history, checked |-> doc.checked]

(* Asset.create. The location and the attachments are not in its history.  *)
Created(new) ==
  LET told == {"code", "name", "quantity", "keeper", "status"}
  IN [facts |-> new, checked |-> "never",
      history |-> <<[action |-> "CREATED", was |-> <<>>,
                     is |-> [f \in told |-> new[f]]]>>]

(* Asset.fromPrimitives: an asset never checked gets the date 1970-01-01.  *)
Reading(doc) ==
  [doc EXCEPT !.checked = IF @ = "never" THEN "epoch" ELSE @]

Given(value, old) == IF value = Missing THEN old ELSE value

(* Asset.updateDetails: name and location are taken from the request even  *)
(* when it leaves them out. Without a change nothing is told.              *)
Updated(doc, p) ==
  LET old == doc.facts
      new == [old EXCEPT !.name = p.name, !.location = p.location,
                         !.quantity = Given(p.quantity, @),
                         !.keeper = Given(p.keeper, @),
                         !.status = Given(p.status, @),
                         !.attachments = (@ \ p.remove) \union p.add]
  IN IF Changed(old, new) = {} THEN doc
     ELSE AppendHistory(doc, new,
                        Entry("UPDATED", Changed(old, new), old, new))

(* Variant with a bug: the former code and quantity are read too late.     *)
InventoriedLate(doc, row) ==
  LET old == doc.facts
      new == [old EXCEPT !.code = row.code, !.quantity = row.quantity,
                         !.result = row.result]
  IN [AppendHistory(doc, new,
                    Entry("INVENTORY_CONFIRMED", {"result"}, old, new))
      EXCEPT !.checked = "checked"]

(* Asset.markInventory, whatever the status of the asset.                  *)
Inventoried(doc, row) ==
  LET old == doc.facts
      new == [old EXCEPT !.code = row.code, !.quantity = row.quantity,
                         !.result = row.result]
  IN [AppendHistory(doc, new, Entry("INVENTORY_CONFIRMED",
                                    Changed(old, new) \union {"result"},
                                    old, new))
      EXCEPT !.checked = "checked"]

(* Asset.dispose, disposed of before or not.                               *)
Disposed(doc, status) ==
  LET old == doc.facts
      new == [old EXCEPT !.status = status, !.disposal = status]
  IN AppendHistory(doc, new,
                   Entry("DISPOSAL", {"status", "disposal"}, old, new))
-----------------------------------------------------------------------------
Incident(i) == incidents' = incidents \union {i}

Trouble(i) ==
  /\ used.troubles < MaxTroubles
  /\ used' = [used EXCEPT !.troubles = @ + 1]
  /\ Incident(i)

(* AssetMongoRepository.upsert: the whole document, over whatever is there.*)
Upsert(a, copy, doc) ==
  /\ asset' = [asset EXCEPT ![a] = doc]
  /\ incidents' = IF asset[a] # Missing /\ Reading(asset[a]) # copy
                  THEN incidents \union {"stale"} ELSE incidents

(* A request past its validators; its files are stored before anything     *)
(* else happens.                                                           *)
Begin(r, kind, a, payload, add) ==
  /\ req[r].step = "idle"
  /\ used.requests < MaxRequests
  /\ add \intersect used.files = {}
  /\ files' = files \union add
  /\ req' = [req EXCEPT ![r] = [step |-> "read", kind |-> kind, asset |-> a,
                                payload |-> payload, copy |-> Missing,
                                added |-> add, removed |-> {}]]
  /\ used' = [used EXCEPT !.requests = @ + 1, !.files = @ \union add]
  /\ UNCHANGED <<asset, queue, importer, incidents>>

(* PatrimonyController.createAsset: an identifier is never given twice.    *)
BeginCreate(r) ==
  \E a \in Asset, new \in Draft :
    /\ asset[a] = Missing
    /\ \A q \in Request :
         ~ (req[q].step # "idle" /\ req[q].kind = "create" /\ req[q].asset = a)
    /\ Begin(r, "create", a, new, new.attachments)

BeginUpdate(r) ==
  \E a \in Asset, p \in Edit : Begin(r, "update", a, p, p.add)

BeginDispose(r) ==
  \E a \in Asset, s \in Disposals : Begin(r, "dispose", a, s, {})

BeginInventory(r) ==
  \E row \in Count : Begin(r, "inventory", row.asset, row, {})

(* A disposal or a count names nobody; who else is named must be a member. *)
KnownKeeper(r) ==
  req[r].kind \in {"create", "update"} => req[r].payload.keeper \in Maybe(Member)

Found(r) == req[r].kind # "create" => req[r].asset \in Stored

(* The use case reads the asset, then the member.                          *)
Read(r) ==
  /\ req[r].step = "read" /\ Found(r) /\ KnownKeeper(r)
  /\ req' = [req EXCEPT ![r].step = "store",
        ![r].copy = IF req[r].kind = "create" THEN Missing
                    ELSE Reading(asset[req[r].asset])]
  /\ UNCHANGED <<asset, files, queue, importer, incidents, used>>

(* The catch of the controller deletes the files it has uploaded.          *)
GiveUp(r) ==
  /\ files' = files \ req[r].added
  /\ req' = [req EXCEPT ![r] = Idle]
  /\ UNCHANGED <<asset, queue, importer>>

Refuse(r) ==
  /\ req[r].step = "read" /\ ~ (Found(r) /\ KnownKeeper(r))
  /\ GiveUp(r)
  /\ UNCHANGED <<incidents, used>>

(* Variant with a bug: the files of a failed request are kept.             *)
StoreFailsKeeping(r) ==
  /\ req[r].step = "store"
  /\ Trouble("error")
  /\ req' = [req EXCEPT ![r] = Idle]
  /\ UNCHANGED <<asset, files, queue, importer>>

StoreFails(r) ==
  /\ req[r].step = "store"
  /\ Trouble("error")
  /\ GiveUp(r)

Result(kind, copy, payload) ==
  CASE kind = "create"    -> Created(payload)
    [] kind = "update"    -> Updated(copy, payload)
    [] kind = "dispose"   -> Disposed(copy, payload)
    [] kind = "inventory" -> Inventoried(copy, payload)

(* UpdateAsset hands back the attachments it has removed from its copy.    *)
Removed(q) ==
  IF q.kind = "update"
  THEN q.copy.facts.attachments \intersect q.payload.remove ELSE {}

Store(r) ==
  LET q == req[r]
  IN /\ q.step = "store"
     /\ Upsert(q.asset, q.copy, Result(q.kind, q.copy, q.payload))
     /\ req' = [req EXCEPT ![r].step = "clean", ![r].removed = Removed(q)]
     /\ UNCHANGED <<files, queue, importer, used>>

(* cleanupUploads of what was removed; an error of the storage is ignored. *)
Clean(r) ==
  /\ req[r].step = "clean"
  /\ \/ files' = files \ req[r].removed /\ UNCHANGED <<incidents, used>>
     \/ req[r].removed # {} /\ Trouble("undeleted") /\ UNCHANGED files
  /\ req' = [req EXCEPT ![r] = Idle]
  /\ UNCHANGED <<asset, queue, importer>>
-----------------------------------------------------------------------------
(* PatrimonyController.importInventory: answered before the job has run.   *)
ImportInventory(sheet) ==
  /\ used.imports < MaxImports
  /\ queue' = Append(queue, sheet)
  /\ used' = [used EXCEPT !.imports = @ + 1]
  /\ UNCHANGED <<asset, files, req, importer, incidents>>

ThisRow == Head(queue)[importer.row]

Running == queue # <<>> /\ importer.row \in DOMAIN Head(queue)

NextRow == importer' = [row |-> importer.row + 1, copy |-> Missing]

(* Without identifier, code or quantity, or for an unknown asset.          *)
Skipped(row) == row.asset \notin Stored \/ Missing \in {row.code, row.quantity}

RowSkip ==
  /\ Running /\ importer.copy = Missing /\ Skipped(ThisRow)
  /\ NextRow
  /\ UNCHANGED <<asset, files, req, queue, incidents, used>>

RowRead ==
  /\ Running /\ importer.copy = Missing /\ ~ Skipped(ThisRow)
  /\ importer' = [importer EXCEPT !.copy = Reading(asset[ThisRow.asset])]
  /\ UNCHANGED <<asset, files, req, queue, incidents, used>>

RowStore ==
  /\ Running /\ importer.copy # Missing
  /\ Upsert(ThisRow.asset, importer.copy, Inventoried(importer.copy, ThisRow))
  /\ NextRow
  /\ UNCHANGED <<files, req, queue, used>>

(* A row that fails is told in the mail, and the next one is read.         *)
RowFails ==
  /\ Running /\ importer.copy # Missing
  /\ Trouble("error")
  /\ NextRow
  /\ UNCHANGED <<asset, files, req, queue>>

ImportEnd ==
  /\ queue # <<>> /\ importer.row > Len(Head(queue))
  /\ queue' = Tail(queue)
  /\ importer' = [row |-> 1, copy |-> Missing]
  /\ UNCHANGED <<asset, files, req, incidents, used>>

(* The process dies: requests are forgotten, the job begins again.         *)
Crash ==
  /\ Trouble("crash")
  /\ importer' = [row |-> 1, copy |-> Missing]
  /\ req' = [r \in Request |-> Idle]
  /\ UNCHANGED <<asset, files, queue>>

RequestStep ==
  \E r \in Request :
    \/ BeginCreate(r) \/ BeginUpdate(r) \/ BeginDispose(r) \/ BeginInventory(r)
    \/ Read(r) \/ Refuse(r) \/ Store(r) \/ StoreFails(r) \/ Clean(r)

ImportStep ==
  \/ \E sheet \in Sheet : ImportInventory(sheet)
  \/ RowSkip \/ RowRead \/ RowStore \/ RowFails \/ ImportEnd

Next == RequestStep \/ ImportStep \/ Crash

Spec == Init /\ [][Next]_vars
-----------------------------------------------------------------------------
GoodEntry(e) ==
  /\ e.action \in {"CREATED", "UPDATED", "DISPOSAL", "INVENTORY_CONFIRMED"}
  /\ DOMAIN e.was \subseteq DOMAIN e.is /\ DOMAIN e.is \subseteq Fact

GoodDocument(d) ==
  /\ d.facts \in Facts
  /\ d.checked \in {"never", "epoch", "checked"}
  /\ \A n \in DOMAIN d.history : GoodEntry(d.history[n])

(* Types, and: only members are ever stored as responsible, a job that is  *)
(* at a row has one, and no copy is held between two rows or requests.     *)
TypeOK ==
  /\ \A a \in Stored :
       GoodDocument(asset[a]) /\ asset[a].facts.keeper \in Member
  /\ files \subseteq used.files
  /\ \A r \in Request :
       req[r].step \in {"store", "clean"} /\ req[r].copy # Missing =>
         GoodDocument(req[r].copy) /\ req[r].asset \in Stored
  /\ importer.copy # Missing =>
       /\ Running /\ ThisRow.asset \in Stored
       /\ GoodDocument(importer.copy)

(* The entries of a history that tell of a fact; the newest has place 1.   *)
Telling(h, f) == {n \in DOMAIN h : f \in DOMAIN h[n].is}

Explained(d) ==
  \A f \in Fact :
    LET h == d.history
        told == Telling(h, f)
    IN /\ \A n \in told :
            (\A k \in told : n <= k) => h[n].is[f] = d.facts[f]
       /\ \A m, n \in told :
            m < n /\ (\A k \in told : k <= m \/ n <= k) =>
              h[m].was[f] = h[n].is[f]
       /\ f \in {"code", "name", "quantity", "keeper", "status"} =>
            \E n \in told : h[n].action = "CREATED" /\ \A k \in told : k <= n

(* The history of an asset explains it: what it says of a property last is *)
(* the value the property has, every entry starts from where the one before*)
(* left it, and what was told at the creation is told without a gap. It is *)
(* kept by four programs that each compare, assign and tell on their own   *)
(* (updateDetails, markInventory, dispose, create), and survives stale     *)
(* copies since a copy is written with its history.                        *)
HistoryExplains == \A a \in Stored : Explained(asset[a])

(* No step takes an entry out of a history, unless a stale copy is written:*)
(* two programs on one asset, or a row of the job between two steps of a   *)
(* request. Then the entries of the other are lost with its changes.       *)
HistoryGrows ==
  [][\A a \in Stored :
       \/ IsSuffix(asset[a].history, asset'[a].history)
       \/ "stale" \in incidents']_vars

(* The storage and the documents agree: an attachment that is listed has   *)
(* its file, and when no request is running no other file is left over,    *)
(* whatever was refused or failed. Not after a stale copy (it may list a   *)
(* file deleted since), a crash or a deletion that failed.                 *)
FilesMatch ==
  incidents \subseteq {"error"} =>
    LET listed == UNION {asset[a].facts.attachments : a \in Stored}
    IN /\ listed \subseteq files
       /\ (\A r \in Request : req[r].step = "idle") => files = listed
===============================================================================
