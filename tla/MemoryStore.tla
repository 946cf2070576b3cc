----------------------------- MODULE MemoryStore -----------------------------
(***************************************************************************)
(* The durable memory (memory/index.py): one directory of documents with   *)
(* an index, MEMORY.md, that also holds short memories as lines of its own.*)
(*                                                                         *)
(* One background thread, the worker, maintains it: it lists the memories, *)
(* asks the model, checks the answer and replaces the whole directory by   *)
(* renames.  The turns read the directory at the same time, file by file,  *)
(* and the user edits MEMORY.md by hand.  The program may crash between    *)
(* any two steps; the import of the module recovers the directory.         *)
(*                                                                         *)
(* A body stands for the facts a memory states; description, type and the  *)
(* text of the files are left out.                                         *)
(***************************************************************************)
EXTENDS Naturals, FiniteSets

CONSTANTS
    Name, Body,
    Memory,         \* the memories there can be, bodies under names
    Slug,           \* the file name of each name, or NoSlug
    NoSlug,         \* a name without ASCII letters and digits
    Reserved,       \* MEMORY.md
    Starred,        \* names with a star
    Short,          \* bodies of one line about the user or feedback
    Threshold,      \* memories that call for a consolidation (10)
    MaxDecisions,   \* decisions of one extraction (3)
    MaxMerged,      \* memories of one consolidation (30)
    MaxSelected,    \* memories of one turn (5)
    ByHand,         \* bound: the lines the user writes
    RollbackMayFail,
    Missing, Partial    \* no directory; one that is being removed

Names(s) == {m.name : m \in s}
Slugs(s) == {Slug[n] : n \in Names(s)}
Content == [docs : SUBSET Memory, inline : SUBSET Memory]
Empty == [docs |-> {}, inline |-> {}]

ASSUME MemoryAssumption ==
    /\ Memory \subseteq [name : Name, body : Body]
    /\ Starred \subseteq Name /\ Short \subseteq Body
    /\ Threshold \in Nat /\ MaxDecisions \in Nat
    /\ MaxMerged \in Nat /\ MaxSelected \in Nat
    /\ ByHand \subseteq Memory
    /\ RollbackMayFail \in BOOLEAN
    /\ Missing \notin Content /\ Partial \notin Content /\ Missing # Partial

VARIABLES
    dir, backup,    \* the directory and its .backup
    pc,             \* where the worker, or the import, is
    job,            \* the maintenance it is in
    base,           \* what it has listed
    staging,        \* the directory that is to replace dir
    reader,         \* where the turn is in load_memories
    globbed,        \* the documents it has seen
    found,          \* what it has listed
    wanted,         \* the files the model has selected
    tried,          \* those it has tried to read
    given,          \* what it has read
    quiet           \* history: dir has not changed since its start

diskVars == <<dir, backup>>
workVars == <<pc, job, base, staging>>
readVars == <<reader, globbed, found, wanted, tried, given>>
vars == <<diskVars, workVars, readVars, quiet>>

TypeOK ==
    /\ dir \in Content \cup {Missing}
    /\ backup \in Content \cup {Missing, Partial}
    /\ pc \in {"starting", "idle", "asked", "staged", "swapping", "swapped",
               "extracted"}
    /\ job \in {"none", "extract", "consolidate"}
    /\ base \subseteq Memory
    /\ staging \in Content
    /\ reader \in {"idle", "globbed", "read", "listed", "loading", "failed"}
    /\ globbed \subseteq {Slug[n] : n \in Name}
    /\ found \subseteq Memory /\ given \subseteq Memory
    /\ wanted \subseteq {Slug[n] : n \in Name} /\ tried \subseteq wanted
    /\ quiet \in BOOLEAN

-----------------------------------------------------------------------------
(***************************************************************************)
(* The contents of a directory.                                            *)
(***************************************************************************)
\* _parse_inline_memories: a line gives way to a document of the same name.
Lines(c, files) == {m \in c.inline : Slug[m.name] \notin files}
\* list_files raises on a line whose name has no slug.
Readable(c) == \A m \in c.inline : Slug[m.name] # NoSlug
Visible(c) ==
    c.docs \cup {m \in Lines(c, Slugs(c.docs)) : Slug[m.name] # NoSlug}

\* The directory of the program, now or after a restart.
Holding == IF dir # Missing THEN dir ELSE IF backup \in Content THEN backup ELSE Empty
Kept == Visible(Holding)
Filed == Holding.docs

\* What list_files returns; a missing directory has no files.
Listing == IF dir = Missing THEN {} ELSE Visible(dir)
ListFails == dir # Missing /\ ~Readable(dir)

Apart(s) == \A m, n \in s : Slug[m.name] = Slug[n.name] => m = n

-----------------------------------------------------------------------------
(***************************************************************************)
(* Recovery, when the module is imported.                                  *)
(***************************************************************************)
Init ==
    /\ dir = Missing /\ backup = Missing
    /\ pc = "starting" /\ job = "none" /\ base = {} /\ staging = Empty
    /\ reader = "idle" /\ globbed = {} /\ found = {} /\ wanted = {}
    /\ tried = {} /\ given = {}
    /\ quiet = TRUE

\* shutil.rmtree, which may stop in the middle.
RemoveBackup ==
    /\ backup # Missing
    /\ backup' = IF backup = Partial THEN Missing ELSE Partial
    /\ UNCHANGED dir

Recover ==
    /\ pc = "starting"
    /\ \/ dir # Missing /\ RemoveBackup /\ UNCHANGED pc
       \/ /\ dir = Missing /\ backup # Missing
          /\ dir' = backup /\ backup' = Missing
          /\ UNCHANGED pc
       \/ /\ backup = Missing
          /\ dir' = (IF dir = Missing THEN Empty ELSE dir)
          /\ pc' = "idle"
          /\ UNCHANGED backup
    /\ UNCHANGED <<job, base, staging, readVars>>

NoJob == job' = "none" /\ base' = {} /\ staging' = Empty
\* Mutant of NoReader: the files tried are not forgotten.
NoReaderButTried ==
    /\ reader' = "idle"
    /\ globbed' = {} /\ found' = {} /\ wanted' = {}
    /\ given' = {}
    /\ UNCHANGED tried

NoReader ==
    /\ reader' = "idle"
    /\ globbed' = {} /\ found' = {} /\ wanted' = {}
    /\ tried' = {} /\ given' = {}

Crash ==
    /\ pc' = "starting"
    /\ NoJob /\ NoReader
    /\ UNCHANGED diskVars

-----------------------------------------------------------------------------
(***************************************************************************)
(* The worker.                                                             *)
(***************************************************************************)
\* extract_memories and consolidate_memories list the memories; the second one
\* needs enough of them.
List(kind) ==
    /\ pc = IF kind = "extract" THEN "idle" ELSE "extracted"
    /\ ~ListFails
    /\ kind = "consolidate" => Cardinality(Listing) >= Threshold
    /\ pc' = "asked"
    /\ job' = kind
    /\ base' = Listing
    /\ UNCHANGED <<diskVars, staging, readVars>>

\* The decisions of the model, an array.  One whose fields, type, basis or
\* evidence do not pass makes the worker refuse them all: MaintenanceEnds.
Decision == [operation : {"create", "update"}, memory : Memory]
Batches == UNION {[1..n -> Decision] : n \in 1..MaxDecisions}
Of(batch, operation) == {k \in DOMAIN batch : batch[k].operation = operation}
Created(batch) == {batch[k].memory : k \in Of(batch, "create")}
Updated(batch) == {batch[k].memory : k \in Of(batch, "update")}

\* Mutant of Collide: only the names are compared.
SameName(m, n) == m.name = n.name

Collide(m, n) == Slug[m.name] = Slug[n.name]

\* _validated_memory_decisions refuses the whole array for one bad decision.
Accepted(batch) ==
    /\ \A m \in Created(batch) :
          /\ Slug[m.name] \notin {NoSlug, Reserved}
          /\ \A n \in base : ~Collide(m, n)
    /\ \A k, l \in Of(batch, "create") :
          k # l => ~Collide(batch[k].memory, batch[l].memory)
    /\ Names(Updated(batch)) \subseteq Names(base)
    /\ \A k, l \in Of(batch, "update") :
          k # l => batch[k].memory.name # batch[l].memory.name

Untouched(batch) == {m \in base : m.name \notin Names(Updated(batch))}

\* Of the items, the chosen ones become lines of MEMORY.md and the others
\* documents.  The line of a name with a star, "- **plan***: text", cannot be read
\* back, though the user's own "- [plan*] - text" can (_parse_inline_memories).
Layout(items, lines) ==
    [docs |-> items \ lines,
     inline |-> {m \in lines : m.name \notin Starred}]

\* Mutant of Written: what the batch does not mention is left out.
WrittenAlone(batch) ==
    LET items == Created(batch) \cup Updated(batch)
    IN  Layout(items, {m \in items : m.body \in Short})

\* A memory that is a document stays one.
Written(batch) ==
    LET items == Untouched(batch) \cup Created(batch) \cup Updated(batch)
        files == IF dir = Missing THEN {} ELSE Slugs(dir.docs)
    IN  Layout(items, {m \in items : m.body \in Short /\ Slug[m.name] \notin files})

Stage(content) ==
    /\ staging' = content
    /\ pc' = "staged"
    /\ UNCHANGED <<diskVars, job, base, readVars>>

DecideMemories(batch) ==
    /\ pc = "asked" /\ job = "extract"
    /\ Accepted(batch)
    /\ Stage(Written(batch))

\* _validated_memory_items.
Merge(items) ==
    /\ pc = "asked" /\ job = "consolidate"
    /\ items # {} /\ Cardinality(items) <= MaxMerged
    /\ Apart(items) /\ Slugs(items) \cap {NoSlug, Reserved} = {}
    /\ Stage(Layout(items, {m \in items : m.body \in Short}))

\* The rest of _replace_memory_set: an old backup goes, the directory becomes
\* the backup, the staging directory becomes the directory, the backup goes.
\* Mutant of DropBackup: the backup goes before the new directory is there.
DropBackupEarly ==
    /\ pc \in {"staged", "swapping"}
    /\ RemoveBackup
    /\ UNCHANGED <<workVars, readVars>>

DropBackup ==
    /\ pc \in {"staged", "swapped"}
    /\ RemoveBackup
    /\ UNCHANGED <<workVars, readVars>>

MoveAway ==
    /\ pc = "staged" /\ backup = Missing
    /\ backup' = dir
    /\ dir' = Missing
    /\ pc' = "swapping"
    /\ UNCHANGED <<job, base, staging, readVars>>

MoveIn ==
    /\ pc = "swapping"
    /\ dir' = staging
    /\ pc' = "swapped"
    /\ base' = {} /\ staging' = Empty
    /\ UNCHANGED <<job, backup, readVars>>

MoveInFails ==
    /\ pc = "swapping"
    /\ \/ dir' = backup /\ backup' = Missing
       \/ RollbackMayFail /\ UNCHANGED diskVars
    /\ pc' = "idle"
    /\ NoJob
    /\ UNCHANGED readVars

\* Only an extraction is followed by a consolidation.
ReplacementEnds ==
    /\ pc = "swapped" /\ backup = Missing
    /\ pc' = IF job = "extract" THEN "extracted" ELSE "idle"
    /\ NoJob
    /\ UNCHANGED <<diskVars, readVars>>

\* Everything that raises or has nothing to do: too few memories, no decision, a
\* refused answer, a provider or a file operation that fails.
MaintenanceEnds ==
    /\ pc \in {"asked", "staged", "swapped", "extracted"}
    /\ pc' = "idle"
    /\ NoJob
    /\ UNCHANGED <<diskVars, readVars>>

-----------------------------------------------------------------------------
(***************************************************************************)
(* A turn loads the memories that concern it (load_memories).  The list of *)
(* documents, their contents, MEMORY.md and the selected files are read    *)
(* one after the other.                                                    *)
(***************************************************************************)
Documents == IF dir = Missing THEN {} ELSE dir.docs

Glob ==
    /\ reader = "idle" /\ pc # "starting"
    /\ reader' = "globbed"
    /\ globbed' = Slugs(Documents)
    /\ UNCHANGED <<diskVars, workVars, found, wanted, tried, given>>

\* A document that is gone raises, and the turn fails.
ReadDocuments ==
    /\ reader = "globbed"
    /\ IF globbed \subseteq Slugs(Documents)
       THEN /\ reader' = "read"
            /\ found' = {m \in Documents : Slug[m.name] \in globbed}
       ELSE reader' = "failed" /\ UNCHANGED found
    /\ UNCHANGED <<diskVars, workVars, globbed, wanted, tried, given>>

ReadIndex ==
    /\ reader = "read"
    /\ IF ListFails
       THEN reader' = "failed" /\ UNCHANGED found
       ELSE /\ reader' = "listed"
            /\ found' = found \cup (IF dir = Missing THEN {} ELSE Lines(dir, globbed))
    /\ globbed' = {}
    /\ UNCHANGED <<diskVars, workVars, wanted, tried, given>>

\* The answer of the model; a failed call selects nothing.
Select(files) ==
    /\ reader = "listed"
    /\ Cardinality(files) <= MaxSelected
    /\ reader' = "loading"
    /\ wanted' = files
    /\ found' = {}
    /\ UNCHANGED <<diskVars, workVars, globbed, tried, given>>

Named(s, file) == {m \in s : Slug[m.name] = file}

\* Mutant of Stored: the lines of MEMORY.md are not looked at.
StoredDocument(file) == Named(Documents, file)

\* read_memory_file: the document, else the line of that name, else nothing.
Stored(file) ==
    IF file \in Slugs(Documents) THEN Named(Documents, file)
    ELSE IF dir = Missing THEN {} ELSE Named(dir.inline, file)

LoadFile(file) ==
    /\ reader = "loading" /\ file \in wanted \ tried
    /\ tried' = tried \cup {file}
    /\ IF file \notin Slugs(Documents) /\ ListFails
       THEN reader' = "failed" /\ UNCHANGED given
       ELSE given' = given \cup Stored(file) /\ UNCHANGED reader
    /\ UNCHANGED <<diskVars, workVars, globbed, found, wanted>>

LoadEnds ==
    /\ reader = "failed" \/ (reader = "loading" /\ tried = wanted)
    /\ NoReader
    /\ UNCHANGED <<diskVars, workVars>>

-----------------------------------------------------------------------------
\* The user adds a line to MEMORY.md or removes one; a name with a star stands in
\* brackets.  Lines that share a file name are left out; ByHand bounds the lines.
EditIndex(m) ==
    /\ dir # Missing
    /\ \E lines \in {dir.inline \cup {m}, dir.inline \ {m}} :
          Apart(lines) /\ dir' = [dir EXCEPT !.inline = lines]
    /\ UNCHANGED <<backup, workVars, readVars>>

Step ==
    \/ Recover \/ Crash
    \/ \E kind \in {"extract", "consolidate"} : List(kind)
    \/ \E batch \in Batches : DecideMemories(batch)
    \/ \E items \in SUBSET Memory : Merge(items)
    \/ DropBackup \/ MoveAway \/ MoveIn \/ MoveInFails
    \/ ReplacementEnds \/ MaintenanceEnds
    \/ Glob \/ ReadDocuments \/ ReadIndex
    \/ \E files \in SUBSET Slugs(found) : Select(files)
    \/ \E file \in wanted : LoadFile(file)
    \/ LoadEnds
    \/ \E m \in ByHand : EditIndex(m)

Observe ==
    quiet' = (reader' = "idle" \/ reader = "idle" \/ (quiet /\ dir' = dir))

Next == Step /\ Observe

Spec == Init /\ [][Next]_vars

-----------------------------------------------------------------------------
(***************************************************************************)
(* Properties.                                                             *)
(***************************************************************************)
\* Once there is a directory of memories, every step leaves it in place or leaves a
\* complete backup that the next start puts back, wherever the program crashes and
\* whatever an earlier crash left behind (_replace_memory_set and
\* _recover_memory_directory); a swap or a removal in the wrong order loses both.
Recoverable == dir \in Content \/ (dir = Missing /\ backup \in Content)
AlwaysRecoverable == [][Recoverable => Recoverable']_vars

\* No two memories share a file: the one would hide the other, or overwrite it
\* at the next replacement (_validated_memory_decisions and the layout).
FilesApart == Apart(Kept)

\* The memories change as MemoryPromise says.
Promise ==
    INSTANCE MemoryPromise WITH
        store <- Kept, filed <- Filed, Fragile <- Starred,
        job <- IF pc \in {"asked", "staged", "swapping"} THEN job ELSE "none"
KeepsMemoryPromise == Promise!Spec

\* A turn during which the directory stays as it is lists exactly what there is
\* and gets every memory it selects; it fails only on a line without a slug.
QuietLoad ==
    quiet /\ reader # "idle" =>
        /\ reader = "failed" => ListFails
        /\ reader = "listed" => found = Listing
        /\ reader = "loading" => given \subseteq Listing /\ Slugs(given) = tried
=============================================================================
