------------------------------- MODULE ZipFs -------------------------------
(***************************************************************************)
(* A directory of files, packed into an archive by hybrid-zip              *)
(* (src/pkg/zipfs/zip.go) and served from it by zipfs.New and GzipHttpfs   *)
(* (zipfs.go).  Files worth it are compressed and stored with .gz after    *)
(* their name; META-INF/ContentInfo.toml, the last entry, says which were  *)
(* not.  archive/zip, the vfs packages and http.FileServer are external.   *)
(*                                                                         *)
(* A name is a base and the number of .gz behind it.  What is kept of a    *)
(* file is how it is packed, and of an entry whose bytes it has.           *)
(***************************************************************************)
EXTENDS Naturals, Sequences, FiniteSets

CONSTANTS
  Bases,    \* what names are made of
  Dirs,     \* the directories to pack: sequences of files, as Walk finds them
  MaxPacks  \* bound on the runs of hybrid-zip

Root == [base |-> "", gz |-> 0]
Index == [base |-> "index", gz |-> 0]
Gz(name) == [name EXCEPT !.gz = @ + 1]

(* ignored: by .zignore, in META-INF, or no regular file.  empty: no bytes *)
(* to detect a type from.  small: less than 1024 bytes.  text: a type that *)
(* is compressed.  binary: any other.                                      *)
Kinds == {"ignored", "empty", "small", "text", "binary"}

Names == [base : Bases, gz : Nat]

ASSUME ZipFsAssumption ==
  /\ MaxPacks \in Nat /\ {"", "index"} \subseteq Bases
  /\ Dirs \subseteq Seq([name : Names, kind : Kinds])
  /\ \A d \in Dirs : \A i \in DOMAIN d :
        /\ d[i].name # Root
        /\ \A j \in DOMAIN d : d[i].name = d[j].name => i = j

VARIABLES
  dir,     \* the directory
  packing, \* the files hybrid-zip has dealt with, or idle
  info,    \* gzipThenZip.info: the names of the files that are Raw
  entries, \* the entries of the archive: name, file and whether it is gzip
  sealed,  \* the archive has its directory of entries
  meta,    \* what ContentInfo.toml says is Raw, or NoMeta
  packs

zipVars == <<dir, packing, info, entries, sealed, meta, packs>>

Idle == Len(dir) + 1
NoMeta == {Root}

ZipTypeOK ==
  /\ dir \in Dirs /\ packing \in 0 .. Idle /\ packs \in 0 .. MaxPacks
  /\ info \in SUBSET Names /\ meta \in SUBSET Names /\ sealed \in BOOLEAN
  /\ entries \in SUBSET [name : Names, of : Names, gz : BOOLEAN]

ZipInit ==
  /\ dir \in Dirs
  /\ packing = Idle /\ info = {}
  /\ entries = {} /\ sealed = FALSE /\ meta = NoMeta
  /\ packs = 0

----------------------------------------------------------------------------
(* GzipThenZip: os.Create empties the file, Walk goes through the          *)
(* directory, ContentInfo.toml and the directory of entries end it.        *)
GzipThenZip ==
  /\ packing = Idle /\ packs < MaxPacks
  /\ packing' = 0 /\ packs' = packs + 1
  /\ info' = {} /\ entries' = {} /\ sealed' = FALSE /\ meta' = NoMeta
  /\ UNCHANGED dir

(* proccessFile: what becomes of a file.                                   *)
Packed(f) == f.kind # "ignored"
Compressed(f) == f.kind = "text"
Entry(f) ==
  [name |-> IF Compressed(f) THEN Gz(f.name) ELSE f.name, of |-> f.name,
   gz |-> Compressed(f)]

ProcessFile ==
  /\ packing < Len(dir)
  /\ LET f == dir[packing + 1] IN
       /\ entries' = IF Packed(f) THEN entries \union {Entry(f)} ELSE entries
       /\ info' = IF Packed(f) /\ ~Compressed(f) THEN info \union {f.name} ELSE info
  /\ packing' = packing + 1
  /\ UNCHANGED <<dir, sealed, meta, packs>>

(* Mutant: ContentInfo.toml is written although a file could not be read.  *)
ReadFails_WritesMeta ==
  /\ packing < Len(dir)
  /\ sealed' = TRUE /\ meta' = info
  /\ packing' = Idle
  /\ UNCHANGED <<dir, info, entries, packs>>

(* A file cannot be read: generate returns, and the deferred Close writes  *)
(* the directory of what there is, the file's own part perhaps included.   *)
ReadFails ==
  /\ packing < Len(dir)
  /\ LET f == dir[packing + 1] IN
       entries' \in {entries} \union IF Packed(f) THEN {entries \union {Entry(f)}} ELSE {}
  /\ sealed' = TRUE
  /\ packing' = Idle
  /\ UNCHANGED <<dir, info, meta, packs>>

(* A write fails or the process ends: the zip.Writer's buffer keeps the    *)
(* error, and the deferred Close fails as well.                            *)
WriteFails ==
  /\ packing \in 0 .. Len(dir)
  /\ packing' = Idle
  /\ UNCHANGED <<dir, info, entries, sealed, meta, packs>>

Generate ==
  /\ packing = Len(dir)
  /\ meta' = info /\ sealed' = TRUE
  /\ packing' = Idle
  /\ UNCHANGED <<dir, info, entries, packs>>

Pack == GzipThenZip \/ ProcessFile \/ ReadFails \/ WriteFails \/ Generate

----------------------------------------------------------------------------
(* New: zip.OpenReader, then ContentInfo.toml.                             *)
CanOpen == sealed /\ meta # NoMeta

(* gz, the name under which the archive has a path.                        *)
IsRaw(path) == path \in meta
gz(path) == IF IsRaw(path) THEN path ELSE Gz(path)

Exists(name) == name = Root \/ \E e \in entries : e.name = name

(* Stat: the stored name, or the path itself, as for a directory.          *)
CanRequest(path) == Exists(gz(path)) \/ Exists(path)

(* Mutant: every answer is marked, and not those of compressed files only. *)
Encoding_Always(path) == TRUE

(* The Content-Encoding that RoundTrip and gzipResponseWriter set goes by  *)
(* the path of the request.                                                *)
Encoding(path) == ~IsRaw(path)

Codes == {"none", "200", "301", "404", "500", "cut", "panic"}
Answer(code, of, ok) == [code |-> code, of |-> of, ok |-> ok]

(* An entry as a client gets it, who takes off the encoding.               *)
FromEntry(path, e) == Answer("200", e.of, e.gz = Encoding(path))

(* http.FileServer on these: a directory is answered with its index or     *)
(* listed, a path that ends in index.html is redirected to the directory.  *)
(* Open, unlike Stat, does not fall back on the path itself.               *)
RoundTrip(path) ==
  LET opened == IF path = Root THEN Index ELSE path
      found == {e \in entries : e.name = gz(opened)}
  IN  CASE path = Index -> {Answer("301", Root, TRUE)}
        [] path = Root /\ found = {} -> {Answer("200", Root, ~Encoding(path))}
        [] path \notin {Root, Index} /\ found = {} -> {Answer("404", path, TRUE)}
        [] OTHER -> {FromEntry(path, e) : e \in found}
============================================================================
