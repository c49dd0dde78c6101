--------------------------- MODULE EmbeddingStore ----------------------------
(***************************************************************************)
(* paper_embedding under one model_key, and the transaction that fills it   *)
(* (embeddings/service.py, embed_papers, run by workers/embed.py).  The     *)
(* transaction reads the papers of its batch, then their embedding rows,    *)
(* decides by hash which need the model, encodes those - minutes, on a CPU  *)
(* - and writes everything at its end.  It runs under READ COMMITTED, so    *)
(* edits of the papers commit between any two of these steps.               *)
(*                                                                         *)
(* A paper's version is paper.updated_at, which every edit moves to a       *)
(* moment of its own.  It is only ever compared for equality; the model     *)
(* numbers the versions.  A text stands for the input build_embedding_input *)
(* makes of title and abstract, and for its hash.                           *)
(***************************************************************************)
EXTENDS Naturals

CONSTANTS Papers,
          Processes,   \* processes that may run embed transactions
          Texts,       \* embedding inputs
          Blank,       \* the input of a paper with neither title nor abstract
          MaxVersion,  \* bound: edits stop when this many versions exist
          Serial,      \* TRUE: at most one embed transaction at a time
          Missing      \* no such row

ASSUME BlankIsAText == Blank \in Texts
ASSUME VersionBound == MaxVersion \in Nat \ {0}
ASSUME SerialIsBoolean == Serial \in BOOLEAN

NullVersion == 0       \* source_updated_at IS NULL: a row older than the column

Version == 1 .. MaxVersion
Paper   == [text : Texts, version : Version]
Vector  == [hash : Texts, source : Version \cup {NullVersion}]

ASSUME MissingIsNoRow == Missing \notin Paper \cup Vector

VARIABLES paper,   \* the paper table
          vector,  \* the paper_embedding table
          clock,   \* the newest version any paper has had
          stage,   \* where each process is in its embed transaction
          batch,   \* the paper ids of its job
          read,    \* the papers it has read
          found    \* the embedding rows it has read

tables == <<paper, vector, clock>>
storeVars == <<paper, vector, clock, stage, batch, read, found>>

Nothing == [p \in Papers |-> Missing]

StoreTypeOK ==
    /\ paper \in [Papers -> Paper \cup {Missing}]
    /\ vector \in [Papers -> Vector \cup {Missing}]
    /\ clock \in Version
    /\ stage \in [Processes -> {"idle", "papers", "vectors", "encode"}]
    /\ batch \in [Processes -> SUBSET Papers]
    /\ read \in [Processes -> [Papers -> Paper \cup {Missing}]]
    /\ found \in [Processes -> [Papers -> Vector \cup {Missing}]]

\* Papers not embedded yet, or carrying a row from before migration 0003.
StoreInit ==
    /\ paper \in [Papers -> {[text |-> t, version |-> 1] : t \in Texts}]
    /\ vector \in [Papers -> {[hash |-> t, source |-> NullVersion] : t \in Texts \ {Blank}} \cup {Missing}]
    /\ clock = 1
    /\ stage = [w \in Processes |-> "idle"]
    /\ batch = [w \in Processes |-> {}]
    /\ read = [w \in Processes |-> Nothing]
    /\ found = [w \in Processes |-> Nothing]

\* _pending_select: no row, or one built from another version.
Pending(p) ==
    /\ paper[p] # Missing
    /\ vector[p] = Missing \/ vector[p].source # paper[p].version

-----------------------------------------------------------------------------
(***************************************************************************)
(* The papers' own life, in transactions of ingestion and enrichment.       *)
(***************************************************************************)
Edit(p, t) ==
    /\ paper[p] # Missing
    /\ clock < MaxVersion
    /\ clock' = clock + 1
    /\ paper' = [paper EXCEPT ![p] = [text |-> t, version |-> clock + 1]]
    /\ UNCHANGED <<vector, stage, batch, read, found>>

\* Merged into another paper or pruned: ON DELETE CASCADE takes the vector.
Delete(p) ==
    /\ paper[p] # Missing
    /\ paper' = [paper EXCEPT ![p] = Missing]
    /\ vector' = [vector EXCEPT ![p] = Missing]
    /\ UNCHANGED <<clock, stage, batch, read, found>>

-----------------------------------------------------------------------------
(***************************************************************************)
(* embed_papers.                                                            *)
(***************************************************************************)
\* The ids of a job may be long out of date: any batch.
Begin(w, B) ==
    /\ stage[w] = "idle"
    /\ Serial => \A v \in Processes : stage[v] = "idle"
    /\ stage' = [stage EXCEPT ![w] = "papers"]
    /\ batch' = [batch EXCEPT ![w] = B]
    /\ UNCHANGED <<tables, read, found>>

ReadPapers(w) ==
    /\ stage[w] = "papers"
    /\ read' = [read EXCEPT ![w] = [p \in Papers |-> IF p \in batch[w] THEN paper[p] ELSE Missing]]
    /\ stage' = [stage EXCEPT ![w] = "vectors"]
    /\ UNCHANGED <<tables, batch, found>>

ReadVectors(w) ==
    /\ stage[w] = "vectors"
    /\ found' = [found EXCEPT ![w] = [p \in Papers |-> IF p \in batch[w] THEN vector[p] ELSE Missing]]
    /\ stage' = [stage EXCEPT ![w] = "encode"]
    /\ UNCHANGED <<tables, batch, read>>

\* Papers with something to embed; the others are skipped and stay pending.
Embeddable(w) == {p \in Papers : read[w][p] # Missing /\ read[w][p].text # Blank}

\* The hash check: nothing to recompute.
SameText(w) ==
    {p \in Embeddable(w) : found[w][p] # Missing /\ found[w][p].hash = read[w][p].text}

ToEncode(w) == Embeddable(w) \ SameText(w)

\* Mutants: a dismissed row loses its version, or keeps the one it had.
DismissedUnversioned(w, p) == [vector[p] EXCEPT !.source = NullVersion]
DismissedUnrecorded(w, p) == vector[p]

\* The UPDATE of a dismissed row sets source_updated_at if it is to differ from
\* the value that was read, and leaves the hash alone.
Dismissed(w, p) ==
    IF read[w][p].version = found[w][p].source
    THEN vector[p] ELSE [vector[p] EXCEPT !.source = read[w][p].version]

\* Mutants: the version is taken when the row is written; it is the present moment.
EncodedLate(w, p) == [hash |-> read[w][p].text, source |-> paper[p].version]
EncodedNow(w, p) == [hash |-> read[w][p].text, source |-> clock + 1]

Encoded(w, p) == [hash |-> read[w][p].text, source |-> read[w][p].version]

\* The transaction is over, committed or not.
EndOf(w) ==
    /\ stage' = [stage EXCEPT ![w] = "idle"]
    /\ batch' = [batch EXCEPT ![w] = {}]
    /\ read' = [read EXCEPT ![w] = Nothing]
    /\ found' = [found EXCEPT ![w] = Nothing]

\* Updating a row that has gone raises StaleDataError, inserting one for a
\* paper that has gone violates the foreign key.
Writable(w) ==
    /\ \A p \in SameText(w) : vector[p] # Missing
    /\ \A p \in ToEncode(w) : paper[p] # Missing

\* Flush and commit.
Commit(w) ==
    /\ stage[w] = "encode"
    /\ Writable(w)
    /\ vector' = [p \in Papers |->
                     IF p \in SameText(w) THEN Dismissed(w, p)
                     ELSE IF p \in ToEncode(w) THEN Encoded(w, p)
                     ELSE vector[p]]
    /\ EndOf(w)
    /\ UNCHANGED <<paper, clock>>

\* An exception anywhere, those two included, or a killed process.
Abort(w) ==
    /\ stage[w] # "idle"
    /\ EndOf(w)
    /\ UNCHANGED tables

-----------------------------------------------------------------------------
StoreNext ==
    \/ \E p \in Papers, t \in Texts : Edit(p, t)
    \/ \E p \in Papers : Delete(p)
    \/ \E w \in Processes, B \in SUBSET Papers \ {{}} : Begin(w, B)
    \/ \E w \in Processes : ReadPapers(w) \/ ReadVectors(w) \/ Commit(w) \/ Abort(w)

StoreSpec == StoreInit /\ [][StoreNext]_storeVars

-----------------------------------------------------------------------------
(***************************************************************************)
(* Properties.                                                              *)
(***************************************************************************)

\* A vector recorded as built from the current version of its paper was built
\* from the current text.  Such a paper is not pending, so nothing would ever
\* recompute a vector that breaks this: it would be stranded.
NoStrandedVector ==
    \A p \in Papers :
        paper[p] # Missing /\ vector[p] # Missing /\ vector[p].source = paper[p].version
            => vector[p].hash = paper[p].text

\* A commit never takes a paper out of the embedded set it had reached: only an
\* edit or a deletion makes it pending.
NeverBackToPending ==
    [][\A p \in Papers : ~ Pending(p) /\ paper'[p] = paper[p] => ~ Pending(p)']_storeVars
=============================================================================
