------------------------------ MODULE VectorSync ------------------------------
(***************************************************************************)
(* Synchronising a collection of the vector store with the public          *)
(* documents of the source (backend/app/research/vector_index.py and       *)
(* vector_sync.py). A run reads one snapshot of the source and the points  *)
(* of the collection, plans, and applies its plan request by request: new  *)
(* vectors in batches, then payloads, then deletions. It can be cut off    *)
(* between any two of them, and the source goes on changing. One run at a  *)
(* time holds the lock file; a request that was cut off with its run has   *)
(* taken effect or not before the next run reads.                          *)
(***************************************************************************)
EXTENDS Naturals, FiniteSets

CONSTANTS
    Documents,   \* entities that can be public
    Texts,       \* contents of chunks; a point is named by document and text
    Batch,       \* texts embedded by one request, 2 in the code
    Stamps,      \* payloads of a document apart from its text
    Encoders,    \* embedding models with their versions
    MaxEdits     \* bound: changes of the source and of the encoder

ASSUME BatchAssumption == Batch \in Nat \ {0}
ASSUME EditBound == MaxEdits \in Nat

VARIABLES
    source,    \* each public document: the texts of its chunks and its payload
    encoder,   \* the model and version the embedding service has
    edits,
    points,    \* the collection: payload of every point, and what made its vector
    sync,      \* the run under way: its plan and what is left of it
    offered,   \* the texts of each document in the snapshots since it last had none
    mirrored   \* what the last run, if it ended, was to make of which documents

vectorVars == <<source, encoder, edits, points, sync, offered, mirrored>>

Named == Documents \X Texts
NoRunning == [at |-> "idle"]
Nothing == [covered |-> {}]

VectorsInit ==
    /\ \E s \in Stamps : source = [d \in Documents |-> [texts |-> {}, stamp |-> s]]
    /\ encoder \in Encoders
    /\ edits = 0
    /\ points = [n \in {} |-> {}]
    /\ sync = NoRunning
    /\ offered = [d \in Documents |-> {}]
    /\ mirrored = Nothing

Payload(n) == [stamp |-> points[n].stamp, encoder |-> points[n].encoder]

----------------------------------------------------------------------------
\* plan_changes: what the collection should hold of the documents selected, and
\* the points to embed, to give a new payload and to delete for it. A limited
\* run knows only the documents it selected.
Desired(selected) ==
    [n \in {m \in Named : m[1] \in selected /\ m[2] \in source[m[1]].texts} |->
        [stamp |-> source[n[1]].stamp, encoder |-> encoder]]
\* Mutant: only new texts are embedded; another encoder is a change of payload.
ToEmbedNew(desired) == DOMAIN desired \ DOMAIN points
ToEmbed(desired) ==
    {n \in DOMAIN desired : n \notin DOMAIN points \/ points[n].encoder # desired[n].encoder}
ToStamp(desired) == {n \in DOMAIN desired \ ToEmbed(desired) : Payload(n) # desired[n]}
ToDelete(desired, selected, complete) ==
    {n \in DOMAIN points \ DOMAIN desired : complete \/ n[1] \in selected}

\* A complete run selects every public document and covers them all; one that
\* is limited selects some, public documents without any text among them.
StartSync(selected, complete) ==
    /\ sync = NoRunning
    /\ complete => selected = Documents
    /\ LET desired == Desired(selected)
       IN sync' = [at |-> "applying", desired |-> desired, embed |-> ToEmbed(desired),
                   stamp |-> ToStamp(desired), delete |-> ToDelete(desired, selected, complete),
                   covered |-> selected]
    /\ offered' = [d \in Documents |->
                     IF d \notin selected THEN offered[d]
                     ELSE IF source[d].texts = {} THEN {} ELSE offered[d] \cup {source[d].texts}]
    /\ mirrored' = Nothing
    /\ UNCHANGED <<source, encoder, edits, points>>

\* One upsert of a batch, in any order; the service must still be the one planned for.
Embed ==
    /\ sync # NoRunning
    /\ \E ns \in SUBSET sync.embed :
          /\ ns # {} /\ (Cardinality(ns) = Batch \/ (ns = sync.embed /\ Cardinality(ns) < Batch))
          /\ \A n \in ns : sync.desired[n].encoder = encoder
          /\ points' = [n \in DOMAIN points \cup ns |->
                          IF n \notin ns THEN points[n]
                          ELSE [stamp |-> sync.desired[n].stamp, encoder |-> encoder, vector |-> encoder]]
          /\ sync' = [sync EXCEPT !.embed = @ \ ns]
    /\ UNCHANGED <<source, encoder, edits, offered, mirrored>>
Stamp ==
    /\ sync # NoRunning /\ sync.embed = {}
    /\ \E n \in sync.stamp :
          /\ points' = [points EXCEPT ![n] =
                          [stamp |-> sync.desired[n].stamp, encoder |-> sync.desired[n].encoder,
                           vector |-> @.vector]]
          /\ sync' = [sync EXCEPT !.stamp = @ \ {n}]
    /\ UNCHANGED <<source, encoder, edits, offered, mirrored>>
\* Mutant: old points go first, to make room.
DeletableAtOnce == sync.at = "applying"
Deletable == sync.embed = {} /\ sync.stamp = {}
Delete ==
    /\ sync # NoRunning /\ Deletable /\ sync.delete # {}
    /\ points' = [n \in DOMAIN points \ sync.delete |-> points[n]]
    /\ sync' = [sync EXCEPT !.delete = {}]
    /\ UNCHANGED <<source, encoder, edits, offered, mirrored>>
EndSync ==
    /\ sync # NoRunning /\ sync.embed = {} /\ sync.stamp = {} /\ sync.delete = {}
    /\ mirrored' = [covered |-> sync.covered, desired |-> sync.desired]
    /\ sync' = NoRunning
    /\ UNCHANGED <<source, encoder, edits, points, offered>>
\* The encoder or the store fails, or the process ends.
CutOff ==
    /\ sync # NoRunning /\ sync' = NoRunning
    /\ UNCHANGED <<source, encoder, edits, points, offered, mirrored>>

Edit ==
    /\ edits < MaxEdits /\ edits' = edits + 1
    /\ \/ \E d \in Documents, ts \in SUBSET Texts, s \in Stamps :
             source' = [source EXCEPT ![d] = [texts |-> ts, stamp |-> s]] /\ UNCHANGED encoder
       \/ \E e \in Encoders : encoder' = e /\ UNCHANGED source
    /\ UNCHANGED <<points, sync, offered, mirrored>>

VectorsNext ==
    \/ Embed \/ Stamp \/ Delete \/ EndSync \/ CutOff \/ Edit
    \/ \E selected \in SUBSET Documents, complete \in BOOLEAN : StartSync(selected, complete)
VectorsSpec == VectorsInit /\ [][VectorsNext]_vectorVars

----------------------------------------------------------------------------
\* vector_sync.py:208: new vectors are there before old ones go, and an
\* interrupted run is repaired by the next. A run that ends leaves of the
\* documents it covered exactly what it planned, each with a vector of the encoder
\* it names, whatever cut-off runs before it left.
IndexMirrors ==
    sync = NoRunning =>
        \A n \in mirrored.covered \X Texts :
            /\ n \in DOMAIN points <=> n \in DOMAIN mirrored.desired
            /\ n \in DOMAIN points => Payload(n) = mirrored.desired[n] /\ points[n].vector = points[n].encoder

\* Once a document has been found in whole, it is found in whole, by its texts in
\* one of the snapshots, at every moment, within runs and after runs that were cut
\* off, until a run finds it no longer public or empty.
Whole(d) == \E ts \in offered[d] : {<<d, t>> : t \in ts} \subseteq DOMAIN points
StaysWhole == [][\A d \in Documents : Whole(d) /\ offered'[d] # {} => Whole(d)']_vectorVars
=============================================================================
