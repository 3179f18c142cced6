------------------------- MODULE ResearchStoresProofs -------------------------
(***************************************************************************)
(* Proofs about the stores of the research backend: the vector index, the  *)
(* area store, what suggestions learn and the conversations, for any       *)
(* number of documents, encoders, relations, importers, writers and turns. *)
(***************************************************************************)
EXTENDS VectorSync, AreaImport, SuggestionLearning, Conversations, FiniteSetTheorems, TLAPS

----------------------------------------------------------------------------
(* The vector index. A run that is under way knows, of the documents it      *)
(* covers, which points are still to be written, and the points it is to     *)
(* delete are none that it wants.                                            *)

Chunks(d) == {t \in Texts : <<d, t>> \in DOMAIN sync.desired}

PointsFit ==
    /\ DOMAIN points \subseteq Named
    /\ points = [n \in DOMAIN points |-> points[n]]
    /\ \A n \in DOMAIN points :
          points[n] = [stamp |-> points[n].stamp, encoder |-> points[n].encoder, vector |-> points[n].encoder]
SourceFits == source \in [Documents -> [texts : SUBSET Texts, stamp : Stamps]]
OfferedFits == offered \in [Documents -> SUBSET SUBSET Texts]

RunOf(desired, embed, stamp, delete, covered) ==
    [at |-> "applying", desired |-> desired, embed |-> embed, stamp |-> stamp,
     delete |-> delete, covered |-> covered]
WorkFits ==
    /\ sync = RunOf(sync.desired, sync.embed, sync.stamp, sync.delete, sync.covered)
    /\ sync.covered \subseteq Documents
    /\ DOMAIN sync.desired \subseteq sync.covered \X Texts
    /\ \A n \in DOMAIN sync.desired :
          sync.desired[n] = [stamp |-> sync.desired[n].stamp, encoder |-> sync.desired[n].encoder]
    /\ sync.embed \cup sync.stamp \subseteq DOMAIN sync.desired
    /\ sync.embed \cap sync.stamp = {}
    /\ sync.delete \cap DOMAIN sync.desired = {}
    /\ \A n \in sync.delete : n[1] \in sync.covered
\* What is neither to embed nor to stamp is there as it is wanted; what is to
\* stamp has its vector already.
WrittenFits ==
    /\ \A n \in DOMAIN sync.desired \ sync.embed :
          /\ n \in DOMAIN points
          /\ points[n].encoder = sync.desired[n].encoder
          /\ n \notin sync.stamp => Payload(n) = sync.desired[n]
    /\ \A n \in DOMAIN points : n[1] \in sync.covered => n \in DOMAIN sync.desired \cup sync.delete
\* Each document covered is, or will be, there in whole by a snapshot's texts.
OfferFits == \A d \in sync.covered : offered[d] = {} \/ Chunks(d) \in offered[d]

VectorsInv ==
    /\ PointsFit /\ SourceFits /\ OfferedFits
    /\ sync = NoRunning \/ (mirrored = Nothing /\ WorkFits /\ WrittenFits /\ OfferFits)
    /\ IndexMirrors

----------------------------------------------------------------------------
LEMMA RunFields ==
    ASSUME NEW de, NEW em, NEW st, NEW dl, NEW co, NEW s, s = RunOf(de, em, st, dl, co)
    PROVE  /\ s # NoRunning
           /\ s.desired = de /\ s.embed = em /\ s.stamp = st /\ s.delete = dl /\ s.covered = co
  BY DEF RunOf, NoRunning

LEMMA VectorsInvInit == VectorsInit => VectorsInv
<1> SUFFICES ASSUME VectorsInit PROVE VectorsInv
  OBVIOUS
<1>1. DOMAIN points = {} /\ sync = NoRunning /\ mirrored.covered = {}
  BY DEF VectorsInit, Nothing
<1>2. PointsFit
  BY <1>1 DEF VectorsInit, PointsFit
<1>3. SourceFits /\ OfferedFits
  BY DEF VectorsInit, SourceFits, OfferedFits
<1>4. IndexMirrors
  BY <1>1 DEF IndexMirrors
<1>5. QED
  BY <1>1, <1>2, <1>3, <1>4 DEF VectorsInv

\* What a plan wants of the documents selected.
LEMMA DesiredFits ==
    ASSUME SourceFits, NEW selected \in SUBSET Documents, NEW de, de = Desired(selected)
    PROVE  /\ DOMAIN de \subseteq selected \X Texts
           /\ \A d \in selected, t \in Texts : <<d, t>> \in DOMAIN de <=> t \in source[d].texts
           /\ \A n \in DOMAIN de : de[n] = [stamp |-> de[n].stamp, encoder |-> de[n].encoder]
<1>1. DOMAIN de = {m \in Named : m[1] \in selected /\ m[2] \in source[m[1]].texts}
  BY DEF Desired
<1>2. \A n \in DOMAIN de : de[n] = [stamp |-> source[n[1]].stamp, encoder |-> encoder]
  BY DEF Desired
<1>3. DOMAIN de \subseteq selected \X Texts
  BY <1>1 DEF Named
<1>4. \A d \in selected, t \in Texts : <<d, t>> \in DOMAIN de <=> t \in source[d].texts
  BY <1>1 DEF Named
<1>5. QED
  BY <1>2, <1>3, <1>4

LEMMA StartSyncInv ==
    ASSUME VectorsInv, NEW selected \in SUBSET Documents, NEW complete \in BOOLEAN,
           StartSync(selected, complete)
    PROVE  VectorsInv'
<1> USE DEF VectorsInv
<1>1. PICK de, em, st, dl : /\ de = Desired(selected) /\ em = ToEmbed(de) /\ st = ToStamp(de)
                            /\ dl = ToDelete(de, selected, complete)
  OBVIOUS
<1>2. sync' = RunOf(de, em, st, dl, selected)
  BY <1>1 DEF StartSync, RunOf
<1>3. /\ sync' # NoRunning /\ sync'.desired = de /\ sync'.embed = em /\ sync'.stamp = st
      /\ sync'.delete = dl /\ sync'.covered = selected
  BY <1>2, RunFields
<1>4. /\ DOMAIN de \subseteq selected \X Texts
      /\ \A d \in selected, t \in Texts : <<d, t>> \in DOMAIN de <=> t \in source[d].texts
      /\ \A n \in DOMAIN de : de[n] = [stamp |-> de[n].stamp, encoder |-> de[n].encoder]
  BY <1>1, DesiredFits
<1>5. UNCHANGED <<source, encoder, edits, points>> /\ mirrored' = Nothing
  BY DEF StartSync
<1>6. PointsFit' /\ SourceFits'
  BY <1>5 DEF PointsFit, SourceFits
<1>7. OfferedFits'
  BY DEF StartSync, OfferedFits, SourceFits
<1>8. /\ em \subseteq DOMAIN de /\ st \subseteq DOMAIN de \ em
      /\ \A n \in DOMAIN de \ em : n \in DOMAIN points /\ points[n].encoder = de[n].encoder
      /\ \A n \in DOMAIN de \ em : n \notin st => Payload(n) = de[n]
  BY <1>1 DEF ToEmbed, ToStamp
<1>9. dl \cap DOMAIN de = {} /\ \A n \in dl : n[1] \in selected
  BY <1>1 DEF ToDelete, StartSync, PointsFit, Named
<1>10. \A n \in DOMAIN points : n[1] \in selected => n \in DOMAIN de \cup dl
  BY <1>1 DEF ToDelete
<1>11. WorkFits'
  BY <1>2, <1>3, <1>4, <1>8, <1>9 DEF WorkFits
<1>12. WrittenFits'
  BY <1>3, <1>5, <1>8, <1>10 DEF WrittenFits, Payload
<1>13. OfferFits'
  <2> SUFFICES ASSUME NEW d \in selected PROVE offered'[d] = {} \/ Chunks(d)' \in offered'[d]
    BY <1>3 DEF OfferFits
  <2>1. Chunks(d)' = source[d].texts
    BY <1>3, <1>4 DEF Chunks, SourceFits
  <2>2. offered'[d] = IF source[d].texts = {} THEN {} ELSE offered[d] \cup {source[d].texts}
    BY DEF StartSync
  <2>3. QED
    BY <2>1, <2>2
<1>14. QED
  BY <1>3, <1>5, <1>6, <1>7, <1>11, <1>12, <1>13 DEF IndexMirrors

----------------------------------------------------------------------------
\* The requests of a run.
Embedded(s, ns) == [s EXCEPT !.embed = @ \ ns]
Restamped(s, n) == [s EXCEPT !.stamp = @ \ {n}]
AllDeleted(s) == [s EXCEPT !.delete = {}]
LEMMA RunGoesOn ==
    ASSUME NEW s, s = RunOf(s.desired, s.embed, s.stamp, s.delete, s.covered), NEW ns, NEW n
    PROVE  /\ Embedded(s, ns) = RunOf(s.desired, s.embed \ ns, s.stamp, s.delete, s.covered)
           /\ Restamped(s, n) = RunOf(s.desired, s.embed, s.stamp \ {n}, s.delete, s.covered)
           /\ AllDeleted(s) = RunOf(s.desired, s.embed, s.stamp, {}, s.covered)
  BY DEF Embedded, Restamped, AllDeleted, RunOf

LEMMA EmbedInv ==
    ASSUME VectorsInv, Embed PROVE VectorsInv'
<1> USE DEF VectorsInv
<1>1. WorkFits /\ WrittenFits /\ OfferFits /\ mirrored = Nothing
  BY DEF Embed
<1>2. PICK ns \in SUBSET sync.embed :
         /\ \A n \in ns : sync.desired[n].encoder = encoder
         /\ points' = [n \in DOMAIN points \cup ns |->
                          IF n \notin ns THEN points[n]
                          ELSE [stamp |-> sync.desired[n].stamp, encoder |-> encoder, vector |-> encoder]]
         /\ sync' = Embedded(sync, ns)
  BY DEF Embed, Embedded
<1>3. sync' = RunOf(sync.desired, sync.embed \ ns, sync.stamp, sync.delete, sync.covered)
  BY <1>1, <1>2, RunGoesOn DEF WorkFits
<1>4. /\ sync' # NoRunning /\ sync'.desired = sync.desired /\ sync'.embed = sync.embed \ ns
      /\ sync'.stamp = sync.stamp /\ sync'.delete = sync.delete /\ sync'.covered = sync.covered
  BY <1>3, RunFields
<1>5. UNCHANGED <<source, encoder, edits, offered, mirrored>>
  BY DEF Embed
<1>6. ns \subseteq Named /\ ns \subseteq DOMAIN sync.desired
  BY <1>1 DEF WorkFits, Named
<1>7. /\ DOMAIN points' = DOMAIN points \cup ns
      /\ \A n \in DOMAIN points \ ns : points'[n] = points[n]
      /\ \A n \in ns : points'[n] = [stamp |-> sync.desired[n].stamp, encoder |-> encoder, vector |-> encoder]
  BY <1>2
<1>8. PointsFit'
  <2>1. points' = [n \in DOMAIN points' |-> points'[n]]
    BY <1>2
  <2>2. QED
    BY <1>6, <1>7, <2>1 DEF PointsFit
<1>9. WorkFits'
  BY <1>1, <1>3, <1>4 DEF WorkFits
<1>10. WrittenFits'
  <2>1. \A n \in DOMAIN sync.desired \ (sync.embed \ ns) :
           /\ n \in DOMAIN points' /\ points'[n].encoder = sync.desired[n].encoder
           /\ n \notin sync.stamp => Payload(n)' = sync.desired[n]
    <3> SUFFICES ASSUME NEW n \in DOMAIN sync.desired \ (sync.embed \ ns)
                 PROVE  /\ n \in DOMAIN points' /\ points'[n].encoder = sync.desired[n].encoder
                        /\ n \notin sync.stamp => Payload(n)' = sync.desired[n]
      OBVIOUS
    <3>1. CASE n \in ns
      BY <1>1, <1>2, <1>7, <3>1 DEF WorkFits, Payload
    <3>2. CASE n \notin ns
      <4>1. n \in DOMAIN points /\ points[n].encoder = sync.desired[n].encoder
            /\ (n \notin sync.stamp => Payload(n) = sync.desired[n])
        BY <1>1, <3>2 DEF WrittenFits
      <4>2. n \in DOMAIN points' /\ points'[n] = points[n]
        BY <1>7, <3>2, <4>1
      <4>3. QED
        BY <4>1, <4>2 DEF Payload
    <3>3. QED
      BY <3>1, <3>2
  <2>2. \A n \in DOMAIN points' : n[1] \in sync.covered => n \in DOMAIN sync.desired \cup sync.delete
    BY <1>1, <1>6, <1>7 DEF WrittenFits
  <2>3. QED
    BY <1>4, <2>1, <2>2 DEF WrittenFits
<1>11. OfferFits'
  BY <1>1, <1>4, <1>5 DEF OfferFits, Chunks
<1>12. QED
  BY <1>1, <1>4, <1>5, <1>8, <1>9, <1>10, <1>11 DEF SourceFits, OfferedFits, IndexMirrors

LEMMA StampInv ==
    ASSUME VectorsInv, Stamp PROVE VectorsInv'
<1> USE DEF VectorsInv
<1>1. WorkFits /\ WrittenFits /\ OfferFits /\ mirrored = Nothing
  BY DEF Stamp
<1>2. PICK n \in sync.stamp :
         /\ points' = [points EXCEPT ![n] =
                          [stamp |-> sync.desired[n].stamp, encoder |-> sync.desired[n].encoder,
                           vector |-> @.vector]]
         /\ sync' = Restamped(sync, n)
  BY DEF Stamp, Restamped
<1>3. sync' = RunOf(sync.desired, sync.embed, sync.stamp \ {n}, sync.delete, sync.covered)
  BY <1>1, <1>2, RunGoesOn DEF WorkFits
<1>4. /\ sync' # NoRunning /\ sync'.desired = sync.desired /\ sync'.embed = sync.embed
      /\ sync'.stamp = sync.stamp \ {n} /\ sync'.delete = sync.delete /\ sync'.covered = sync.covered
  BY <1>3, RunFields
<1>5. UNCHANGED <<source, encoder, edits, offered, mirrored>>
  BY DEF Stamp
<1>6. n \in DOMAIN sync.desired /\ n \in DOMAIN points /\ points[n].encoder = sync.desired[n].encoder
  BY <1>1 DEF WorkFits, WrittenFits
<1>7. /\ DOMAIN points' = DOMAIN points
      /\ \A m \in DOMAIN points \ {n} : points'[m] = points[m]
      /\ points'[n] = [stamp |-> sync.desired[n].stamp, encoder |-> sync.desired[n].encoder,
                       vector |-> points[n].vector]
  BY <1>2, <1>6
<1>8. points'[n] = [stamp |-> sync.desired[n].stamp, encoder |-> sync.desired[n].encoder,
                    vector |-> sync.desired[n].encoder]
  BY <1>6, <1>7 DEF PointsFit
<1>9. PointsFit'
  <2>1. points' = [m \in DOMAIN points' |-> points'[m]]
    BY <1>2
  <2>2. QED
    BY <1>7, <1>8, <2>1 DEF PointsFit
<1>10. WorkFits'
  BY <1>1, <1>3, <1>4 DEF WorkFits
<1>11. WrittenFits'
  <2>1. \A m \in DOMAIN sync.desired \ sync.embed :
           /\ m \in DOMAIN points' /\ points'[m].encoder = sync.desired[m].encoder
           /\ m \notin sync.stamp \ {n} => Payload(m)' = sync.desired[m]
    <3> SUFFICES ASSUME NEW m \in DOMAIN sync.desired \ sync.embed
                 PROVE  /\ m \in DOMAIN points' /\ points'[m].encoder = sync.desired[m].encoder
                        /\ m \notin sync.stamp \ {n} => Payload(m)' = sync.desired[m]
      OBVIOUS
    <3>1. CASE m = n
      <4>1. sync.desired[n] = [stamp |-> sync.desired[n].stamp, encoder |-> sync.desired[n].encoder]
        BY <1>1, <1>6 DEF WorkFits
      <4>2. points'[n].stamp = sync.desired[n].stamp /\ points'[n].encoder = sync.desired[n].encoder
        BY <1>8
      <4>3. QED
        BY <1>6, <1>7, <3>1, <4>1, <4>2 DEF Payload
    <3>2. CASE m # n
      <4>1. m \in DOMAIN points /\ points[m].encoder = sync.desired[m].encoder
            /\ (m \notin sync.stamp => Payload(m) = sync.desired[m])
        BY <1>1 DEF WrittenFits
      <4>2. m \in DOMAIN points' /\ points'[m] = points[m]
        BY <1>7, <3>2, <4>1
      <4>3. QED
        BY <3>2, <4>1, <4>2 DEF Payload
    <3>3. QED
      BY <3>1, <3>2
  <2>2. QED
    BY <1>1, <1>4, <1>7, <2>1 DEF WrittenFits
<1>12. OfferFits'
  BY <1>1, <1>4, <1>5 DEF OfferFits, Chunks
<1>13. QED
  BY <1>1, <1>4, <1>5, <1>9, <1>10, <1>11, <1>12 DEF SourceFits, OfferedFits, IndexMirrors

LEMMA DeleteInv ==
    ASSUME VectorsInv, Delete PROVE VectorsInv'
<1> USE DEF VectorsInv
<1>1. WorkFits /\ WrittenFits /\ OfferFits /\ mirrored = Nothing
  BY DEF Delete
<1>2. /\ points' = [n \in DOMAIN points \ sync.delete |-> points[n]]
      /\ sync' = AllDeleted(sync)
  BY DEF Delete, AllDeleted
<1>3. sync' = RunOf(sync.desired, sync.embed, sync.stamp, {}, sync.covered)
  BY <1>1, <1>2, RunGoesOn DEF WorkFits
<1>4. /\ sync' # NoRunning /\ sync'.desired = sync.desired /\ sync'.embed = sync.embed
      /\ sync'.stamp = sync.stamp /\ sync'.delete = {} /\ sync'.covered = sync.covered
  BY <1>3, RunFields
<1>5. UNCHANGED <<source, encoder, edits, offered, mirrored>>
  BY DEF Delete
<1>6. /\ DOMAIN points' = DOMAIN points \ sync.delete
      /\ \A n \in DOMAIN points' : points'[n] = points[n]
  BY <1>2
<1>7. PointsFit'
  <2>1. points' = [m \in DOMAIN points' |-> points'[m]]
    BY <1>2
  <2>2. QED
    BY <1>6, <2>1 DEF PointsFit
<1>8. WorkFits'
  BY <1>1, <1>3, <1>4 DEF WorkFits
<1>9. WrittenFits'
  BY <1>1, <1>4, <1>6 DEF WrittenFits, WorkFits, Payload
<1>10. OfferFits'
  BY <1>1, <1>4, <1>5 DEF OfferFits, Chunks
<1>11. QED
  BY <1>1, <1>4, <1>5, <1>7, <1>8, <1>9, <1>10 DEF SourceFits, OfferedFits, IndexMirrors

LEMMA EndSyncInv ==
    ASSUME VectorsInv, EndSync PROVE VectorsInv'
<1> USE DEF VectorsInv
<1>1. WorkFits /\ WrittenFits
  BY DEF EndSync
<1>2. /\ sync.embed = {} /\ sync.stamp = {} /\ sync.delete = {} /\ sync' = NoRunning
      /\ mirrored'.covered = sync.covered /\ mirrored'.desired = sync.desired
      /\ UNCHANGED <<source, encoder, edits, points, offered>>
  BY DEF EndSync
<1>3. IndexMirrors'
  <2> SUFFICES ASSUME NEW n \in sync.covered \X Texts
               PROVE  /\ n \in DOMAIN points <=> n \in DOMAIN sync.desired
                      /\ n \in DOMAIN points =>
                            Payload(n) = sync.desired[n] /\ points[n].vector = points[n].encoder
    BY <1>2 DEF IndexMirrors, Payload
  <2>1. n \in DOMAIN points <=> n \in DOMAIN sync.desired
    BY <1>1, <1>2 DEF WrittenFits
  <2>2. n \in DOMAIN points => Payload(n) = sync.desired[n]
    BY <1>1, <1>2, <2>1 DEF WrittenFits
  <2>3. n \in DOMAIN points => points[n].vector = points[n].encoder
    BY DEF PointsFit
  <2>4. QED
    BY <2>1, <2>2, <2>3
<1>4. QED
  BY <1>2, <1>3 DEF PointsFit, SourceFits, OfferedFits

LEMMA CutOffInv ==
    ASSUME VectorsInv, CutOff PROVE VectorsInv'
<1> USE DEF VectorsInv
<1>1. mirrored' = Nothing /\ sync' = NoRunning /\ UNCHANGED <<source, encoder, points, offered>>
  BY DEF CutOff
<1>2. IndexMirrors'
  BY <1>1 DEF IndexMirrors, Nothing
<1>3. QED
  BY <1>1, <1>2 DEF PointsFit, SourceFits, OfferedFits

LEMMA EditInv ==
    ASSUME VectorsInv, Edit PROVE VectorsInv'
<1> USE DEF VectorsInv
<1>1. UNCHANGED <<points, sync, offered, mirrored>>
  BY DEF Edit
<1>2. SourceFits'
  <2>1. CASE UNCHANGED source
    BY <2>1 DEF SourceFits
  <2>2. ASSUME NEW d \in Documents, NEW ts \in SUBSET Texts, NEW s \in Stamps,
               source' = [source EXCEPT ![d] = [texts |-> ts, stamp |-> s]]
        PROVE  SourceFits'
    BY <2>2 DEF SourceFits
  <2>3. QED
    BY <2>1, <2>2 DEF Edit
<1>3. QED
  BY <1>1, <1>2 DEF PointsFit, OfferedFits, WorkFits, WrittenFits, OfferFits, Chunks, Payload, IndexMirrors

LEMMA VectorsInvStep == VectorsInv /\ [VectorsNext]_vectorVars => VectorsInv'
<1>1. VectorsInv /\ UNCHANGED vectorVars => VectorsInv'
  <2> SUFFICES ASSUME VectorsInv, UNCHANGED vectorVars PROVE VectorsInv'
    OBVIOUS
  <2>1. /\ source' = source /\ points' = points /\ sync' = sync
        /\ offered' = offered /\ mirrored' = mirrored
    BY DEF vectorVars
  <2>2. PointsFit' /\ SourceFits' /\ OfferedFits'
    BY <2>1 DEF VectorsInv, PointsFit, SourceFits, OfferedFits
  <2>3. IndexMirrors'
    BY <2>1 DEF VectorsInv, IndexMirrors, Payload
  <2>4. WorkFits => WorkFits'
    BY <2>1 DEF WorkFits
  <2>5. WrittenFits => WrittenFits'
    BY <2>1 DEF WrittenFits, Payload
  <2>6. OfferFits => OfferFits'
    BY <2>1 DEF OfferFits, Chunks
  <2>7. QED
    BY <2>1, <2>2, <2>3, <2>4, <2>5, <2>6 DEF VectorsInv
<1>2. QED
  BY <1>1, StartSyncInv, EmbedInv, StampInv, DeleteInv, EndSyncInv, CutOffInv, EditInv
  DEF VectorsNext

LEMMA VectorsInvariant == VectorsSpec => []VectorsInv
<1>1. VectorsInit => VectorsInv
  BY VectorsInvInit
<1>2. VectorsInv /\ [VectorsNext]_vectorVars => VectorsInv'
  BY VectorsInvStep
<1>3. QED
  BY <1>1, <1>2, PTL DEF VectorsSpec

\* apply_changes (research/vector_sync.py): a run that ends leaves of the documents
\* it covered exactly what it planned, each point with a vector of the encoder it
\* names, whatever runs were cut off before it.
THEOREM IndexCorrect == VectorsSpec => []IndexMirrors
<1>1. VectorsInv => IndexMirrors
  BY DEF VectorsInv
<1>2. QED
  BY <1>1, VectorsInvariant, PTL

----------------------------------------------------------------------------
WholeStep == \A d \in Documents : Whole(d) /\ offered'[d] # {} => Whole(d)'
\* Only a deletion takes points away, and never one it wants itself.
LEMMA WholeKept == VectorsInv /\ [VectorsNext]_vectorVars => WholeStep
<1> SUFFICES ASSUME VectorsInv, [VectorsNext]_vectorVars,
                    NEW d \in Documents, Whole(d), offered'[d] # {}
             PROVE  Whole(d)'
  BY DEF WholeStep
<1>1. PICK ts \in offered[d] : {<<d, t>> : t \in ts} \subseteq DOMAIN points
  BY DEF Whole
<1>2. CASE Delete
  <2>1. WorkFits /\ WrittenFits /\ OfferFits /\ sync.embed = {}
    BY <1>2 DEF VectorsInv, Delete, Deletable
  <2>2. DOMAIN points' = DOMAIN points \ sync.delete /\ offered' = offered
    BY <1>2 DEF Delete
  <2>3. CASE d \in sync.covered
    <3>1. Chunks(d) \in offered'[d]
      BY <2>1, <2>2, <2>3 DEF OfferFits
    <3>2. \A t \in Chunks(d) : <<d, t>> \in DOMAIN points'
      BY <2>1, <2>2 DEF Chunks, WorkFits, WrittenFits
    <3>3. QED
      BY <3>1, <3>2 DEF Whole
  <2>4. CASE d \notin sync.covered
    <3>1. \A t \in ts : <<d, t>> \notin sync.delete
      BY <2>1, <2>4 DEF WorkFits
    <3>2. QED
      BY <1>1, <2>2, <3>1 DEF Whole
  <2>5. QED
    BY <2>3, <2>4
<1>3. CASE \E selected \in SUBSET Documents, complete \in BOOLEAN : StartSync(selected, complete)
  <2>1. points' = points /\ ts \in offered'[d]
    BY <1>1, <1>3 DEF StartSync
  <2>2. QED
    BY <1>1, <2>1 DEF Whole
<1>4. CASE Embed \/ Stamp \/ EndSync \/ CutOff \/ Edit \/ UNCHANGED vectorVars
  <2>1. offered' = offered /\ DOMAIN points \subseteq DOMAIN points'
    BY <1>4 DEF Embed, Stamp, EndSync, CutOff, Edit, vectorVars
  <2>2. QED
    BY <1>1, <2>1 DEF Whole
<1>5. QED
  BY <1>2, <1>3, <1>4 DEF VectorsNext

\* vector_sync.py: new vectors are there before old ones go. Once a document is
\* there in whole it stays so through every request of every run, also of runs
\* that are cut off, until one finds it no longer public or without text.
THEOREM DocumentsStayWhole == VectorsSpec => StaysWhole
<1>1. VectorsInv /\ [VectorsNext]_vectorVars => [WholeStep]_vectorVars
  BY WholeKept
<1>2. QED
  BY <1>1, VectorsInvariant, PTL DEF VectorsSpec, StaysWhole, WholeStep

----------------------------------------------------------------------------
(* The area store. One importer at a time has a plan, so what it compared   *)
(* the store with is still there when it applies its plan.                  *)

AreaRows == [level : LEVELS, land : SUBSET Land, key : Keys \cup {NoKey},
             population : Populations \cup {Uncounted}]
AreasFit ==
    /\ OnMap \subseteq Relations /\ area \in [OnMap -> AreaRows]
    /\ import = [i \in Importers |-> import[i]]
OneImport == \A i, j \in Importers : import[i] # Away /\ import[j] # Away => i = j

MunicipalityPlan(changes) ==
    /\ \A r \in DOMAIN changes :
          /\ changes[r].land \in SUBSET Land /\ changes[r].key \in Keys \cup {NoKey}
          /\ FitsStore(r, changes[r].land)
    /\ \A r, s \in DOMAIN changes : r # s => ~ Overlaps(changes[r].land, changes[s].land)
AdministrativePlan(changes) ==
    /\ \A r \in DOMAIN changes : changes[r].land \in SUBSET Land /\ changes[r].level = "district"
    /\ \A r, s \in DOMAIN changes : r # s => ~ Overlaps(changes[r].land, changes[s].land)
    /\ \A r \in DOMAIN changes, s \in OnMap \ DOMAIN changes :
          area[s].level = "district" => ~ Overlaps(changes[r].land, area[s].land)
PopulationPlan(changes) ==
    /\ DOMAIN changes \subseteq OnMap
    /\ \A r \in DOMAIN changes :
          /\ changes[r] \in Populations /\ area[r].level = "municipality" /\ changes[r].key = area[r].key
          /\ area[r].population = Uncounted \/ area[r].population.date <= changes[r].date
PlanFits(i) ==
    /\ DOMAIN import[i].changes \subseteq Relations
    /\ \/ import[i].kind = "municipalities" /\ MunicipalityPlan(import[i].changes)
       \/ import[i].kind = "administrative" /\ AdministrativePlan(import[i].changes)
       \/ import[i].kind = "population" /\ PopulationPlan(import[i].changes)
PlansFit == \A i \in Importers : import[i] # Away => PlanFits(i)
CountsFit == \A r \in OnMap : CountFits(r)

AreasInv == AreasFit /\ OneImport /\ PlansFit /\ CountsFit /\ AreasDisjoint

LEMMA AreasInvInit == AreasInit => AreasInv
<1> SUFFICES ASSUME AreasInit PROVE AreasInv
  OBVIOUS
<1>1. OnMap = {} /\ area \in [OnMap -> AreaRows]
  BY DEF AreasInit, OnMap
<1>2. \A i \in Importers : import[i] = Away
  BY DEF AreasInit
<1>3. QED
  BY <1>1, <1>2 DEF AreasInit, AreasInv, AreasFit, OneImport, PlansFit, CountsFit, AreasDisjoint

\* A plan is made when no other is under way.
LEMMA PlansInv ==
    ASSUME AreasInv, NEW i \in Importers, NEW kind, NEW changes, MayPlan(i), Plans(i, kind, changes),
           DOMAIN changes \subseteq Relations,
           \/ kind = "municipalities" /\ MunicipalityPlan(changes)
           \/ kind = "administrative" /\ AdministrativePlan(changes)
           \/ kind = "population" /\ PopulationPlan(changes)
    PROVE  AreasInv'
<1> USE DEF AreasInv
<1>1. /\ import'[i] = [at |-> "planned", kind |-> kind, changes |-> changes]
      /\ \A j \in Importers \ {i} : import'[j] = Away
      /\ import' = [j \in Importers |-> import'[j]] /\ area' = area
  BY DEF Plans, AreasFit, MayPlan, NoImport
<1>2. PlansFit'
  <2>1. import'[i].kind = kind /\ import'[i].changes = changes
    BY <1>1
  <2>2. PlanFits(i)'
    BY <1>1, <2>1 DEF PlanFits, MunicipalityPlan, AdministrativePlan, PopulationPlan, FitsStore, OnMap
  <2>3. QED
    BY <1>1, <2>2 DEF PlansFit
<1>3. OneImport'
  BY <1>1 DEF OneImport
<1>4. QED
  BY <1>1, <1>2, <1>3 DEF AreasFit, CountsFit, CountFits, AreasDisjoint, OnMap

LEMMA RelationsAreNumbers == \A r \in Relations : r \in Nat
  BY RelationsAssumption

LEMMA PlanMunicipalitiesInv ==
    ASSUME AreasInv, NEW i \in Importers, PlanMunicipalities(i) PROVE AreasInv'
<1> PICK rs \in SUBSET Relations \ {{}} :
      \E batch \in [rs -> [land : Boundaries, key : Keys \cup {NoKey}]], accepted \in SUBSET rs :
         /\ DisjointTogether(batch, accepted)
         /\ Plans(i, "municipalities", [r \in accepted |-> batch[r]])
  BY DEF PlanMunicipalities
<1>1. PICK batch \in [rs -> [land : Boundaries, key : Keys \cup {NoKey}]], accepted \in SUBSET rs :
         /\ DisjointTogether(batch, accepted)
         /\ Plans(i, "municipalities", [r \in accepted |-> batch[r]])
  OBVIOUS
<1> DEFINE changes == [r \in accepted |-> batch[r]]
<1>2. \A r \in accepted : /\ batch[r].land \in SUBSET Land /\ batch[r].key \in Keys \cup {NoKey}
                          /\ FitsStore(r, batch[r].land)
  BY <1>1 DEF DisjointTogether, Boundaries
<1>3. \A r, s \in accepted : r # s => ~ Overlaps(batch[r].land, batch[s].land)
  <2> SUFFICES ASSUME NEW r \in accepted, NEW s \in accepted, r # s
               PROVE  ~ Overlaps(batch[r].land, batch[s].land)
    OBVIOUS
  <2>1. r < s \/ s < r
    <3>1. r \in Nat /\ s \in Nat
      BY RelationsAreNumbers
    <3>2. QED
      BY <3>1
  <2>2. s < r => ~ Overlaps(batch[r].land, batch[s].land)
    BY <1>1 DEF DisjointTogether
  <2>3. r < s => ~ Overlaps(batch[s].land, batch[r].land)
    BY <1>1 DEF DisjointTogether
  <2>4. QED
    BY <2>1, <2>2, <2>3 DEF Overlaps
<1>4. MunicipalityPlan(changes) /\ DOMAIN changes \subseteq Relations
  BY <1>2, <1>3 DEF MunicipalityPlan
<1>5. QED
  BY <1>1, <1>4, PlansInv DEF PlanMunicipalities

LEMMA PlanAdministrativeInv ==
    ASSUME AreasInv, NEW i \in Importers, PlanAdministrative(i) PROVE AreasInv'
<1> PICK rs \in SUBSET Relations \ {{}} :
      \E level \in LEVELS \ {"municipality"}, batch \in [rs -> Boundaries] :
         /\ \A r, s \in rs : r < s => ~ Overlaps(batch[r], batch[s])
         /\ \A r \in rs, s \in OnMap \ rs :
               area[s].level = level => ~ Overlaps(batch[r], area[s].land)
         /\ Plans(i, "administrative", [r \in rs |-> [level |-> level, land |-> batch[r]]])
  BY DEF PlanAdministrative
<1>1. PICK level \in LEVELS \ {"municipality"}, batch \in [rs -> Boundaries] :
         /\ \A r, s \in rs : r < s => ~ Overlaps(batch[r], batch[s])
         /\ \A r \in rs, s \in OnMap \ rs :
               area[s].level = level => ~ Overlaps(batch[r], area[s].land)
         /\ Plans(i, "administrative", [r \in rs |-> [level |-> level, land |-> batch[r]]])
  OBVIOUS
<1> DEFINE changes == [r \in rs |-> [level |-> level, land |-> batch[r]]]
<1>2. /\ level = "district" /\ DOMAIN changes = rs
      /\ \A r \in rs : changes[r].land = batch[r] /\ changes[r].level = level /\ batch[r] \in SUBSET Land
  BY DEF LEVELS, Boundaries
<1>3. \A r, s \in rs : r # s => ~ Overlaps(batch[r], batch[s])
  <2> SUFFICES ASSUME NEW r \in rs, NEW s \in rs, r # s PROVE ~ Overlaps(batch[r], batch[s])
    OBVIOUS
  <2>1. r < s \/ s < r
    <3>1. r \in Nat /\ s \in Nat
      BY RelationsAreNumbers
    <3>2. QED
      BY <3>1
  <2>2. QED
    BY <1>1, <2>1 DEF Overlaps
<1> HIDE DEF changes
<1>4. AdministrativePlan(changes)
  BY <1>1, <1>2, <1>3 DEF AdministrativePlan
<1>5. Plans(i, "administrative", changes)
  BY <1>1 DEF changes
<1>6. QED
  BY <1>2, <1>4, <1>5, PlansInv DEF PlanAdministrative

LEMMA PlanPopulationInv ==
    ASSUME AreasInv, NEW i \in Importers, PlanPopulation(i) PROVE AreasInv'
<1> DEFINE acceptedOf(ks, entry) ==
             {r \in OnMap : /\ area[r].level = "municipality" /\ area[r].key \in ks
                             /\ Matches(area[r].key) = {r} /\ Countable(r, entry)}
<1> PICK ks \in SUBSET Keys \ {{}} : \E entry \in [ks -> Dates] :
      Plans(i, "population",
            [r \in acceptedOf(ks, entry) |-> [key |-> area[r].key, date |-> entry[area[r].key]]])
  BY DEF PlanPopulation
<1> PICK entry \in [ks -> Dates] :
      Plans(i, "population",
            [r \in acceptedOf(ks, entry) |-> [key |-> area[r].key, date |-> entry[area[r].key]]])
  OBVIOUS
<1>1. PICK accepted :
         /\ accepted = {r \in OnMap : /\ area[r].level = "municipality" /\ area[r].key \in ks
                                      /\ Matches(area[r].key) = {r} /\ Countable(r, entry)}
         /\ Plans(i, "population",
                  [r \in accepted |-> [key |-> area[r].key, date |-> entry[area[r].key]]])
  OBVIOUS
<1> DEFINE changes == [r \in accepted |-> [key |-> area[r].key, date |-> entry[area[r].key]]]
<1>2. /\ DOMAIN changes = accepted
      /\ \A r \in accepted : /\ changes[r] = [key |-> area[r].key, date |-> entry[area[r].key]]
                             /\ area[r].key \in Keys /\ entry[area[r].key] \in Dates
  BY <1>1
<1>3. \A r \in accepted : /\ changes[r] \in Populations /\ changes[r].key = area[r].key
                          /\ changes[r].date = entry[area[r].key]
  BY <1>2 DEF Populations
<1> HIDE DEF changes
<1>4. PopulationPlan(changes)
  BY <1>1, <1>2, <1>3 DEF PopulationPlan, Countable
<1>5. DOMAIN changes \subseteq Relations
  BY <1>1, <1>2 DEF AreasInv, AreasFit
<1>6. Plans(i, "population", changes)
  BY <1>1 DEF changes
<1>7. QED
  BY <1>4, <1>5, <1>6, PlansInv DEF PlanPopulation

----------------------------------------------------------------------------
\* What a plan makes of the rows.
LEMMA AreaRow ==
    ASSUME NEW level \in LEVELS, NEW land \in SUBSET Land, NEW key \in Keys \cup {NoKey},
           NEW population \in Populations \cup {Uncounted}
    PROVE  [level |-> level, land |-> land, key |-> key, population |-> population] \in AreaRows
  BY DEF AreaRows

AreasAfter == OnMap' \subseteq Relations /\ area' \in [OnMap' -> AreaRows] /\ CountsFit' /\ AreasDisjoint'
                 /\ \A r \in OnMap : CountForward(r)

\* A count that is kept is the one there was.
LEMMA CountsForward ==
    ASSUME AreasInv, NEW r \in OnMap,
           r \in OnMap' => area'[r].population \in {area[r].population, Uncounted}
    PROVE  CountForward(r)
<1> SUFFICES ASSUME r \in OnMap', area[r].population # Uncounted, area'[r].population # Uncounted
             PROVE  area'[r].population.date >= area[r].population.date
  BY DEF CountForward
<1>1. area'[r].population = area[r].population /\ area[r].population \in Populations
  BY DEF AreasInv, AreasFit, AreaRows
<1>2. area[r].population.date \in Nat
  BY <1>1, DatesAssumption DEF Populations
<1>3. QED
  BY <1>1, <1>2

LEMMA MunicipalitiesApplied ==
    ASSUME AreasInv, NEW changes, DOMAIN changes \subseteq Relations, MunicipalityPlan(changes),
           ApplyMunicipalities(changes)
    PROVE  AreasAfter
<1> USE DEF AreasInv
<1>1. /\ OnMap' = OnMap \cup DOMAIN changes
      /\ \A r \in OnMap \ DOMAIN changes : area'[r] = area[r]
      /\ \A r \in DOMAIN changes :
            area'[r] = [level |-> "municipality", land |-> changes[r].land,
                        key |-> changes[r].key, population |-> Kept(r, changes[r].key)]
      /\ area' = [r \in OnMap' |-> area'[r]]
  BY DEF ApplyMunicipalities, OnMap
<1>2. \A r \in DOMAIN changes :
         /\ area'[r].level = "municipality" /\ area'[r].land = changes[r].land
         /\ area'[r].key = changes[r].key /\ area'[r].population = Kept(r, changes[r].key)
  BY <1>1
<1>3. \A r \in DOMAIN changes : \A key : Kept(r, key) \in Populations \cup {Uncounted}
  BY DEF Kept, AreasFit, AreaRows
<1>4. \A r \in OnMap' : area'[r] \in AreaRows
  <2> SUFFICES ASSUME NEW r \in OnMap' PROVE area'[r] \in AreaRows
    OBVIOUS
  <2>1. CASE r \in DOMAIN changes
    <3>1. changes[r].land \in SUBSET Land /\ changes[r].key \in Keys \cup {NoKey}
      BY <2>1 DEF MunicipalityPlan
    <3>2. QED
      BY <1>1, <1>3, <2>1, <3>1, AreaRow DEF LEVELS
  <2>2. CASE r \notin DOMAIN changes
    BY <1>1, <2>2 DEF AreasFit
  <2>3. QED
    BY <2>1, <2>2
<1>5. CountsFit'
  <2> SUFFICES ASSUME NEW r \in OnMap', area'[r].population # Uncounted
               PROVE  area'[r].level = "municipality" /\ area'[r].population.key = area'[r].key
    BY DEF CountsFit, CountFits
  <2>1. CASE r \in DOMAIN changes
    BY <1>2, <2>1 DEF Kept, CountsFit, CountFits
  <2>2. CASE r \notin DOMAIN changes
    BY <1>1, <2>2 DEF CountsFit, CountFits
  <2>3. QED
    BY <2>1, <2>2
<1>6. AreasDisjoint'
  <2> SUFFICES ASSUME NEW r \in OnMap', NEW s \in OnMap', r # s, area'[r].level = area'[s].level
               PROVE  ~ Overlaps(area'[r].land, area'[s].land)
    BY DEF AreasDisjoint
  <2>1. CASE r \in DOMAIN changes /\ s \in DOMAIN changes
    BY <1>2, <2>1 DEF MunicipalityPlan
  <2>2. CASE r \in DOMAIN changes /\ s \notin DOMAIN changes
    <3>1. s \in OnMap \ {r} /\ area[s].level = "municipality"
      BY <1>1, <1>2, <2>2
    <3>2. ~ Overlaps(changes[r].land, area[s].land)
      BY <2>2, <3>1 DEF MunicipalityPlan, FitsStore
    <3>3. QED
      BY <1>1, <1>2, <2>2, <3>2
  <2>3. CASE r \notin DOMAIN changes /\ s \in DOMAIN changes
    <3>1. r \in OnMap \ {s} /\ area[r].level = "municipality"
      BY <1>1, <1>2, <2>3
    <3>2. ~ Overlaps(changes[s].land, area[r].land)
      BY <2>3, <3>1 DEF MunicipalityPlan, FitsStore
    <3>3. QED
      BY <1>1, <1>2, <2>3, <3>2 DEF Overlaps
  <2>4. CASE r \notin DOMAIN changes /\ s \notin DOMAIN changes
    BY <1>1, <2>4 DEF AreasDisjoint
  <2>5. QED
    BY <2>1, <2>2, <2>3, <2>4
<1>7. ASSUME NEW r \in OnMap PROVE CountForward(r)
  <2>1. area'[r].population \in {area[r].population, Uncounted}
    BY <1>1, <1>2 DEF Kept
  <2>2. QED
    BY <2>1, CountsForward
<1>8. QED
  BY <1>1, <1>4, <1>5, <1>6, <1>7 DEF AreasFit, AreasAfter

LEMMA AdministrativeApplied ==
    ASSUME AreasInv, NEW changes, DOMAIN changes \subseteq Relations, AdministrativePlan(changes),
           ApplyAdministrative(changes)
    PROVE  AreasAfter
<1> USE DEF AreasInv
<1>1. /\ OnMap' = OnMap \cup DOMAIN changes
      /\ \A r \in OnMap \ DOMAIN changes : area'[r] = area[r]
      /\ \A r \in DOMAIN changes :
            area'[r] = [level |-> changes[r].level, land |-> changes[r].land,
                        key |-> NoKey, population |-> Uncounted]
      /\ area' = [r \in OnMap' |-> area'[r]]
  BY DEF ApplyAdministrative, OnMap
<1>2. \A r \in DOMAIN changes :
         /\ area'[r].level = "district" /\ area'[r].land = changes[r].land
         /\ area'[r].population = Uncounted
  BY <1>1 DEF AdministrativePlan
<1>3. \A r \in OnMap' : area'[r] \in AreaRows
  <2> SUFFICES ASSUME NEW r \in OnMap' PROVE area'[r] \in AreaRows
    OBVIOUS
  <2>1. CASE r \in DOMAIN changes
    <3>1. changes[r].land \in SUBSET Land /\ changes[r].level \in LEVELS
      BY <2>1 DEF AdministrativePlan, LEVELS
    <3>2. QED
      BY <1>1, <2>1, <3>1, AreaRow
  <2>2. CASE r \notin DOMAIN changes
    BY <1>1, <2>2 DEF AreasFit
  <2>3. QED
    BY <2>1, <2>2
<1>4. CountsFit'
  BY <1>1, <1>2 DEF CountsFit, CountFits
<1>5. AreasDisjoint'
  <2> SUFFICES ASSUME NEW r \in OnMap', NEW s \in OnMap', r # s, area'[r].level = area'[s].level
               PROVE  ~ Overlaps(area'[r].land, area'[s].land)
    BY DEF AreasDisjoint
  <2>1. CASE r \in DOMAIN changes /\ s \in DOMAIN changes
    BY <1>2, <2>1 DEF AdministrativePlan
  <2>2. CASE r \in DOMAIN changes /\ s \notin DOMAIN changes
    <3>1. s \in OnMap \ DOMAIN changes /\ area[s].level = "district"
      BY <1>1, <1>2, <2>2
    <3>2. ~ Overlaps(changes[r].land, area[s].land)
      BY <2>2, <3>1 DEF AdministrativePlan
    <3>3. QED
      BY <1>1, <1>2, <2>2, <3>2
  <2>3. CASE r \notin DOMAIN changes /\ s \in DOMAIN changes
    <3>1. r \in OnMap \ DOMAIN changes /\ area[r].level = "district"
      BY <1>1, <1>2, <2>3
    <3>2. ~ Overlaps(changes[s].land, area[r].land)
      BY <2>3, <3>1 DEF AdministrativePlan
    <3>3. QED
      BY <1>1, <1>2, <2>3, <3>2 DEF Overlaps
  <2>4. CASE r \notin DOMAIN changes /\ s \notin DOMAIN changes
    BY <1>1, <2>4 DEF AreasDisjoint
  <2>5. QED
    BY <2>1, <2>2, <2>3, <2>4
<1>6. ASSUME NEW r \in OnMap PROVE CountForward(r)
  <2>1. area'[r].population \in {area[r].population, Uncounted}
    BY <1>1, <1>2
  <2>2. QED
    BY <2>1, CountsForward
<1>7. QED
  BY <1>1, <1>3, <1>4, <1>5, <1>6 DEF AreasFit, AreasAfter

\* A row with another count.
Recounted(row, count1) == [row EXCEPT !.population = count1]
LEMMA RecountedRow ==
    ASSUME NEW row \in AreaRows, NEW count1 \in Populations, NEW new, new = Recounted(row, count1)
    PROVE  /\ new \in AreaRows /\ new.population = count1
           /\ new.level = row.level /\ new.land = row.land /\ new.key = row.key
<1>1. new = [level |-> row.level, land |-> row.land, key |-> row.key, population |-> count1]
  BY DEF AreaRows, Recounted
<1>2. row.level \in LEVELS /\ row.land \in SUBSET Land /\ row.key \in Keys \cup {NoKey}
  BY DEF AreaRows
<1>3. new \in AreaRows
  BY <1>1, <1>2, AreaRow
<1>4. QED
  BY <1>1, <1>3

LEMMA PopulationApplied ==
    ASSUME AreasInv, NEW changes, PopulationPlan(changes), ApplyPopulation(changes)
    PROVE  AreasAfter
<1> USE DEF AreasInv
<1>1. /\ OnMap' = OnMap /\ area' = [r \in OnMap' |-> area'[r]]
      /\ \A r \in OnMap \ DOMAIN changes : area'[r] = area[r]
      /\ \A r \in DOMAIN changes : area'[r] = Recounted(area[r], changes[r])
  BY DEF ApplyPopulation, PopulationPlan, OnMap, Recounted
<1>2. \A r \in DOMAIN changes :
         /\ area'[r] \in AreaRows /\ area'[r].population = changes[r]
         /\ area'[r].level = area[r].level /\ area'[r].land = area[r].land /\ area'[r].key = area[r].key
  <2> SUFFICES ASSUME NEW r \in DOMAIN changes
               PROVE  /\ area'[r] \in AreaRows /\ area'[r].population = changes[r]
                      /\ area'[r].level = area[r].level /\ area'[r].land = area[r].land
                      /\ area'[r].key = area[r].key
    OBVIOUS
  <2>1. area[r] \in AreaRows /\ changes[r] \in Populations
    BY DEF PopulationPlan, AreasFit
  <2>2. QED
    BY <1>1, <2>1, RecountedRow
<1>3. \A r \in OnMap' : /\ area'[r] \in AreaRows
                        /\ area'[r].level = area[r].level /\ area'[r].land = area[r].land
  BY <1>1, <1>2 DEF AreasFit
<1>4. CountsFit'
  BY <1>1, <1>2 DEF CountsFit, CountFits, PopulationPlan
<1>5. AreasDisjoint'
  BY <1>1, <1>3 DEF AreasDisjoint
<1>6. ASSUME NEW r \in OnMap PROVE CountForward(r)
  <2>1. CASE r \in DOMAIN changes
    <3>1. area'[r].population = changes[r] /\ changes[r] \in Populations
          /\ (area[r].population = Uncounted \/ area[r].population.date <= changes[r].date)
      BY <1>2, <2>1 DEF PopulationPlan
    <3>2. CASE area[r].population = Uncounted
      BY <3>2 DEF CountForward
    <3>3. CASE area[r].population # Uncounted
      <4>1. area[r].population \in Populations
        BY <3>3 DEF AreasFit, AreaRows
      <4>2. area[r].population.date \in Nat /\ changes[r].date \in Nat
        BY <3>1, <4>1, DatesAssumption DEF Populations
      <4>3. area'[r].population.date >= area[r].population.date
        BY <3>1, <3>3, <4>2
      <4>4. QED
        BY <4>3 DEF CountForward
    <3>4. QED
      BY <3>2, <3>3
  <2>2. CASE r \notin DOMAIN changes
    BY <1>1, <2>2, CountsForward
  <2>3. QED
    BY <2>1, <2>2
<1>7. QED
  BY <1>1, <1>3, <1>4, <1>5, <1>6 DEF AreasFit, AreasAfter

LEMMA ImportApplied ==
    ASSUME AreasInv, NEW i \in Importers, ApplyImport(i) PROVE AreasInv' /\ AreasAfter
<1> USE DEF AreasInv
<1>1. PICK changes, kind : changes = import[i].changes /\ kind = import[i].kind
  OBVIOUS
<1>2. /\ DOMAIN changes \subseteq Relations
      /\ \/ kind = "municipalities" /\ MunicipalityPlan(changes)
         \/ kind = "administrative" /\ AdministrativePlan(changes)
         \/ kind = "population" /\ PopulationPlan(changes)
  BY <1>1 DEF ApplyImport, PlansFit, PlanFits
<1>3. /\ \/ kind = "municipalities" /\ ApplyMunicipalities(changes)
         \/ kind = "administrative" /\ ApplyAdministrative(changes)
         \/ kind = "population" /\ ApplyPopulation(changes)
      /\ import[i] # Away /\ import' = [import EXCEPT ![i] = Away]
  BY <1>1 DEF ApplyImport
<1>4. AreasAfter
  <2>1. CASE kind = "municipalities"
    BY <1>2, <1>3, <2>1, MunicipalitiesApplied
  <2>2. CASE kind = "administrative"
    BY <1>2, <1>3, <2>2, AdministrativeApplied
  <2>3. CASE kind = "population"
    BY <1>2, <1>3, <2>3, PopulationApplied
  <2>4. QED
    BY <1>2, <2>1, <2>2, <2>3
<1>5. /\ \A j \in Importers : import'[j] = Away
      /\ import' = [j \in Importers |-> import'[j]]
  BY <1>3 DEF AreasFit, OneImport
<1>6. QED
  BY <1>4, <1>5 DEF AreasFit, AreasAfter, OneImport, PlansFit

LEMMA GiveUpInv ==
    ASSUME AreasInv, NEW i \in Importers, GiveUp(i) PROVE AreasInv'
<1>1. /\ \A j \in Importers : import'[j] \in {import[j], Away}
      /\ import' = [j \in Importers |-> import'[j]] /\ area' = area
  BY DEF GiveUp, AreasInv, AreasFit
<1>2. PlansFit'
  BY <1>1 DEF AreasInv, PlansFit, PlanFits, MunicipalityPlan, AdministrativePlan, PopulationPlan, FitsStore, OnMap
<1>3. QED
  BY <1>1, <1>2 DEF AreasInv, AreasFit, OneImport, CountsFit, CountFits, AreasDisjoint, OnMap

LEMMA AreasInvStep == AreasInv /\ [AreasNext]_areaVars => AreasInv'
<1>1. AreasInv /\ UNCHANGED areaVars => AreasInv'
  BY DEF areaVars, AreasInv, AreasFit, OneImport, PlansFit, PlanFits, MunicipalityPlan, AdministrativePlan,
         PopulationPlan, FitsStore, OnMap, CountsFit, CountFits, AreasDisjoint
<1>2. QED
  BY <1>1, PlanMunicipalitiesInv, PlanAdministrativeInv, PlanPopulationInv, ImportApplied, GiveUpInv
  DEF AreasNext

LEMMA AreasInvariant == AreasSpec => []AreasInv
<1>1. AreasInit => AreasInv
  BY AreasInvInit
<1>2. AreasInv /\ [AreasNext]_areaVars => AreasInv'
  BY AreasInvStep
<1>3. QED
  BY <1>1, <1>2, PTL DEF AreasSpec

\* areas.py and administrative_areas.py: areas of one level never share land,
\* whatever batches, replaced boundaries and reclassified relations cross.
THEOREM AreasStayDisjoint == AreasSpec => []AreasDisjoint
<1>1. AreasInv => AreasDisjoint
  BY DEF AreasInv
<1>2. QED
  BY <1>1, AreasInvariant, PTL

LEMMA CountsGoForward == AreasInv /\ [AreasNext]_areaVars => \A r \in OnMap : CountForward(r)
<1> SUFFICES ASSUME AreasInv, [AreasNext]_areaVars, NEW r \in OnMap PROVE CountForward(r)
  OBVIOUS
<1>1. ASSUME NEW i \in Importers, ApplyImport(i) PROVE CountForward(r)
  BY <1>1, ImportApplied DEF AreasAfter
<1>2. CASE area' = area
  BY <1>2, CountsForward
<1>3. QED
  BY <1>1, <1>2
  DEF AreasNext, areaVars, PlanMunicipalities, PlanAdministrative, PlanPopulation, Plans, GiveUp

\* population.py: a population is the one published for the key its municipality
\* has now, and no import replaces it by one of an earlier date.
THEOREM PopulationCorrect == AreasSpec => PopulationFits
<1>1. AreasInv => \A r \in OnMap : CountFits(r)
  BY DEF AreasInv, CountsFit
<1>2. AreasInv /\ [AreasNext]_areaVars => [\A r \in OnMap : CountForward(r)]_areaVars
  BY CountsGoForward
<1>3. QED
  BY <1>1, <1>2, AreasInvariant, PTL DEF AreasSpec, PopulationFits

----------------------------------------------------------------------------
(* What suggestions learn. A transaction under way holds the row of its      *)
(* suggestion, and what it has read of that suggestion still holds at its    *)
(* end.                                                                      *)

CountsTyped == count \in [Queries -> [COUNTERS -> Nat]]
ReceiptsFit == receipts \subseteq Receipts /\ IsFiniteSet(receipts)
ConvertedFit == converted \subseteq Queries \X Lookups /\ IsFiniteSet(converted)
DoingFits(doing) ==
    \/ doing.kind = "none"
    \/ /\ doing.kind \in {"impression", "selection"} /\ doing \in Receipts
       /\ doing.kind = "selection" => Receipt("impression", doing.query, doing.lookup) \in receipts
    \/ /\ doing.kind = "learn" /\ doing.query \in Queries /\ doing.credit \in Lookups \cup {NoLookup}
       /\ doing.credit # NoLookup => Receipt("selection", doing.query, doing.credit) \in receipts
WritersFit == \A w \in Writers : DoingFits(writer[w])
RowsHeld ==
    /\ rowLock = [q \in Queries |-> rowLock[q]] /\ writer = [w \in Writers |-> writer[w]]
    /\ \A w \in Writers : writer[w].kind # "none" => rowLock[writer[w].query] = w

\* The parts of LearnedOnce.
Reported(S, k, q) == {e \in S : e.kind = k /\ e.query = q}
Credited(S, q) == {c \in S : c[1] = q}
Tallied == \A q \in Queries :
    /\ \A k \in {"impression", "selection"} : count[q][k] = Cardinality(Reported(receipts, k, q))
    /\ count[q]["conversions"] = Cardinality(Credited(converted, q))
    /\ count[q]["conversions"] <= count[q]["successes"]
Founded ==
    /\ \A e \in receipts : e.kind = "selection" => Receipt("impression", e.query, e.lookup) \in receipts
    /\ \A c \in converted : Receipt("selection", c[1], c[2]) \in receipts
Uncredited == \A w \in Writers :
    writer[w].kind = "learn" => <<writer[w].query, writer[w].credit>> \notin converted

LearningInv == /\ CountsTyped /\ ReceiptsFit /\ ConvertedFit /\ WritersFit /\ RowsHeld
               /\ Tallied /\ Founded /\ Uncredited

LEMMA ReportedGrows ==
    ASSUME NEW S, IsFiniteSet(S), NEW e, e \notin S, NEW k, NEW q
    PROVE  /\ e.kind = k /\ e.query = q =>
                 Cardinality(Reported(S \cup {e}, k, q)) = Cardinality(Reported(S, k, q)) + 1
           /\ ~ (e.kind = k /\ e.query = q) => Reported(S \cup {e}, k, q) = Reported(S, k, q)
<1>1. IsFiniteSet(Reported(S, k, q)) /\ e \notin Reported(S, k, q)
  BY FS_Subset DEF Reported
<1>2. e.kind = k /\ e.query = q => Reported(S \cup {e}, k, q) = Reported(S, k, q) \cup {e}
  BY DEF Reported
<1>3. Cardinality(Reported(S, k, q) \cup {e}) = Cardinality(Reported(S, k, q)) + 1
  BY <1>1, FS_AddElement
<1>4. ~ (e.kind = k /\ e.query = q) => Reported(S \cup {e}, k, q) = Reported(S, k, q)
  BY DEF Reported
<1>5. QED
  BY <1>2, <1>3, <1>4

LEMMA CreditedGrows ==
    ASSUME NEW S, IsFiniteSet(S), NEW c, c \notin S, NEW q
    PROVE  /\ c[1] = q => Cardinality(Credited(S \cup {c}, q)) = Cardinality(Credited(S, q)) + 1
           /\ c[1] # q => Credited(S \cup {c}, q) = Credited(S, q)
<1>1. IsFiniteSet(Credited(S, q)) /\ c \notin Credited(S, q)
  BY FS_Subset DEF Credited
<1>2. c[1] = q => Credited(S \cup {c}, q) = Credited(S, q) \cup {c}
  BY DEF Credited
<1>3. Cardinality(Credited(S, q) \cup {c}) = Cardinality(Credited(S, q)) + 1
  BY <1>1, FS_AddElement
<1>4. c[1] # q => Credited(S \cup {c}, q) = Credited(S, q)
  BY DEF Credited
<1>5. QED
  BY <1>2, <1>3, <1>4

LEMMA LearningInvInit == LearningInit => LearningInv
<1> SUFFICES ASSUME LearningInit PROVE LearningInv
  OBVIOUS
<1>1. count = [q \in Queries |-> [k \in COUNTERS |-> 0]] /\ receipts = {} /\ converted = {}
      /\ rowLock = [q \in Queries |-> NoWriter] /\ writer = [w \in Writers |-> Unused]
  BY DEF LearningInit
<1>2. CountsTyped
  BY <1>1 DEF CountsTyped
<1>3. ReceiptsFit /\ ConvertedFit
  BY <1>1, FS_EmptySet DEF ReceiptsFit, ConvertedFit
<1>4. \A w \in Writers : writer[w].kind = "none"
  BY <1>1 DEF Unused
<1>5. WritersFit /\ RowsHeld /\ Uncredited
  BY <1>1, <1>4 DEF WritersFit, DoingFits, RowsHeld, Uncredited
<1>6. Tallied
  <2>1. \A q : Credited(converted, q) = {} /\ \A k : Reported(receipts, k, q) = {}
    BY <1>1 DEF Credited, Reported
  <2>2. \A q \in Queries, k \in COUNTERS : count[q][k] = 0
    BY <1>1
  <2>3. {"impression", "selection", "conversions", "successes"} \subseteq COUNTERS
    BY DEF COUNTERS
  <2>4. QED
    BY <2>1, <2>2, <2>3, FS_EmptySet DEF Tallied
<1>7. Founded
  BY <1>1 DEF Founded
<1>8. QED
  BY <1>2, <1>3, <1>5, <1>6, <1>7 DEF LearningInv

\* A transaction that begins locks a row that no other one works on.
LEMMA LocksInv ==
    ASSUME LearningInv, NEW w \in Writers, NEW q \in Queries, NEW doing, Locks(w, q, doing),
           doing.query = q, DoingFits(doing),
           doing.kind = "learn" => <<q, doing.credit>> \notin converted
    PROVE  LearningInv'
<1> USE DEF LearningInv
<1>1. /\ UNCHANGED <<count, receipts, converted>> /\ rowLock[q] = NoWriter
      /\ rowLock' = [rowLock EXCEPT ![q] = w] /\ writer' = [writer EXCEPT ![w] = doing]
  BY DEF Locks, Lockable
<1>2. writer' = [v \in Writers |-> writer'[v]] /\ \A v \in Writers : v # w => writer'[v] = writer[v]
  BY <1>1 DEF RowsHeld
<1>3. writer'[w] = doing /\ rowLock'[q] = w
  BY <1>1 DEF RowsHeld
<1>4. WritersFit' /\ Uncredited'
  BY <1>1, <1>2, <1>3 DEF WritersFit, DoingFits, Uncredited
<1>5. RowsHeld'
  <2> SUFFICES ASSUME NEW v \in Writers, writer'[v].kind # "none"
               PROVE  rowLock'[writer'[v].query] = v
    BY <1>1, <1>2 DEF RowsHeld
  <2>1. CASE v = w
    BY <1>3, <2>1
  <2>2. CASE v # w
    <3>1. rowLock[writer[v].query] = v /\ writer[v].query \in Queries
      BY <1>2, <2>2 DEF RowsHeld, WritersFit, DoingFits, Receipts
    <3>2. writer[v].query # q
      BY <1>1, <3>1, WriterAssumption
    <3>3. QED
      BY <1>1, <1>2, <2>2, <3>1, <3>2 DEF RowsHeld
  <2>3. QED
    BY <2>1, <2>2
<1>6. QED
  BY <1>1, <1>4, <1>5 DEF CountsTyped, ReceiptsFit, ConvertedFit, Tallied, Founded

\* One that ends gives its row back, and only its own.
LEMMA ReleasesHeld ==
    ASSUME LearningInv, NEW w \in Writers, Releases(w)
    PROVE  /\ RowsHeld'
           /\ \A v \in Writers : v # w => writer'[v] = writer[v]
           /\ writer'[w] = Unused
<1>1. /\ rowLock' = [q \in Queries |-> IF rowLock[q] = w THEN NoWriter ELSE rowLock[q]]
      /\ writer' = [writer EXCEPT ![w] = Unused] /\ writer = [v \in Writers |-> writer[v]]
  BY DEF Releases, LearningInv, RowsHeld
<1>2. \A v \in Writers : v # w /\ writer[v].kind # "none" =>
         rowLock[writer[v].query] = v /\ writer[v].query \in Queries
  BY DEF LearningInv, RowsHeld, WritersFit, DoingFits, Receipts
<1>3. \A v \in Writers : v # w => writer'[v] = writer[v]
  BY <1>1
<1>4. writer'[w] = Unused /\ writer' = [v \in Writers |-> writer'[v]]
  BY <1>1
<1>5. writer'[w].kind = "none"
  BY <1>4 DEF Unused
<1>6. QED
  BY <1>1, <1>2, <1>3, <1>4, <1>5 DEF RowsHeld

LEMMA ReportInv ==
    ASSUME LearningInv, NEW w \in Writers, Report(w) PROVE LearningInv'
<1> DEFINE seen == writer[w]
<1> USE DEF LearningInv
<1>1. /\ seen.kind \in {"impression", "selection"}
      /\ receipts' = receipts \cup {seen} /\ UNCHANGED converted /\ Releases(w)
      /\ count' = IF seen \in receipts THEN count
                  ELSE [count EXCEPT ![seen.query][seen.kind] = @ + 1]
  BY DEF Report
<1>2. /\ seen \in Receipts /\ seen.query \in Queries
      /\ seen.kind = "selection" => Receipt("impression", seen.query, seen.lookup) \in receipts
  BY <1>1 DEF WritersFit, DoingFits, Receipts
<1>3. RowsHeld' /\ writer'[w] = Unused /\ \A v \in Writers : v # w => writer'[v] = writer[v]
  BY <1>1, ReleasesHeld
<1>4. writer'[w].kind = "none"
  BY <1>3 DEF Unused
<1>5. ReceiptsFit' /\ ConvertedFit'
  BY <1>1, <1>2, FS_AddElement DEF ReceiptsFit, ConvertedFit
<1>6. WritersFit' /\ Uncredited'
  <2>1. WritersFit'
    BY <1>1, <1>3, <1>4 DEF WritersFit, DoingFits
  <2>2. Uncredited'
    BY <1>1, <1>3, <1>4 DEF Uncredited
  <2>3. QED
    BY <2>1, <2>2
<1>7. Founded'
  BY <1>1, <1>2 DEF Founded
<1> HIDE DEF seen
<1>8. CountsTyped' /\ Tallied'
  <2>1. CASE seen \in receipts
    <3>1. UNCHANGED <<count, receipts, converted>>
      BY <1>1, <2>1
    <3>2. QED
      BY <3>1 DEF CountsTyped, Tallied
  <2>2. CASE seen \notin receipts
    <3>1. {"impression", "selection", "conversions", "successes"} \subseteq COUNTERS
      BY DEF COUNTERS
    <3>2. /\ CountsTyped'
          /\ \A q \in Queries, k \in COUNTERS :
                count'[q][k] = IF k = seen.kind /\ q = seen.query THEN count[q][k] + 1 ELSE count[q][k]
      BY <1>1, <1>2, <2>2, <3>1 DEF CountsTyped
    <3>3. \A q \in Queries, k \in {"impression", "selection"} :
             count'[q][k] = Cardinality(Reported(receipts', k, q))
      <4> SUFFICES ASSUME NEW q \in Queries, NEW k \in {"impression", "selection"}
                   PROVE  count'[q][k] = Cardinality(Reported(receipts', k, q))
        OBVIOUS
      <4>1. count[q][k] = Cardinality(Reported(receipts, k, q)) /\ k \in COUNTERS
        BY <3>1 DEF Tallied
      <4>2. /\ seen.kind = k /\ seen.query = q =>
                  Cardinality(Reported(receipts', k, q)) = Cardinality(Reported(receipts, k, q)) + 1
            /\ ~ (seen.kind = k /\ seen.query = q) => Reported(receipts', k, q) = Reported(receipts, k, q)
        BY <1>1, <2>2, ReportedGrows DEF ReceiptsFit
      <4>3. QED
        BY <3>2, <4>1, <4>2
    <3>4. \A q \in Queries, k \in {"conversions", "successes"} : count'[q][k] = count[q][k]
      <4>1. \A k \in {"conversions", "successes"} : k # seen.kind /\ k \in COUNTERS
        BY <1>1, <3>1
      <4>2. QED
        BY <3>2, <4>1
    <3>5. QED
      BY <1>1, <3>2, <3>3, <3>4 DEF Tallied
  <2>3. QED
    BY <2>1, <2>2
<1>9. QED
  BY <1>3, <1>5, <1>6, <1>7, <1>8

LEMMA LearnInv ==
    ASSUME LearningInv, NEW w \in Writers, Learn(w) PROVE LearningInv'
<1> USE DEF LearningInv
<1>1. PICK q, l : q = writer[w].query /\ l = writer[w].credit
  OBVIOUS
<1>2. writer[w].kind = "learn" /\ Releases(w) /\ UNCHANGED receipts
  BY DEF Learn
<1>3. /\ q \in Queries /\ l \in Lookups \cup {NoLookup}
      /\ l # NoLookup => Receipt("selection", q, l) \in receipts
      /\ <<q, l>> \notin converted
  BY <1>1, <1>2 DEF WritersFit, DoingFits, Uncredited
<1>4. \/ /\ l = NoLookup /\ UNCHANGED converted
         /\ count' = [count EXCEPT ![q]["successes"] = @ + 1]
      \/ /\ l # NoLookup /\ converted' = converted \cup {<<q, l>>}
         /\ count' = [count EXCEPT ![q]["successes"] = @ + 1, ![q]["conversions"] = @ + 1]
  BY <1>1, <1>3 DEF Learn
<1>5. RowsHeld' /\ writer'[w] = Unused /\ \A v \in Writers : v # w => writer'[v] = writer[v]
  BY <1>2, ReleasesHeld
<1>6. writer'[w].kind = "none"
  BY <1>5 DEF Unused
<1>7. ReceiptsFit' /\ WritersFit'
  BY <1>2, <1>5, <1>6 DEF ReceiptsFit, WritersFit, DoingFits
<1>8. ConvertedFit' /\ Founded'
  <2>1. CASE l = NoLookup
    BY <1>2, <1>4, <2>1 DEF ConvertedFit, Founded
  <2>2. CASE l # NoLookup
    <3>1. converted' = converted \cup {<<q, l>>} /\ <<q, l>> \in Queries \X Lookups
      BY <1>3, <1>4, <2>2
    <3>2. ConvertedFit'
      BY <3>1, FS_AddElement DEF ConvertedFit
    <3>3. Founded'
      BY <1>2, <1>3, <2>2, <3>1 DEF Founded
    <3>4. QED
      BY <3>2, <3>3
  <2>3. QED
    BY <2>1, <2>2
\* The others work on other suggestions.
<1>9. Uncredited'
  <2> SUFFICES ASSUME NEW v \in Writers, v # w, writer[v].kind = "learn"
               PROVE  <<writer[v].query, writer[v].credit>> \notin converted'
    BY <1>5, <1>6 DEF Uncredited
  <2>1. rowLock[writer[v].query] = v /\ rowLock[q] = w
    BY <1>1, <1>2 DEF RowsHeld
  <2>2. writer[v].query # q /\ <<writer[v].query, writer[v].credit>> \notin converted
    BY <2>1 DEF Uncredited
  <2>3. QED
    BY <1>4, <2>2
<1>10. CountsTyped' /\ Tallied'
  <2>1. {"impression", "selection", "conversions", "successes"} \subseteq COUNTERS
    BY DEF COUNTERS
  <2>2. /\ CountsTyped'
        /\ \A p \in Queries, k \in {"impression", "selection"} : count'[p][k] = count[p][k]
        /\ \A p \in Queries \ {q} : count'[p] = count[p]
        /\ count'[q]["successes"] = count[q]["successes"] + 1
        /\ count'[q]["conversions"] = IF l = NoLookup THEN count[q]["conversions"]
                                      ELSE count[q]["conversions"] + 1
    <3> DEFINE one == [count EXCEPT ![q]["successes"] = @ + 1]
    <3>1. count[q] \in [COUNTERS -> Nat]
      BY <1>3 DEF CountsTyped
    <3>2. one \in [Queries -> [COUNTERS -> Nat]]
      BY <1>3, <2>1, <3>1 DEF CountsTyped
    <3>3. /\ \A p \in Queries, k \in {"impression", "selection"} : one[p][k] = count[p][k]
          /\ \A p \in Queries \ {q} : one[p] = count[p]
          /\ one[q]["successes"] = count[q]["successes"] + 1
          /\ one[q]["conversions"] = count[q]["conversions"]
      BY <1>3, <2>1, <3>1 DEF CountsTyped
    <3>4. IF l = NoLookup THEN count' = one
          ELSE count' = [one EXCEPT ![q]["conversions"] = @ + 1]
      BY <1>4
    <3> HIDE DEF one
    <3>5. CASE l = NoLookup
      <4>1. count' = one
        BY <3>4, <3>5
      <4>2. CountsTyped'
        BY <3>2, <4>1 DEF CountsTyped
      <4>3. QED
        BY <3>3, <3>5, <4>1, <4>2
    <3>6. CASE l # NoLookup
      <4>1. count' = [one EXCEPT ![q]["conversions"] = @ + 1]
        BY <3>4, <3>6
      <4>2. CountsTyped'
        BY <1>3, <2>1, <3>2, <4>1 DEF CountsTyped
      <4>3. /\ \A p \in Queries, k \in {"impression", "selection"} : count'[p][k] = one[p][k]
            /\ \A p \in Queries \ {q} : count'[p] = one[p]
            /\ count'[q]["successes"] = one[q]["successes"]
            /\ count'[q]["conversions"] = one[q]["conversions"] + 1
        BY <1>3, <2>1, <3>2, <4>1
      <4>4. QED
        BY <3>3, <3>6, <4>2, <4>3
    <3>7. QED
      BY <3>5, <3>6
  <2>3. ASSUME NEW p \in Queries
        PROVE  /\ count'[p]["conversions"] = Cardinality(Credited(converted', p))
               /\ count'[p]["conversions"] <= count'[p]["successes"]
    <3>1. /\ count[p]["conversions"] = Cardinality(Credited(converted, p))
          /\ count[p]["conversions"] <= count[p]["successes"]
          /\ count[p]["conversions"] \in Nat /\ count[p]["successes"] \in Nat
      BY <2>1 DEF Tallied, CountsTyped
    <3>2. l # NoLookup =>
             /\ p = q => Cardinality(Credited(converted', p)) = Cardinality(Credited(converted, p)) + 1
             /\ p # q => Credited(converted', p) = Credited(converted, p)
      BY <1>3, <1>4, CreditedGrows DEF ConvertedFit
    <3>3. QED
      BY <1>4, <2>2, <3>1, <3>2
  <2>4. QED
    BY <1>2, <2>2, <2>3 DEF Tallied
<1>11. QED
  BY <1>5, <1>7, <1>8, <1>9, <1>10

LEMMA LearningInvStep == LearningInv /\ [LearningNext]_learningVars => LearningInv'
<1> SUFFICES ASSUME LearningInv, [LearningNext]_learningVars PROVE LearningInv'
  OBVIOUS
<1>1. CASE Age \/ Withhold \/ UNCHANGED learningVars
  <2>1. UNCHANGED <<count, receipts, converted, rowLock, writer>>
    BY <1>1 DEF Age, Withhold, learningVars
  <2>2. QED
    BY <2>1 DEF LearningInv, CountsTyped, ReceiptsFit, ConvertedFit, WritersFit, DoingFits, RowsHeld,
                Tallied, Founded, Uncredited
<1>2. ASSUME NEW w \in Writers, GiveUpWriting(w) PROVE LearningInv'
  <2>1. RowsHeld' /\ writer'[w] = Unused /\ \A v \in Writers : v # w => writer'[v] = writer[v]
    BY <1>2, ReleasesHeld DEF GiveUpWriting
  <2>2. writer'[w].kind = "none" /\ UNCHANGED <<count, receipts, converted>>
    BY <1>2, <2>1 DEF Unused, GiveUpWriting
  <2>3. WritersFit' /\ Uncredited'
    BY <2>1, <2>2 DEF LearningInv, WritersFit, DoingFits, Uncredited
  <2>4. QED
    BY <2>1, <2>2, <2>3 DEF LearningInv, CountsTyped, ReceiptsFit, ConvertedFit, Tallied, Founded
<1>3. ASSUME NEW w \in Writers, NEW q \in Queries, NEW l \in Lookups, Show(w, q, l) PROVE LearningInv'
  <2> DEFINE doing == Receipt("impression", q, l)
  <2>1. doing \in Receipts /\ doing.kind = "impression" /\ doing.query = q
    BY DEF Receipts, Receipt
  <2>2. DoingFits(doing) /\ Locks(w, q, doing)
    BY <1>3, <2>1 DEF DoingFits, Show
  <2> HIDE DEF doing
  <2>3. QED
    BY <2>1, <2>2, LocksInv
<1>4. ASSUME NEW w \in Writers, NEW q \in Queries, NEW l \in Lookups, Choose(w, q, l) PROVE LearningInv'
  <2> DEFINE doing == Receipt("selection", q, l)
  <2>1. doing \in Receipts /\ doing.kind = "selection" /\ doing.query = q /\ doing.lookup = l
    BY DEF Receipts, Receipt
  <2>2. Locks(w, q, doing) /\ Receipt("impression", q, l) \in receipts
    BY <1>4 DEF Choose, Shown
  <2> HIDE DEF doing
  <2>3. DoingFits(doing)
    BY <2>1, <2>2 DEF DoingFits
  <2>4. QED
    BY <2>1, <2>2, <2>3, LocksInv
<1>5. ASSUME NEW w \in Writers, NEW q \in Queries, NEW l \in Lookups \cup {NoLookup}, Execute(w, q, l)
      PROVE  LearningInv'
  <2>1. PICK c : c = IF l # NoLookup /\ Creditable(q, l) THEN l ELSE NoLookup
    OBVIOUS
  <2>2. c \in Lookups \cup {NoLookup} /\ (c # NoLookup => Creditable(q, c))
    BY <2>1
  <2>3. <<q, c>> \notin converted
    <3>1. <<q, NoLookup>> \notin converted
      BY WriterAssumption DEF LearningInv, ConvertedFit
    <3>2. QED
      BY <2>2, <3>1 DEF Creditable
  <2> DEFINE doing == [kind |-> "learn", query |-> q, credit |-> c]
  <2>4. doing.kind = "learn" /\ doing.query = q /\ doing.credit = c
    OBVIOUS
  <2>5. Locks(w, q, doing)
    BY <1>5, <2>1 DEF Execute
  <2> HIDE DEF doing
  <2>6. DoingFits(doing)
    BY <2>2, <2>4 DEF DoingFits, Creditable
  <2>7. QED
    BY <2>3, <2>4, <2>5, <2>6, LocksInv
<1>6. QED
  BY <1>1, <1>2, <1>3, <1>4, <1>5, ReportInv, LearnInv DEF LearningNext

LEMMA LearningInvariant == LearningSpec => []LearningInv
<1>1. LearningInit => LearningInv
  BY LearningInvInit
<1>2. LearningInv /\ [LearningNext]_learningVars => LearningInv'
  BY LearningInvStep
<1>3. QED
  BY <1>1, <1>2, PTL DEF LearningSpec

\* repositories/research_suggestions.py: reports and receipts that are repeated,
\* at once or later, count once, and no execution is undone by the constraint.
THEOREM CountedOnce == LearningSpec => []LearnedOnce
<1>1. LearningInv => LearnedOnce
  BY DEF LearningInv, Tallied, Founded, Uncredited, Reported, Credited, LearnedOnce
<1>2. QED
  BY <1>1, LearningInvariant, PTL

----------------------------------------------------------------------------
(* Conversations. A conversation in the store is one that was given out, a   *)
(* turn that waits has one for itself, and there are finitely many.          *)

TalkRows == [owner : Owners, expires : Nat, busy : BOOLEAN, facts : {"none", "plain"}]
TalksFit == /\ talk = [h \in Handles |-> talk[h]] /\ tick \in Nat
            /\ \A h \in Handles : talk[h] = NoTalk \/ talk[h] \in TalkRows
SpentFit == Stored \subseteq spent /\ IsFiniteSet(Stored)
Executing == /\ turn = [r \in Turns |-> turn[r]]
             /\ \A r \in Turns : turn[r].at = "executing" => turn[r].kind \in {"plain", "private"}

\* The parts of ConversationKept.
Owned(o) == {h \in Stored : talk[h].owner = o}
Working(r) == /\ turn[r].handle \in Stored
              /\ talk[turn[r].handle].busy /\ talk[turn[r].handle].owner = turn[r].owner
TurnsWork == \A r \in Turns : turn[r].at # "idle" => Working(r)
OneTurnEach == \A r, q \in Turns :
    turn[r].at # "idle" /\ turn[q].at # "idle" /\ turn[q].handle = turn[r].handle => q = r
Limited == /\ Cardinality(Stored) <= Capacity
           /\ \A o \in Owners : Cardinality(Owned(o)) <= PerSession
BusyWithTurn == \A h \in Stored :
    talk[h].busy => \E r \in Turns : turn[r].at # "idle" /\ turn[r].handle = h

ConversationsInv == /\ TalksFit /\ SpentFit /\ Executing
                    /\ TurnsWork /\ OneTurnEach /\ Limited /\ BusyWithTurn

LEMMA TalkRowFields ==
    ASSUME NEW row \in TalkRows
    PROVE  /\ row.owner \in Owners /\ row.expires \in Nat /\ row.busy \in BOOLEAN
           /\ row.facts \in {"none", "plain"} /\ row # NoTalk
<1>1. row.owner \in Owners /\ row.expires \in Nat /\ row.busy \in BOOLEAN /\ row.facts \in {"none", "plain"}
  BY DEF TalkRows
<1>2. NoTalk.owner \notin Owners
  BY HandleAssumption DEF NoTalk
<1>3. QED
  BY <1>1, <1>2

LEMMA StoredRows == TalksFit => \A h \in Handles : h \in Stored <=> talk[h] \in TalkRows
  BY TalkRowFields DEF TalksFit, Stored

\* The rows that a turn makes.
Busied(row) == [row EXCEPT !.busy = TRUE]
Idled(row, until, facts) == [row EXCEPT !.busy = FALSE, !.expires = until, !.facts = facts]
BusyTalk(o, until, facts) == [owner |-> o, expires |-> until, busy |-> TRUE, facts |-> facts]
IdleTalk(o, until, facts) == [owner |-> o, expires |-> until, busy |-> FALSE, facts |-> facts]
LEMMA BusyTalkRow ==
    ASSUME NEW o \in Owners, NEW until \in Nat, NEW facts \in {"none", "plain"},
           NEW new, new = BusyTalk(o, until, facts)
    PROVE  new \in TalkRows /\ new.owner = o /\ new.busy
  BY DEF BusyTalk, TalkRows
LEMMA IdleTalkRow ==
    ASSUME NEW o \in Owners, NEW until \in Nat, NEW facts \in {"none", "plain"},
           NEW new, new = IdleTalk(o, until, facts)
    PROVE  new \in TalkRows /\ new.owner = o /\ ~ new.busy
  BY DEF IdleTalk, TalkRows
LEMMA BusiedRow ==
    ASSUME NEW row \in TalkRows, NEW new, new = Busied(row)
    PROVE  new \in TalkRows /\ new.owner = row.owner /\ new.busy
<1>1. new = BusyTalk(row.owner, row.expires, row.facts)
  BY DEF Busied, BusyTalk, TalkRows
<1>2. QED
  BY <1>1, TalkRowFields, BusyTalkRow
LEMMA IdledRow ==
    ASSUME NEW row \in TalkRows, NEW until \in Nat, NEW facts \in {"none", "plain"},
           NEW new, new = Idled(row, until, facts)
    PROVE  new \in TalkRows /\ new.owner = row.owner /\ ~ new.busy
<1>1. new = IdleTalk(row.owner, until, facts)
  BY DEF Idled, IdleTalk, TalkRows
<1>2. QED
  BY <1>1, TalkRowFields, IdleTalkRow

LEMMA ConversationsInvInit == ConversationsInit => ConversationsInv
<1> SUFFICES ASSUME ConversationsInit PROVE ConversationsInv
  OBVIOUS
<1>1. tick = 0 /\ talk = [h \in Handles |-> NoTalk] /\ turn = [r \in Turns |-> NoTurn]
  BY DEF ConversationsInit
<1>2. Stored = {} /\ \A o : Owned(o) = {}
  BY <1>1 DEF Stored, Owned
<1>3. Limited /\ SpentFit
  BY <1>2, FS_EmptySet, LimitAssumption DEF Limited, SpentFit
<1>4. \A r \in Turns : turn[r].at = "idle"
  BY <1>1 DEF NoTurn
<1>5. QED
  BY <1>1, <1>2, <1>3, <1>4
  DEF ConversationsInv, TalksFit, Executing, TurnsWork, OneTurnEach, BusyWithTurn

\* A step that adds no conversation and changes no owner keeps the limits.
LEMMA NothingAdded ==
    ASSUME ConversationsInv, talk' = [g \in Handles |-> talk'[g]], tick' \in Nat, UNCHANGED spent,
           NEW rest \in SUBSET Stored, \A g \in Handles \ rest : talk'[g] = NoTalk,
           \A g \in rest : talk'[g] \in TalkRows /\ talk'[g].owner = talk[g].owner
    PROVE  Stored' = rest /\ TalksFit' /\ SpentFit' /\ Limited'
<1> USE DEF ConversationsInv
<1>1. Stored' = rest /\ rest \subseteq Handles
  BY TalkRowFields DEF Stored
<1>2. TalksFit'
  BY <1>1 DEF TalksFit
<1>3. SpentFit'
  BY <1>1, FS_Subset DEF SpentFit
<1>4. Limited'
  <2>1. Cardinality(rest) <= Cardinality(Stored) /\ Cardinality(rest) \in Nat /\ Cardinality(Stored) \in Nat
    BY FS_Subset, FS_CardinalityType DEF SpentFit
  <2>2. ASSUME NEW o \in Owners PROVE Cardinality(Owned(o)') <= PerSession
    <3>1. IsFiniteSet(Owned(o)) /\ Owned(o)' \in SUBSET Owned(o)
      BY <1>1, FS_Subset DEF SpentFit, Owned
    <3>2. /\ Cardinality(Owned(o)') <= Cardinality(Owned(o)) /\ IsFiniteSet(Owned(o)')
      BY <3>1, FS_Subset
    <3>3. Cardinality(Owned(o)') \in Nat /\ Cardinality(Owned(o)) \in Nat
      BY <3>1, <3>2, FS_CardinalityType
    <3>4. QED
      BY <3>2, <3>3, LimitAssumption DEF Limited
  <2>3. QED
    BY <1>1, <2>1, <2>2, LimitAssumption DEF Limited
<1>5. QED
  BY <1>1, <1>2, <1>3, <1>4

\* The store after some idle conversations went.
Remaining(rest) == talk' = [g \in Handles |-> IF g \in rest THEN talk[g] ELSE NoTalk]
Untouchable(rest) == \A h \in Stored : talk[h].busy => h \in rest

LEMMA RemainingInv ==
    ASSUME ConversationsInv, NEW rest \in SUBSET Stored, Untouchable(rest), Remaining(rest),
           UNCHANGED <<tick, spent, turn>>
    PROVE  ConversationsInv'
<1> USE DEF ConversationsInv
<1>1. /\ talk' = [g \in Handles |-> talk'[g]] /\ \A g \in rest : talk'[g] = talk[g]
      /\ \A g \in Handles \ rest : talk'[g] = NoTalk
  BY DEF Remaining, Stored
<1>2. \A g \in rest : talk[g] \in TalkRows
  BY StoredRows DEF Stored
<1>3. Stored' = rest /\ TalksFit' /\ SpentFit' /\ Limited'
  BY <1>1, <1>2, NothingAdded DEF TalksFit
<1>4. Executing' /\ TurnsWork' /\ OneTurnEach' /\ BusyWithTurn'
  BY <1>1, <1>3 DEF Executing, TurnsWork, Working, OneTurnEach, BusyWithTurn, Untouchable
<1>5. QED
  BY <1>3, <1>4

\* What expiry leaves has every conversation with a turn.
LEMMA FreshRest ==
    ASSUME ConversationsInv PROVE Fresh(talk) \in SUBSET Stored /\ Untouchable(Fresh(talk))
  BY DEF Fresh, Stored, Untouchable

\* Eviction takes at most one, an idle one, and only if the set is full.
LEMMA RoomMade ==
    ASSUME NEW among, IsFiniteSet(among), NEW limit \in Nat \ {0}, Cardinality(among) <= limit,
           NEW out \in MakeRoom(talk, among, limit)
    PROVE  /\ out \in SUBSET among /\ \A h \in out : ~ talk[h].busy
           /\ IsFiniteSet(among \ out) /\ Cardinality(among \ out) \in Nat
           /\ Cardinality(among \ out) + 1 <= limit
<1>1. Cardinality(among) \in Nat
  BY FS_CardinalityType
<1>2. CASE Cardinality(among) < limit
  <2>1. out = {}
    BY <1>2 DEF MakeRoom
  <2>2. among \ out = among
    BY <2>1
  <2>3. QED
    BY <1>1, <1>2, <2>1, <2>2
<1>3. CASE ~ Cardinality(among) < limit
  <2>1. PICK h \in Evictable(talk, among) : out = {h}
    BY <1>3 DEF MakeRoom
  <2>2. h \in among /\ ~ talk[h].busy
    BY <2>1 DEF Evictable
  <2>3. IsFiniteSet(among \ {h}) /\ Cardinality(among \ {h}) = Cardinality(among) - 1
    BY <2>2, FS_RemoveElement
  <2>4. among # {}
    BY <2>2
  <2>5. Cardinality(among) # 0
    BY <2>4, FS_EmptySet
  <2>6. QED
    BY <1>1, <1>3, <2>1, <2>2, <2>3, <2>5
<1>4. QED
  BY <1>2, <1>3

LEMMA StartedInv ==
    ASSUME ConversationsInv, NEW r \in Turns, NEW o \in Owners, turn[r] = NoTurn,
           NEW out1 \in MakeRoom(talk, {h \in Fresh(talk) : talk[h].owner = o}, PerSession),
           NEW out2 \in MakeRoom(talk, Fresh(talk) \ out1, Capacity),
           NEW h \in Handles \ spent, NEW expired \in BOOLEAN, UNCHANGED tick,
           spent' = spent \cup {h}, Enters(r, o, h, expired),
           talk' = [g \in Handles |->
                      IF g = h THEN BusyTalk(o, tick + KeptFor, "none")
                      ELSE IF g \in Fresh(talk) \ (out1 \cup out2) THEN talk[g] ELSE NoTalk]
    PROVE  ConversationsInv'
<1> USE DEF ConversationsInv
<1> DEFINE fresh == Fresh(talk)
           mine == {g \in fresh : talk[g].owner = o}
           rest == fresh \ (out1 \cup out2)
<1>1. fresh \in SUBSET Stored /\ Untouchable(fresh)
  BY FreshRest
<1>2. /\ IsFiniteSet(fresh) /\ Cardinality(fresh) <= Cardinality(Stored)
      /\ IsFiniteSet(Stored) /\ Cardinality(fresh) \in Nat /\ Cardinality(Stored) \in Nat
  BY <1>1, FS_Subset, FS_CardinalityType DEF SpentFit
<1>3. IsFiniteSet(mine) /\ Cardinality(mine) <= PerSession
  <2>1. mine \in SUBSET Owned(o) /\ Owned(o) \in SUBSET Stored
    BY <1>1 DEF Owned
  <2>2. IsFiniteSet(Owned(o)) /\ IsFiniteSet(mine) /\ Cardinality(mine) <= Cardinality(Owned(o))
    BY <1>2, <2>1, FS_Subset
  <2>3. Cardinality(mine) \in Nat /\ Cardinality(Owned(o)) \in Nat
    BY <2>2, FS_CardinalityType
  <2>4. QED
    BY <2>2, <2>3, LimitAssumption DEF Limited
<1>4. /\ out1 \in SUBSET mine /\ \A g \in out1 : ~ talk[g].busy
      /\ IsFiniteSet(mine \ out1) /\ Cardinality(mine \ out1) \in Nat
      /\ Cardinality(mine \ out1) + 1 <= PerSession
  <2>1. PerSession \in Nat \ {0} /\ out1 \in MakeRoom(talk, mine, PerSession)
    BY LimitAssumption
  <2> HIDE DEF mine
  <2>2. QED
    BY <1>3, <2>1, RoomMade
<1>5. /\ IsFiniteSet(fresh \ out1) /\ Cardinality(fresh \ out1) <= Capacity
  <2>1. (fresh \ out1) \in SUBSET fresh
    OBVIOUS
  <2>2. IsFiniteSet(fresh \ out1) /\ Cardinality(fresh \ out1) <= Cardinality(fresh)
    BY <1>2, <2>1, FS_Subset
  <2>3. Cardinality(fresh \ out1) \in Nat
    BY <2>2, FS_CardinalityType
  <2>4. QED
    BY <1>2, <2>2, <2>3, LimitAssumption DEF Limited
<1>6. /\ out2 \in SUBSET (fresh \ out1) /\ \A g \in out2 : ~ talk[g].busy
      /\ IsFiniteSet((fresh \ out1) \ out2) /\ Cardinality((fresh \ out1) \ out2) \in Nat
      /\ Cardinality((fresh \ out1) \ out2) + 1 <= Capacity
  <2>1. Capacity \in Nat \ {0} /\ out2 \in MakeRoom(talk, fresh \ out1, Capacity)
    BY LimitAssumption
  <2> HIDE DEF fresh
  <2>2. QED
    BY <1>5, <2>1, RoomMade
<1>7. rest = (fresh \ out1) \ out2 /\ rest \in SUBSET Stored /\ h \notin rest /\ h \notin Stored
  BY <1>1 DEF SpentFit
<1>8. Untouchable(rest)
  BY <1>1, <1>4, <1>6 DEF Untouchable
<1>9. /\ talk' = [g \in Handles |-> talk'[g]] /\ \A g \in rest : talk'[g] = talk[g]
      /\ \A g \in Handles \ (rest \cup {h}) : talk'[g] = NoTalk
      /\ talk'[h] = BusyTalk(o, tick + KeptFor, "none")
  BY <1>7 DEF Stored
<1>10. talk'[h] \in TalkRows /\ talk'[h].owner = o /\ talk'[h].busy /\ talk'[h] # NoTalk
  <2>1. tick + KeptFor \in Nat
    BY LimitAssumption DEF TalksFit
  <2>2. talk'[h] \in TalkRows /\ talk'[h].owner = o /\ talk'[h].busy
    BY <1>9, <2>1, BusyTalkRow
  <2>3. QED
    BY <2>2, TalkRowFields
<1> HIDE DEF fresh, mine, rest
<1>11. Stored' = rest \cup {h} /\ rest \subseteq Handles
  <2>1. rest \subseteq Handles /\ \A g \in rest : talk'[g] # NoTalk
    BY <1>7, <1>9 DEF Stored
  <2>2. QED
    BY <1>9, <1>10, <2>1 DEF Stored
<1>12. TalksFit'
  BY <1>9, <1>10, <1>11 DEF TalksFit
<1>13. SpentFit'
  BY <1>6, <1>7, <1>11, FS_AddElement DEF SpentFit
<1>14. Limited'
  <2>1. Cardinality(Stored') <= Capacity
    <3>1. Cardinality(rest \cup {h}) = Cardinality(rest) + 1
      BY <1>6, <1>7, FS_AddElement
    <3>2. QED
      BY <1>6, <1>7, <1>11, <3>1
  <2>2. ASSUME NEW p \in Owners PROVE Cardinality(Owned(p)') <= PerSession
    <3>1. CASE p = o
      <4> DEFINE own == Owned(p)' \ {h}
      <4>1. Owned(p)' = own \cup {h} /\ h \notin own
        BY <1>10, <1>11, <3>1 DEF Owned
      <4>2. own \in SUBSET (mine \ out1)
        BY <1>7, <1>9, <1>11, <3>1 DEF Owned, mine, rest
      <4>3. IsFiniteSet(own) /\ Cardinality(own) <= Cardinality(mine \ out1)
        BY <1>4, <4>2, FS_Subset
      <4> HIDE DEF own
      <4>4. Cardinality(Owned(p)') = Cardinality(own) + 1 /\ Cardinality(own) \in Nat
        BY <4>1, <4>3, FS_AddElement, FS_CardinalityType
      <4>5. QED
        BY <1>4, <4>3, <4>4, LimitAssumption
    <3>2. CASE p # o
      <4>1. Owned(p)' \in SUBSET Owned(p) /\ Owned(p) \in SUBSET Stored
        BY <1>7, <1>9, <1>10, <1>11, <3>2 DEF Owned
      <4>2. IsFiniteSet(Owned(p))
        BY <1>2, <4>1, FS_Subset
      <4>3. Cardinality(Owned(p)') <= Cardinality(Owned(p)) /\ IsFiniteSet(Owned(p)')
        BY <4>1, <4>2, FS_Subset
      <4>4. Cardinality(Owned(p)') \in Nat /\ Cardinality(Owned(p)) \in Nat
        BY <4>2, <4>3, FS_CardinalityType
      <4>5. QED
        BY <4>3, <4>4, LimitAssumption DEF Limited
    <3>3. QED
      BY <3>1, <3>2
  <2>3. QED
    BY <2>1, <2>2 DEF Limited
<1>15. /\ turn' = [q \in Turns |-> turn'[q]] /\ \A q \in Turns : q # r => turn'[q] = turn[q]
       /\ turn'[r].at = "planning" /\ turn'[r].owner = o /\ turn'[r].handle = h
  BY DEF Enters, Executing
<1>16. \A q \in Turns : turn'[q].at # "idle" /\ q # r => turn'[q].handle \in rest
  BY <1>8, <1>15 DEF TurnsWork, Working, Untouchable
<1>17. TurnsWork'
  <2> SUFFICES ASSUME NEW q \in Turns, turn'[q].at # "idle" PROVE Working(q)'
    BY DEF TurnsWork
  <2>1. CASE q = r
    <3>1. turn'[q].handle = h /\ turn'[q].owner = o
      BY <1>15, <2>1
    <3>2. talk'[h].busy /\ talk'[h].owner = o /\ h \in Stored'
      BY <1>10, <1>11
    <3>3. QED
      BY <3>1, <3>2, Zenon DEF Working
  <2>2. CASE q # r
    BY <1>9, <1>11, <1>15, <1>16, <2>2 DEF TurnsWork, Working
  <2>3. QED
    BY <2>1, <2>2
<1>18. OneTurnEach'
  BY <1>7, <1>15, <1>16 DEF OneTurnEach
<1>19. BusyWithTurn'
  <2> SUFFICES ASSUME NEW g \in Stored', talk'[g].busy
               PROVE  \E q \in Turns : turn'[q].at # "idle" /\ turn'[q].handle = g
    BY DEF BusyWithTurn
  <2>1. CASE g = h
    BY <1>15, <2>1
  <2>2. CASE g # h
    <3>1. g \in Stored /\ talk[g].busy
      BY <1>7, <1>9, <1>11, <2>2
    <3>2. PICK q \in Turns : turn[q].at # "idle" /\ turn[q].handle = g
      BY <3>1 DEF BusyWithTurn
    <3>3. turn[r].at = "idle"
      BY DEF NoTurn
    <3>4. QED
      BY <1>15, <3>2, <3>3
  <2>3. QED
    BY <2>1, <2>2
<1>20. QED
  BY <1>12, <1>13, <1>14, <1>15, <1>17, <1>18, <1>19 DEF Executing

LEMMA StartInv ==
    ASSUME ConversationsInv, NEW r \in Turns, NEW o \in Owners, Start(r, o) PROVE ConversationsInv'
<1> DEFINE fresh == Fresh(talk)
           mine == {h \in fresh : talk[h].owner = o}
<1>1. fresh \in SUBSET Stored /\ Untouchable(fresh)
  BY FreshRest
<1>2. CASE \E out1 \in MakeRoom(talk, mine, PerSession) :
             \E out2 \in MakeRoom(talk, fresh \ out1, Capacity) :
             \E h \in Handles \ spent, expired \in BOOLEAN :
                /\ talk' = [g \in Handles |->
                     IF g = h THEN [owner |-> o, expires |-> tick + KeptFor, busy |-> TRUE, facts |-> "none"]
                     ELSE IF g \in fresh \ (out1 \cup out2) THEN talk[g] ELSE NoTalk]
                /\ spent' = spent \cup {h}
                /\ Enters(r, o, h, expired)
  BY <1>2, StartedInv DEF Start, BusyTalk
<1>3. CASE /\ \E out1 \in MakeRoom(talk, mine, PerSession) :
                 talk' = [g \in Handles |-> IF g \in fresh \ out1 THEN talk[g] ELSE NoTalk]
           /\ UNCHANGED <<tick, spent, turn>>
  <2>1. PICK out1 \in MakeRoom(talk, mine, PerSession) : Remaining(fresh \ out1)
    BY <1>3 DEF Remaining
  <2>2. \A h \in out1 : ~ talk[h].busy
    BY DEF MakeRoom, Evictable
  <2>3. (fresh \ out1) \in SUBSET Stored /\ Untouchable(fresh \ out1)
    BY <1>1, <2>2 DEF Untouchable
  <2> HIDE DEF fresh
  <2>4. QED
    BY <1>3, <2>1, <2>3, RemainingInv
<1>4. CASE /\ talk' = [g \in Handles |-> IF g \in fresh THEN talk[g] ELSE NoTalk]
           /\ UNCHANGED <<tick, spent, turn>>
  <2>1. Remaining(fresh)
    BY <1>4 DEF Remaining
  <2> HIDE DEF fresh
  <2>2. QED
    BY <1>1, <1>4, <2>1, RemainingInv
<1>5. QED
  BY <1>2, <1>3, <1>4 DEF Start

LEMMA ContinueInv ==
    ASSUME ConversationsInv, NEW r \in Turns, NEW o \in Owners, NEW h \in Handles, Continue(r, o, h)
    PROVE  ConversationsInv'
<1> USE DEF ConversationsInv
<1> DEFINE fresh == Fresh(talk)
<1>1. fresh \in SUBSET Stored /\ Untouchable(fresh)
  BY FreshRest
<1>2. /\ turn[r].at = "idle" /\ h \in fresh /\ talk[h].owner = o /\ UNCHANGED <<tick, spent>>
      /\ talk' = [g \in Handles |-> IF g \notin fresh THEN NoTalk
                                    ELSE IF g = h THEN Busied(talk[h]) ELSE talk[g]]
      /\ IF talk[h].busy THEN UNCHANGED turn ELSE Enters(r, o, h, FALSE)
  <2>1. turn[r].at = "idle" /\ h \in fresh /\ talk[h].owner = o /\ UNCHANGED <<tick, spent>>
    BY DEF Continue, NoTurn
  <2>2. talk' = [g \in Handles |-> IF g \notin fresh THEN NoTalk
                                  ELSE IF g = h THEN Busied(talk[h]) ELSE talk[g]]
    BY DEF Continue, Busied
  <2>3. IF talk[h].busy THEN UNCHANGED turn ELSE Enters(r, o, h, FALSE)
    BY DEF Continue
  <2>4. QED
    BY <2>1, <2>2, <2>3
<1> HIDE DEF fresh
<1>3. \A g \in fresh : talk[g] \in TalkRows
  BY <1>1, StoredRows DEF Stored
<1>4. /\ talk' = [g \in Handles |-> talk'[g]] /\ \A g \in Handles \ fresh : talk'[g] = NoTalk
      /\ \A g \in fresh \ {h} : talk'[g] = talk[g]
      /\ talk'[h] = Busied(talk[h])
  BY <1>1, <1>2 DEF Stored
<1>5. talk'[h] \in TalkRows /\ talk'[h].owner = o /\ talk'[h].busy
  BY <1>2, <1>3, <1>4, BusiedRow
<1>6. \A g \in fresh : talk'[g] \in TalkRows /\ talk'[g].owner = talk[g].owner
  BY <1>2, <1>3, <1>4, <1>5
<1>7. Stored' = fresh /\ TalksFit' /\ SpentFit' /\ Limited'
  BY <1>1, <1>2, <1>4, <1>6, NothingAdded DEF TalksFit
<1>8. \A q \in Turns : turn[q].at # "idle" =>
         turn[q].handle \in fresh /\ talk'[turn[q].handle].busy
  <2> SUFFICES ASSUME NEW q \in Turns, turn[q].at # "idle"
               PROVE  turn[q].handle \in fresh /\ talk'[turn[q].handle].busy
    OBVIOUS
  <2>1. PICK g : g = turn[q].handle
    OBVIOUS
  <2>2. g \in fresh /\ talk[g].busy
    BY <1>1, <2>1 DEF TurnsWork, Working, Untouchable
  <2>3. CASE g = h
    BY <1>5, <2>1, <2>2, <2>3
  <2>4. CASE g # h
    BY <1>4, <2>1, <2>2, <2>4
  <2>5. QED
    BY <2>3, <2>4
<1>9. CASE talk[h].busy
  <2>1. turn' = turn
    BY <1>2, <1>9
  <2>2. TurnsWork' /\ OneTurnEach' /\ Executing'
    BY <1>6, <1>7, <1>8, <2>1 DEF TurnsWork, Working, OneTurnEach, Executing
  <2>3. BusyWithTurn'
    BY <1>1, <1>2, <1>4, <1>7, <1>9, <2>1 DEF BusyWithTurn
  <2>4. QED
    BY <1>7, <2>2, <2>3
<1>10. CASE ~ talk[h].busy
  <2>1. /\ turn' = [q \in Turns |-> turn'[q]] /\ \A q \in Turns : q # r => turn'[q] = turn[q]
        /\ turn'[r].at = "planning" /\ turn'[r].owner = o /\ turn'[r].handle = h
    BY <1>2, <1>10 DEF Enters, Executing
  <2>2. \A q \in Turns : turn[q].at # "idle" => turn[q].handle # h
    BY <1>10 DEF TurnsWork, Working
  <2>3. TurnsWork'
    <3> SUFFICES ASSUME NEW q \in Turns, turn'[q].at # "idle" PROVE Working(q)'
      BY DEF TurnsWork
    <3>1. CASE q = r
      <4>1. turn'[q].handle = h /\ turn'[q].owner = o /\ h \in Stored'
        BY <1>2, <1>7, <2>1, <3>1
      <4>2. QED
        BY <1>5, <4>1, Zenon DEF Working
    <3>2. CASE q # r
      BY <1>6, <1>7, <1>8, <2>1, <3>2 DEF TurnsWork, Working
    <3>3. QED
      BY <3>1, <3>2
  <2>4. OneTurnEach' /\ Executing'
    BY <2>1, <2>2 DEF OneTurnEach, Executing
  <2>5. BusyWithTurn'
    <3> SUFFICES ASSUME NEW g \in Stored', talk'[g].busy
                 PROVE  \E q \in Turns : turn'[q].at # "idle" /\ turn'[q].handle = g
      BY DEF BusyWithTurn
    <3>1. CASE g = h
      BY <2>1, <3>1
    <3>2. CASE g # h
      <4>1. g \in Stored /\ talk[g].busy
        BY <1>1, <1>4, <1>7, <3>2
      <4>2. PICK q \in Turns : turn[q].at # "idle" /\ turn[q].handle = g
        BY <4>1 DEF BusyWithTurn
      <4>3. QED
        BY <1>2, <2>1, <4>2
    <3>3. QED
      BY <3>1, <3>2
  <2>6. QED
    BY <1>7, <2>3, <2>4, <2>5
<1>11. QED
  BY <1>9, <1>10

LEMMA LeavesInv ==
    ASSUME ConversationsInv, NEW r \in Turns, turn[r].at # "idle",
           NEW facts \in {"none", "plain"}, Leaves(r, facts)
    PROVE  ConversationsInv'
<1> USE DEF ConversationsInv
<1>1. PICK h : h = turn[r].handle
  OBVIOUS
<1>2. /\ h \in Stored /\ Stored \in SUBSET Handles /\ talk[h] \in TalkRows
      /\ \A g \in Stored : talk[g] \in TalkRows
  BY <1>1, StoredRows DEF TurnsWork, Working, Stored
<1>3. /\ talk' = [talk EXCEPT ![h] = Idled(@, tick + KeptFor, facts)]
      /\ turn' = [turn EXCEPT ![r] = NoTurn] /\ UNCHANGED <<tick, spent>>
  BY <1>1 DEF Leaves, Idled
<1>4. /\ talk' = [g \in Handles |-> talk'[g]] /\ \A g \in Handles \ {h} : talk'[g] = talk[g]
      /\ talk'[h] = Idled(talk[h], tick + KeptFor, facts)
  BY <1>2, <1>3 DEF TalksFit
<1>5. talk'[h] \in TalkRows /\ talk'[h].owner = talk[h].owner /\ ~ talk'[h].busy
  <2>1. tick + KeptFor \in Nat
    BY LimitAssumption DEF TalksFit
  <2>2. QED
    BY <1>2, <1>4, <2>1, IdledRow
<1>6. Stored' = Stored /\ TalksFit' /\ SpentFit' /\ Limited'
  <2>1. \A g \in Stored : talk'[g] \in TalkRows /\ talk'[g].owner = talk[g].owner
    BY <1>2, <1>4, <1>5
  <2>2. \A g \in Handles \ Stored : talk'[g] = NoTalk
    BY <1>2, <1>4 DEF Stored
  <2>3. tick' \in Nat
    BY <1>3 DEF TalksFit
  <2>4. QED
    BY <1>3, <1>4, <2>1, <2>2, <2>3, NothingAdded
<1>7. /\ turn' = [q \in Turns |-> turn'[q]] /\ \A q \in Turns : q # r => turn'[q] = turn[q]
      /\ turn'[r].at = "idle"
  BY <1>3 DEF Executing, NoTurn
<1>8. \A q \in Turns : q # r /\ turn[q].at # "idle" => turn[q].handle # h
  BY <1>1 DEF OneTurnEach
<1>9. TurnsWork'
  <2> SUFFICES ASSUME NEW q \in Turns, turn'[q].at # "idle" PROVE Working(q)'
    BY DEF TurnsWork
  <2>1. q # r /\ turn'[q] = turn[q] /\ Working(q)
    BY <1>7 DEF TurnsWork
  <2>2. talk'[turn[q].handle] = talk[turn[q].handle]
    BY <1>2, <1>4, <1>7, <1>8, <2>1 DEF Working
  <2>3. QED
    BY <1>6, <2>1, <2>2 DEF Working
<1>10. OneTurnEach' /\ Executing'
  BY <1>7 DEF OneTurnEach, Executing
<1>11. BusyWithTurn'
  <2> SUFFICES ASSUME NEW g \in Stored', talk'[g].busy
               PROVE  \E q \in Turns : turn'[q].at # "idle" /\ turn'[q].handle = g
    BY DEF BusyWithTurn
  <2>1. g # h /\ talk'[g] = talk[g] /\ g \in Stored
    BY <1>2, <1>4, <1>5, <1>6
  <2>2. PICK q \in Turns : turn[q].at # "idle" /\ turn[q].handle = g
    BY <2>1 DEF BusyWithTurn
  <2>3. QED
    BY <1>1, <1>7, <2>1, <2>2
<1>12. QED
  BY <1>6, <1>9, <1>10, <1>11

LEMMA ResearchInv ==
    ASSUME ConversationsInv, NEW r \in Turns, Research(r) PROVE ConversationsInv'
<1> USE DEF ConversationsInv
<1>1. /\ turn[r].at = "planning" /\ UNCHANGED <<tick, talk, spent>>
      /\ turn' = [q \in Turns |-> turn'[q]] /\ \A q \in Turns : q # r => turn'[q] = turn[q]
      /\ turn'[r].at = "executing" /\ turn'[r].owner = turn[r].owner
      /\ turn'[r].handle = turn[r].handle /\ turn'[r].kind \in {"plain", "private"}
  BY DEF Research, Executing
<1>2. \A q \in Turns : /\ turn'[q].at # "idle" <=> turn[q].at # "idle"
                       /\ turn'[q].handle = turn[q].handle \/ turn[q].at = "idle"
                       /\ turn'[q].owner = turn[q].owner \/ turn[q].at = "idle"
  BY <1>1
<1>3. TalksFit' /\ SpentFit' /\ Limited' /\ Executing'
  BY <1>1 DEF TalksFit, SpentFit, Limited, Owned, Stored, Executing
<1>4. Stored' = Stored
  BY <1>1 DEF Stored
<1>5. TurnsWork'
  BY <1>1, <1>2, <1>4 DEF TurnsWork, Working
<1>6. OneTurnEach' /\ BusyWithTurn'
  BY <1>1, <1>2, <1>4 DEF OneTurnEach, BusyWithTurn
<1>7. QED
  BY <1>3, <1>5, <1>6

LEMMA ConversationsInvStep == ConversationsInv /\ [ConversationsNext]_conversationVars => ConversationsInv'
<1> SUFFICES ASSUME ConversationsInv, [ConversationsNext]_conversationVars PROVE ConversationsInv'
  OBVIOUS
<1>1. CASE TimePasses \/ UNCHANGED conversationVars
  <2>1. UNCHANGED <<talk, spent, turn>> /\ tick' \in Nat
    BY <1>1 DEF TimePasses, conversationVars, ConversationsInv, TalksFit
  <2>2. QED
    BY <2>1 DEF ConversationsInv, TalksFit, SpentFit, Executing, TurnsWork, Working, OneTurnEach,
                Limited, Owned, BusyWithTurn, Stored
<1>2. ASSUME NEW r \in Turns, TurnFails(r) \/ Reply(r) PROVE ConversationsInv'
  <2>1. turn[r].at # "idle"
    BY <1>2 DEF TurnFails, Reply
  <2>2. Memory(r) \in TalkRows
    BY <2>1, StoredRows DEF ConversationsInv, TurnsWork, Working, Memory, Stored
  <2>3. Memory(r).facts \in {"none", "plain"}
    BY <2>2, TalkRowFields
  <2>4. Leaves(r, Memory(r).facts) \/ Leaves(r, "none")
    BY <1>2 DEF TurnFails, Reply
  <2>5. QED
    BY <2>1, <2>3, <2>4, LeavesInv
<1>3. ASSUME NEW r \in Turns, Answer(r) PROVE ConversationsInv'
  <2>1. turn[r].at # "idle" /\ Leaves(r, Remembered(turn[r].kind))
    BY <1>3 DEF Answer
  <2>2. Remembered(turn[r].kind) \in {"none", "plain"}
    BY <1>3 DEF Answer, Remembered, ConversationsInv, Executing
  <2>3. QED
    BY <2>1, <2>2, LeavesInv
<1>4. QED
  BY <1>1, <1>2, <1>3, StartInv, ContinueInv, ResearchInv DEF ConversationsNext

LEMMA ConversationsInvariant == ConversationsSpec => []ConversationsInv
<1>1. ConversationsInit => ConversationsInv
  BY ConversationsInvInit
<1>2. ConversationsInv /\ [ConversationsNext]_conversationVars => ConversationsInv'
  BY ConversationsInvStep
<1>3. QED
  BY <1>1, <1>2, PTL DEF ConversationsSpec

\* conversation_state.py and research_conversational.py: a turn that waits has its
\* conversation to itself, the store keeps its limits, and nothing remembers what
\* came from the place of a caller.
THEOREM ConversationsStay == ConversationsSpec => []ConversationKept
<1>1. ConversationsInv => ConversationKept
  <2> SUFFICES ASSUME ConversationsInv PROVE ConversationKept
    OBVIOUS
  <2>1. \A h \in Stored : talk[h].facts # "private"
    BY StoredRows, TalkRowFields DEF ConversationsInv, Stored
  <2>2. QED
    BY <2>1 DEF ConversationsInv, TurnsWork, Working, OneTurnEach, Limited, Owned, BusyWithTurn,
                ConversationKept, Memory
<1>2. QED
  BY <1>1, ConversationsInvariant, PTL
===============================================================================
