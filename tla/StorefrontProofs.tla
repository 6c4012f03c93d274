--------------------------- MODULE StorefrontProofs ---------------------------
(***************************************************************************)
(* Theorems about photo uploads, about what customers leave behind and     *)
(* about the public catalogue, and about the three together, for any       *)
(* number of documents, requests and changes.                              *)
(***************************************************************************)
EXTENDS MCStorefront, SequenceTheorems, FiniteSetTheorems, TLAPS

\* Photo uploads

\* Where a call has a key in hand, and where it has not rendered it in full.
AtKey == {"read", "fetch", "put", "publish", "clean", "reject", "drop"}
Rendering == {"read", "fetch", "put"}

\* A call has put none or some of the variants of what is still to do, and all of the
\* image it is about to publish, or has published.
RenderOK ==
  \A c \in Calls :
    /\ pc[c] = "idle" => \A k \in Keys : stored[<<c, k>>] = 0
    /\ pc[c] \in AtKey => todo[c] \in KeyLists
    /\ pc[c] \in AtKey => \A i \in 2..Len(todo[c]) : stored[<<c, todo[c][i]>>] < Variants
    /\ pc[c] \in Rendering => stored[<<c, Head(todo[c])>>] < Variants
    /\ pc[c] \in {"publish", "clean"} => stored[<<c, Head(todo[c])>>] = Variants

\* An image that was ever published has all its variants.
ImagesOK == \A k \in Keys : image[k] # Nothing => stored[image[k]] = Variants

\* PublishedImageServes made inductive.
MediaInv == MediaTypeOK /\ RenderOK /\ ImagesOK /\ PublishedImageServes

\* The keys of a call: the first is in hand, the others are different and still to come.
LEMMA KeyListFacts ==
  ASSUME NEW s \in KeyLists
  PROVE  /\ s \in Seq(Keys) /\ s # <<>> /\ Len(s) \in Nat \ {0}
         /\ Head(s) \in Keys /\ Head(s) = s[1]
         /\ \A i \in 2..Len(s) : s[i] \in Keys /\ s[i] # Head(s)
         /\ Len(s) = 1 => Tail(s) = <<>>
         /\ Len(s) # 1 => /\ Tail(s) \in KeyLists
                          /\ Head(Tail(s)) = s[2] /\ 2 \in 2..Len(s)
                          /\ \A i \in 2..Len(Tail(s)) :
                               Tail(s)[i] = s[i + 1] /\ i + 1 \in 2..Len(s)
<1>1. PICK m \in 0..MaxKeys : s \in [1..m -> Keys]
  BY DEF KeyLists, SeqOf
<1>2. s \in Seq(Keys) /\ Len(s) = m /\ m \in Nat /\ s # <<>>
  BY <1>1, MediaAssumption DEF KeyLists
<1>3. m # 0
  BY <1>2
<1>4. Head(s) = s[1] /\ s[1] \in Keys
  BY <1>1, <1>2, <1>3
<1>5. \A i, j \in 1..m : s[i] = s[j] => i = j
  BY <1>1 DEF KeyLists, IsInjective
<1>6. \A i \in 2..m : s[i] \in Keys /\ s[i] # s[1]
  BY <1>1, <1>2, <1>3, <1>5
<1>7. /\ Tail(s) \in Seq(Keys) /\ Len(Tail(s)) = m - 1
      /\ \A i \in 1..m-1 : Tail(s)[i] = s[i + 1]
  BY <1>2, <1>3
<1>8. Tail(s) \in [1..m-1 -> Keys]
  BY <1>7, LenProperties
<1>9. ASSUME m # 1 PROVE Tail(s) \in KeyLists
  <2>1. m - 1 \in 0..MaxKeys /\ m - 1 # 0
    BY <1>2, <1>3, <1>9, MediaAssumption
  <2>2. Tail(s) \in SeqOf(Keys, MaxKeys)
    BY <1>8, <2>1 DEF SeqOf
  <2>3. \A i, j \in 1..m-1 : Tail(s)[i] = Tail(s)[j] => i = j
    BY <1>2, <1>5, <1>7
  <2>4. IsInjective(Tail(s))
    BY <1>8, <2>3 DEF IsInjective
  <2>5. Tail(s) # <<>>
    BY <1>7, <2>1
  <2> QED
    BY <2>2, <2>4, <2>5 DEF KeyLists
<1>10. ASSUME m = 1 PROVE Tail(s) = <<>>
  <2>1. Tail(s) \in Seq(Keys) /\ Len(Tail(s)) \notin Nat \ {0}
    BY <1>7, <1>10
  <2> QED
    BY <2>1, EmptySeq, Zenon
<1>11. ASSUME m # 1
       PROVE  /\ Head(Tail(s)) = s[2] /\ 2 \in 2..m
              /\ \A i \in 2..m-1 : Tail(s)[i] = s[i + 1] /\ i + 1 \in 2..m
  <2>1. m >= 2
    BY <1>2, <1>3, <1>11
  <2>2. 1 \in 1..m-1 /\ \A i \in 2..m-1 : i \in 1..m-1 /\ i + 1 \in 2..m
    BY <1>2, <2>1
  <2>3. Tail(s)[1] = s[2] /\ \A i \in 2..m-1 : Tail(s)[i] = s[i + 1]
    BY <1>7, <2>2
  <2>4. Tail(s) # <<>>
    BY <1>7, <2>1
  <2>5. Head(Tail(s)) = Tail(s)[1]
    BY <1>7, <2>4
  <2> QED
    BY <1>2, <2>1, <2>2, <2>3, <2>5
<1>12. \A i \in 2..Len(s) : s[i] \in Keys /\ s[i] # Head(s)
  BY <1>2, <1>4, <1>6
<1>13. Len(Tail(s)) = m - 1
  BY <1>7
<1>14. Len(s) # 1 => /\ Tail(s) \in KeyLists
                     /\ Head(Tail(s)) = s[2] /\ 2 \in 2..Len(s)
                     /\ \A i \in 2..Len(Tail(s)) : Tail(s)[i] = s[i + 1] /\ i + 1 \in 2..Len(s)
  BY <1>2, <1>9, <1>11, <1>13
<1> QED
  BY <1>2, <1>3, <1>4, <1>10, <1>12, <1>14

LEMMA InitMediaInv == MediaInit => MediaInv
<1> SUFFICES ASSUME MediaInit PROVE MediaInv
  OBVIOUS
<1>1. MediaTypeOK
  BY MediaAssumption DEF MediaInit, MediaTypeOK, MediaPc
<1>2. RenderOK
  BY DEF MediaInit, RenderOK, AtKey, Rendering, Folders
<1>3. ImagesOK /\ PublishedImageServes
  BY DEF MediaInit, ImagesOK, PublishedImageServes
<1> QED
  BY <1>1, <1>2, <1>3 DEF MediaInv

-----------------------------------------------------------------------------
\* What the steps leave alone.

\* Uploads come and go while the calls and the folders stay.
LEMMA UploadsMediaInv ==
  ASSUME MediaInv, UNCHANGED <<image, stored, calls>>,
         row' \in [Keys -> {"none", "pending", "published", "rejected"}],
         url' \in [Keys -> {"none", "live", "expired"}],
         original' \in [Keys -> Bodies \union {Nothing}],
         \A k \in Keys : row'[k] = "published" => row[k] = "published"
  PROVE  MediaInv'
BY DEF MediaInv, MediaTypeOK, RenderOK, ImagesOK, PublishedImageServes, calls

\* A call moves while the folders and the published images stay.
LEMMA CallMediaInv ==
  ASSUME MediaInv, MediaTypeOK', RenderOK', UNCHANGED <<stored, image, answer>>,
         \A k \in Keys : row'[k] = "published" => row[k] = "published"
  PROVE  MediaInv'
BY DEF MediaInv, ImagesOK, PublishedImageServes

LEMMA IntentMediaInv ==
  ASSUME MediaInv, NEW k \in Keys,
         RecordIntent(k) \/ HandOut(k) \/ Expire(k) \/ Reap(k) \/ \E b \in Bodies : Upload(k, b)
  PROVE  MediaInv'
<1>1. UNCHANGED <<image, stored, calls>>
  BY DEF RecordIntent, HandOut, Expire, Reap, Upload
<1>2. /\ row' \in [Keys -> {"none", "pending", "published", "rejected"}]
      /\ \A j \in Keys : row'[j] = "published" => row[j] = "published"
  BY DEF RecordIntent, HandOut, Expire, Reap, Upload, MediaInv, MediaTypeOK
<1>3. url' \in [Keys -> {"none", "live", "expired"}]
  BY DEF RecordIntent, HandOut, Expire, Reap, Upload, MediaInv, MediaTypeOK
<1>4. original' \in [Keys -> Bodies \union {Nothing}]
  BY DEF RecordIntent, HandOut, Expire, Reap, Upload, MediaInv, MediaTypeOK
<1> QED
  BY <1>1, <1>2, <1>3, <1>4, UploadsMediaInv

-----------------------------------------------------------------------------
\* finalize

LEMMA FinalizeMediaInv ==
  ASSUME MediaInv, NEW c \in Calls, NEW keys \in KeyLists, Finalize(c, keys)
  PROVE  MediaInv'
<1> USE DEF MediaInv, MediaTypeOK, Finalize, Goto, uploads
<1>1. MediaTypeOK'
  BY DEF MediaPc
<1>2. RenderOK'
  <2>1. \A k \in Keys : stored[<<c, k>>] < Variants
    <3>1. Variants \in Nat \ {0} /\ \A k \in Keys : stored[<<c, k>>] = 0
      BY MediaAssumption DEF RenderOK
    <3> QED
      BY <3>1
  <2>2. Head(keys) \in Keys /\ \A i \in 2..Len(keys) : keys[i] \in Keys
    BY KeyListFacts
  <2>3. \A d \in Calls \ {c} : pc'[d] = pc[d] /\ todo'[d] = todo[d]
    OBVIOUS
  <2> QED
    BY <2>1, <2>2, <2>3 DEF RenderOK, AtKey, Rendering
<1> QED
  BY <1>1, <1>2, CallMediaInv

\* The next key in hand, or the end.
LEMMA NextKeyRenderOK ==
  ASSUME MediaTypeOK, RenderOK, NEW c \in Calls, pc[c] \in {"read", "clean"}, NextKey(c),
         UNCHANGED stored
  PROVE  /\ RenderOK'
         /\ pc' \in [Calls -> MediaPc] /\ todo' \in [Calls -> {<<>>} \union KeyLists]
<1> DEFINE s == todo[c]
<1>1. s \in KeyLists /\ \A i \in 2..Len(s) : stored[<<c, s[i]>>] < Variants
  BY DEF RenderOK, AtKey
<1>2. \A d \in Calls \ {c} : pc'[d] = pc[d] /\ todo'[d] = todo[d]
  BY DEF NextKey, Goto, MediaTypeOK
<1>3. todo'[c] = Tail(s) /\ pc'[c] = (IF Len(s) = 1 THEN "done" ELSE "read")
  BY DEF NextKey, Goto, MediaTypeOK
<1>4. Tail(s) \in {<<>>} \union KeyLists
  BY <1>1, KeyListFacts
<1>5. pc' \in [Calls -> MediaPc] /\ todo' \in [Calls -> {<<>>} \union KeyLists]
  BY <1>4 DEF NextKey, Goto, MediaTypeOK, MediaPc
<1>6. CASE Len(s) = 1
  BY <1>2, <1>3, <1>5, <1>6 DEF RenderOK, AtKey, Rendering
<1>7. CASE Len(s) # 1
  <2>1. /\ Tail(s) \in KeyLists
        /\ Head(Tail(s)) = s[2] /\ 2 \in 2..Len(s)
        /\ \A i \in 2..Len(Tail(s)) : Tail(s)[i] = s[i + 1] /\ i + 1 \in 2..Len(s)
    BY <1>1, <1>7, KeyListFacts
  <2>2. /\ stored[<<c, Head(Tail(s))>>] < Variants
        /\ \A i \in 2..Len(Tail(s)) : stored[<<c, Tail(s)[i]>>] < Variants
    BY <1>1, <2>1
  <2>3. pc'[c] = "read" /\ todo'[c] = Tail(s)
    BY <1>3, <1>7
  <2> HIDE DEF s
  <2> QED
    BY <1>2, <1>5, <2>1, <2>2, <2>3 DEF RenderOK, AtKey, Rendering
<1> QED
  BY <1>5, <1>6, <1>7

LEMMA ReadRowMediaInv ==
  ASSUME MediaInv, NEW c \in Calls, ReadRow(c)
  PROVE  MediaInv'
<1> DEFINE k == Head(todo[c])
<1>1. /\ pc[c] = "read" /\ UNCHANGED <<row, image, url, original, stored, body>>
      /\ k \in Keys
  BY KeyListFacts DEF ReadRow, uploads, MediaInv, RenderOK, AtKey
<1>2. CASE /\ row[k] = "published" /\ NextKey(c)
           /\ answer' = [answer EXCEPT ![c] = @ \union {image[k]}]
  <2>1. /\ RenderOK' /\ pc' \in [Calls -> MediaPc]
        /\ todo' \in [Calls -> {<<>>} \union KeyLists]
    BY <1>1, <1>2, NextKeyRenderOK DEF MediaInv
  <2>2. image[k] \in Folders /\ stored[image[k]] = Variants
    BY <1>1, <1>2 DEF MediaInv, PublishedImageServes, MediaTypeOK
  <2>3. answer' \in [Calls -> SUBSET Folders]
    BY <1>2, <2>2 DEF MediaInv, MediaTypeOK
  <2>4. \A d \in Calls : \A f \in answer'[d] : stored[f] = Variants
    BY <1>2, <2>2 DEF MediaInv, MediaTypeOK, PublishedImageServes
  <2> QED
    BY <1>1, <2>1, <2>3, <2>4 DEF MediaInv, MediaTypeOK, ImagesOK, PublishedImageServes
<1>3. CASE Goto(c, "fetch") /\ UNCHANGED <<todo, answer>>
  <2>1. MediaTypeOK' /\ RenderOK'
    BY <1>1, <1>3 DEF Goto, MediaInv, MediaTypeOK, RenderOK, AtKey, Rendering, MediaPc
  <2> QED
    BY <1>1, <1>3, <2>1, CallMediaInv
<1> QED
  BY <1>2, <1>3 DEF ReadRow

\* A call goes on with the key in hand, or is over, and has put nothing new.
LEMMA GotoRenderOK ==
  ASSUME MediaTypeOK, RenderOK, NEW c \in Calls, NEW pc1 \in MediaPc \ {"idle"}, Goto(c, pc1),
         UNCHANGED <<todo, stored>>,
         pc1 \in AtKey => pc[c] \in AtKey,
         pc1 \in Rendering => pc[c] \in Rendering,
         pc1 \in {"publish", "clean"} => pc[c] \in {"publish", "clean"}
  PROVE  RenderOK' /\ pc' \in [Calls -> MediaPc]
BY DEF Goto, MediaTypeOK, RenderOK

LEMMA MoveMediaInv ==
  ASSUME MediaInv, NEW c \in Calls,
         Download(c) \/ Reject(c) \/ DropRejected(c) \/ Stop(c)
  PROVE  MediaInv'
<1> DEFINE k == Head(todo[c])
<1>1. UNCHANGED <<image, url, stored, todo, answer>>
  BY DEF Download, Reject, DropRejected, Stop, uploads
<1>2. pc[c] \in AtKey => k \in Keys
  BY KeyListFacts DEF MediaInv, RenderOK
<1>3. /\ row' \in [Keys -> {"none", "pending", "published", "rejected"}]
      /\ \A j \in Keys : row'[j] = "published" => row[j] = "published"
  BY <1>2 DEF Download, Reject, DropRejected, Stop, uploads, MediaInv, MediaTypeOK, AtKey
<1>4. /\ original' \in [Keys -> Bodies \union {Nothing}]
      /\ body' \in [Calls -> Bodies \union {Nothing}]
  BY <1>2 DEF Download, Reject, DropRejected, Stop, uploads, MediaInv, MediaTypeOK, AtKey
<1>5. RenderOK' /\ pc' \in [Calls -> MediaPc]
  <2>1. CASE Download(c)
    BY <1>1, <2>1, GotoRenderOK DEF Download, MediaInv, AtKey, Rendering, MediaPc
  <2>2. CASE Reject(c)
    BY <1>1, <2>2, GotoRenderOK DEF Reject, MediaInv, AtKey, Rendering, MediaPc
  <2>3. CASE DropRejected(c) \/ Stop(c)
    BY <1>1, <2>3, GotoRenderOK DEF DropRejected, Stop, MediaInv, AtKey, Rendering, MediaPc
  <2> QED
    BY <2>1, <2>2, <2>3
<1>6. MediaTypeOK'
  BY <1>1, <1>3, <1>4, <1>5 DEF MediaInv, MediaTypeOK
<1> QED
  BY <1>1, <1>3, <1>5, <1>6, CallMediaInv

LEMMA PutVariantMediaInv ==
  ASSUME MediaInv, NEW c \in Calls, PutVariant(c)
  PROVE  MediaInv'
<1> DEFINE k == Head(todo[c])
           d == <<c, k>>
<1>1. /\ pc[c] = "put" /\ todo[c] \in KeyLists /\ k \in Keys /\ stored[d] < Variants
      /\ \A i \in 2..Len(todo[c]) : todo[c][i] \in Keys /\ todo[c][i] # k
  BY KeyListFacts DEF PutVariant, MediaInv, RenderOK, AtKey, Rendering
<1>2. UNCHANGED <<row, image, url, original, todo, body, answer>>
  BY DEF PutVariant, uploads
<1>3. /\ Variants \in Nat /\ d \in Folders /\ stored[d] \in 0..Variants
      /\ stored \in [Folders -> 0..Variants]
  BY <1>1, MediaAssumption DEF MediaInv, MediaTypeOK, Folders
<1>4. stored' = [stored EXCEPT ![d] = @ + 1]
  BY DEF PutVariant
<1>5. /\ stored' \in [Folders -> 0..Variants] /\ stored'[d] = stored[d] + 1
      /\ \A f \in Folders \ {d} : stored'[f] = stored[f]
  BY <1>1, <1>3, <1>4
<1>6. pc' = [pc EXCEPT ![c] = IF stored'[d] = Variants THEN "publish" ELSE "put"]
  BY <1>5 DEF PutVariant, Goto
<1>7. \A f \in Folders : stored[f] = Variants => stored'[f] = Variants
  <2>1. stored[d] # Variants
    BY <1>1, <1>3
  <2> QED
    BY <1>5, <2>1
<1>8. MediaTypeOK'
  BY <1>2, <1>5, <1>6 DEF MediaInv, MediaTypeOK, MediaPc
<1>9. RenderOK'
  <2>1. ASSUME NEW b \in Calls \ {c}, NEW j \in Keys PROVE stored'[<<b, j>>] = stored[<<b, j>>]
    BY <1>5, <2>1 DEF Folders
  <2>2. ASSUME NEW j \in Keys \ {k} PROVE stored'[<<c, j>>] = stored[<<c, j>>]
    BY <1>5, <2>2 DEF Folders
  <2>3. \A b \in Calls \ {c} : pc'[b] = pc[b] /\ todo'[b] = todo[b]
    BY <1>2, <1>6 DEF MediaInv, MediaTypeOK
  <2>4. \A b \in Calls : pc[b] \in AtKey =>
          Head(todo[b]) \in Keys /\ \A i \in 2..Len(todo[b]) : todo[b][i] \in Keys
    BY KeyListFacts DEF MediaInv, RenderOK
  <2>5. /\ pc'[c] \in {"put", "publish"} /\ todo'[c] = todo[c]
        /\ pc'[c] = "put" => stored'[d] < Variants
        /\ pc'[c] = "publish" => stored'[d] = Variants
    BY <1>1, <1>2, <1>3, <1>5, <1>6 DEF MediaInv, MediaTypeOK
  <2>6. \A i \in 2..Len(todo[c]) : stored'[<<c, todo[c][i]>>] < Variants
    BY <1>1, <2>2 DEF MediaInv, RenderOK, AtKey
  <2> SUFFICES ASSUME NEW b \in Calls
               PROVE  /\ pc'[b] = "idle" => \A j \in Keys : stored'[<<b, j>>] = 0
                      /\ pc'[b] \in AtKey => todo'[b] \in KeyLists
                      /\ pc'[b] \in AtKey =>
                           \A i \in 2..Len(todo'[b]) : stored'[<<b, todo'[b][i]>>] < Variants
                      /\ pc'[b] \in Rendering => stored'[<<b, Head(todo'[b])>>] < Variants
                      /\ pc'[b] \in {"publish", "clean"} =>
                           stored'[<<b, Head(todo'[b])>>] = Variants
    BY DEF RenderOK
  <2>7. CASE b = c
    BY <1>1, <2>5, <2>6, <2>7 DEF Rendering
  <2>8. CASE b # c
    BY <2>1, <2>3, <2>4, <2>8 DEF MediaInv, RenderOK, AtKey, Rendering
  <2> QED
    BY <2>7, <2>8
<1>10. ImagesOK' /\ PublishedImageServes'
  BY <1>2, <1>7 DEF MediaInv, MediaTypeOK, ImagesOK, PublishedImageServes
<1> QED
  BY <1>8, <1>9, <1>10 DEF MediaInv

LEMMA PublishMediaInv ==
  ASSUME MediaInv, NEW c \in Calls, Publish(c) \/ DeleteOriginal(c)
  PROVE  MediaInv'
<1> DEFINE k == Head(todo[c])
           d == <<c, k>>
<1>1. /\ pc[c] \in {"publish", "clean"} /\ k \in Keys
      /\ d \in Folders /\ stored[d] = Variants /\ d # Nothing
  BY KeyListFacts, MediaAssumption
     DEF Publish, DeleteOriginal, MediaInv, RenderOK, AtKey, Folders
<1>2. CASE Publish(c)
  <2>1. /\ row' = [row EXCEPT ![k] = "published"] /\ image' = [image EXCEPT ![k] = d]
        /\ UNCHANGED <<url, original, stored, todo, body, answer>>
    BY <1>2 DEF Publish
  <2>2. RenderOK' /\ pc' \in [Calls -> MediaPc]
    BY <1>1, <1>2, GotoRenderOK DEF Publish, MediaInv, AtKey, Rendering, MediaPc
  <2>3. MediaTypeOK'
    BY <1>1, <2>1, <2>2 DEF MediaInv, MediaTypeOK
  <2>4. ImagesOK' /\ PublishedImageServes'
    BY <1>1, <2>1 DEF MediaInv, MediaTypeOK, ImagesOK, PublishedImageServes
  <2> QED
    BY <2>2, <2>3, <2>4 DEF MediaInv
<1>3. CASE DeleteOriginal(c)
  <2>1. /\ answer' = [answer EXCEPT ![c] = @ \union {d}]
        /\ UNCHANGED <<row, image, url, stored, body>>
        /\ pc[c] = "clean" /\ NextKey(c)
    BY <1>3 DEF DeleteOriginal
  <2>2. original' \in [Keys -> Bodies \union {Nothing}]
    BY <1>1, <1>3 DEF DeleteOriginal, MediaInv, MediaTypeOK
  <2>3. /\ RenderOK' /\ pc' \in [Calls -> MediaPc]
        /\ todo' \in [Calls -> {<<>>} \union KeyLists]
    BY <2>1, NextKeyRenderOK DEF MediaInv
  <2>4. MediaTypeOK'
    BY <1>1, <2>1, <2>2, <2>3 DEF MediaInv, MediaTypeOK
  <2>5. ImagesOK' /\ PublishedImageServes'
    BY <1>1, <2>1 DEF MediaInv, MediaTypeOK, ImagesOK, PublishedImageServes
  <2> QED
    BY <2>3, <2>4, <2>5 DEF MediaInv
<1> QED
  BY <1>2, <1>3

LEMMA StepMediaInv == MediaInv /\ [MediaNext]_mediaVars => MediaInv'
<1> SUFFICES ASSUME MediaInv, [MediaNext]_mediaVars PROVE MediaInv'
  OBVIOUS
<1>1. CASE UNCHANGED mediaVars
  BY <1>1 DEF mediaVars, uploads, calls, MediaInv, MediaTypeOK, RenderOK, ImagesOK,
              PublishedImageServes
<1>2. ASSUME NEW k \in Keys,
             RecordIntent(k) \/ HandOut(k) \/ Expire(k) \/ Reap(k)
             \/ \E b \in Bodies : Upload(k, b)
      PROVE  MediaInv'
  BY <1>2, IntentMediaInv
<1>3. ASSUME NEW c \in Calls, NEW keys \in KeyLists, Finalize(c, keys) PROVE MediaInv'
  BY <1>3, FinalizeMediaInv
<1>4. ASSUME NEW c \in Calls, FinalizeStep(c) PROVE MediaInv'
  BY <1>4, ReadRowMediaInv, MoveMediaInv, PutVariantMediaInv, PublishMediaInv DEF FinalizeStep
<1> QED
  BY <1>1, <1>2, <1>3, <1>4 DEF MediaNext

LEMMA MediaInvHolds == MediaSpec => []MediaInv
BY InitMediaInv, StepMediaInv, PTL DEF MediaSpec

\* Every variable stays in its type, for any number of uploads, calls and variants.
THEOREM MediaTypes == MediaSpec => []MediaTypeOK
<1>1. MediaInv => MediaTypeOK
  BY DEF MediaInv
<1> QED
  BY <1>1, MediaInvHolds, PTL

\* What is published, or answered, can be served in every size: however many finalize
\* calls race for the uploads, and wherever each of them stops.
THEOREM PublishedServes == MediaSpec => []PublishedImageServes
<1>1. MediaInv => PublishedImageServes
  BY DEF MediaInv
<1> QED
  BY <1>1, MediaInvHolds, PTL

-----------------------------------------------------------------------------
\* Who deletes a photo.

\* A call deletes what it has published, or what it could not use.
CleanOK ==
  \A c \in Calls :
    /\ pc[c] = "clean" => image[Head(todo[c])] # Nothing
    /\ pc[c] \in {"reject", "drop"} => body[c] = "bad"

LEMMA StepCleanOK ==
  ASSUME MediaInv, CleanOK, [MediaNext]_mediaVars
  PROVE  CleanOK'
<1> USE DEF MediaInv, MediaTypeOK, CleanOK
<1>1. CASE UNCHANGED <<calls, image>>
  BY <1>1 DEF calls
<1>2. ASSUME NEW c \in Calls, NEW keys \in KeyLists, Finalize(c, keys) PROVE CleanOK'
  BY <1>2 DEF Finalize, Goto, uploads
<1>3. ASSUME NEW c \in Calls, ReadRow(c) \/ DeleteOriginal(c) PROVE CleanOK'
  BY <1>3 DEF ReadRow, DeleteOriginal, NextKey, Goto, uploads
<1>4. ASSUME NEW c \in Calls, PutVariant(c) \/ Reject(c) \/ DropRejected(c) \/ Stop(c)
      PROVE  CleanOK'
  BY <1>4 DEF PutVariant, Reject, DropRejected, Stop, Goto, uploads
<1>5. ASSUME NEW c \in Calls, Download(c) PROVE CleanOK'
  <2>1. Head(todo[c]) \in Keys
    BY <1>5, KeyListFacts DEF Download, RenderOK, AtKey
  <2> QED
    BY <1>5, <2>1 DEF Download, Goto, uploads, Bodies
<1>6. ASSUME NEW c \in Calls, Publish(c) PROVE CleanOK'
  <2>1. Head(todo[c]) \in Keys
    BY <1>6, KeyListFacts DEF Publish, RenderOK, AtKey
  <2>2. <<c, Head(todo[c])>> # Nothing
    BY <2>1, MediaAssumption DEF Folders
  <2> QED
    BY <1>6, <2>1, <2>2 DEF Publish, Goto
<1>7. ASSUME NEW k \in Keys,
             RecordIntent(k) \/ HandOut(k) \/ Expire(k) \/ Reap(k)
             \/ \E b \in Bodies : Upload(k, b)
      PROVE  CleanOK'
  BY <1>1, <1>7 DEF RecordIntent, HandOut, Expire, Reap, Upload
<1>8. CASE UNCHANGED mediaVars
  BY <1>1, <1>8 DEF mediaVars, uploads
<1> QED
  BY <1>2, <1>3, <1>4, <1>5, <1>6, <1>7, <1>8 DEF MediaNext, FinalizeStep

\* No photo is lost to the pipeline: a good original leaves quarantine only once an image of
\* its upload was published, by the lifecycle rule, or by a rejection under way for another
\* body under the same key.
THEOREM NoPhotoIsLost == MediaSpec => PhotoNotLost
<1> DEFINE Kept(k) ==
      original[k] = "good" /\ original'[k] = Nothing =>
        image[k] # Nothing \/ Reap(k) \/ \E c \in Calls : RejectsOther(c, k)
<1>1. MediaInit => CleanOK
  BY DEF MediaInit, CleanOK
<1>2. MediaInv /\ CleanOK /\ [MediaNext]_mediaVars => \A k \in Keys : Kept(k)
  <2> SUFFICES ASSUME MediaInv, CleanOK, [MediaNext]_mediaVars, NEW k \in Keys,
                      original[k] = "good", original'[k] = Nothing
               PROVE  image[k] # Nothing \/ Reap(k) \/ \E c \in Calls : RejectsOther(c, k)
    OBVIOUS
  <2>1. original'[k] # original[k] /\ original'[k] = Nothing /\ Nothing \notin Bodies
    BY MediaAssumption DEF Bodies
  <2>2. ASSUME NEW c \in Calls, DeleteOriginal(c) PROVE image[k] # Nothing
    <3>1. Head(todo[c]) = k
      BY <2>1, <2>2 DEF DeleteOriginal, MediaInv, MediaTypeOK
    <3> QED
      BY <2>2, <3>1 DEF DeleteOriginal, CleanOK
  <2>3. ASSUME NEW c \in Calls, DropRejected(c) PROVE RejectsOther(c, k)
    <3>1. Head(todo[c]) = k
      BY <2>1, <2>3 DEF DropRejected, MediaInv, MediaTypeOK
    <3> QED
      BY <2>3, <3>1 DEF DropRejected, CleanOK, RejectsOther
  <2>4. ASSUME NEW j \in Keys, Reap(j) PROVE Reap(k)
    BY <2>1, <2>4 DEF Reap, MediaInv, MediaTypeOK
  <2>5. ASSUME NEW j \in Keys, NEW b \in Bodies, Upload(j, b) PROVE FALSE
    BY <2>1, <2>5, MediaAssumption DEF Upload, MediaInv, MediaTypeOK
  <2> QED
    BY <2>1, <2>2, <2>3, <2>4, <2>5
       DEF MediaNext, FinalizeStep, RecordIntent, HandOut, Expire, Finalize, ReadRow, Download,
           PutVariant, Publish, Reject, Stop, uploads, mediaVars
<1>3. CleanOK /\ MediaInv /\ [MediaNext]_mediaVars => CleanOK'
  BY StepCleanOK
<1>4. MediaSpec => [][\A k \in Keys : Kept(k)]_mediaVars
  BY <1>1, <1>2, <1>3, MediaInvHolds, PTL DEF MediaSpec
<1> QED
  BY <1>4 DEF PhotoNotLost

-----------------------------------------------------------------------------
\* Saved searches, enquiries and test drives

\* A request under way is somebody's.
RequestsOK ==
  /\ \A s \in Searchers : searchPc[s] = "insert" => owner[s] \in Users
  /\ \A q \in Enquirers : enquiryPc[q] # "idle" => sender[q] \in Emails

\* The documents are those of the requests that were answered, and differ in their
\* references.
DrivesOK ==
  /\ booked = {d \in Drives : drivePc[d] = "done"}
  /\ \A d, e \in booked : reference[d] = reference[e] => d = e

CustomersInv == CustomersTypeOK /\ RequestsOK /\ DrivesOK

LEMMA InitCustomersInv == CustomersInit => CustomersInv
BY DEF CustomersInit, CustomersInv, CustomersTypeOK, RequestsOK, DrivesOK

LEMMA SearchCustomersInv ==
  ASSUME CustomersInv, SearchNext
  PROVE  CustomersInv'
<1> USE DEF CustomersInv
<1>1. UNCHANGED <<enquiryVars, driveVars>>
  BY DEF SearchNext, CountSearches, InsertSearch, StopSearch, DeleteSearch
<1>2. /\ searches' \in [Users -> Nat]
      /\ searchPc' \in [Searchers -> {"idle", "insert"}]
      /\ owner' \in [Searchers -> Users \union {Unset}]
      /\ \A s \in Searchers : searchPc'[s] = "insert" => owner'[s] \in Users
  BY DEF SearchNext, CountSearches, InsertSearch, StopSearch, DeleteSearch, CustomersTypeOK,
         RequestsOK
<1>3. CustomersTypeOK' /\ RequestsOK' /\ DrivesOK'
  BY <1>1, <1>2 DEF CustomersTypeOK, RequestsOK, DrivesOK, enquiryVars, driveVars
<1> QED BY <1>3

LEMMA EnquiryCustomersInv ==
  ASSUME CustomersInv, EnquiryNext
  PROVE  CustomersInv'
<1> USE DEF CustomersInv
<1>1. UNCHANGED <<searchVars, driveVars>>
  BY DEF EnquiryNext, Throttle, FindVehicle, InsertInquiry, StopEnquiry, AgeInquiry
<1>2. /\ recent' \in [Emails -> Nat]
      /\ enquiryPc' \in [Enquirers -> {"idle", "vehicle", "insert"}]
      /\ sender' \in [Enquirers -> Emails \union {Unset}]
      /\ \A q \in Enquirers : enquiryPc'[q] # "idle" => sender'[q] \in Emails
  BY DEF EnquiryNext, Throttle, FindVehicle, InsertInquiry, StopEnquiry, AgeInquiry,
         CustomersTypeOK, RequestsOK
<1>3. CustomersTypeOK' /\ RequestsOK' /\ DrivesOK'
  BY <1>1, <1>2 DEF CustomersTypeOK, RequestsOK, DrivesOK, searchVars, driveVars
<1> QED BY <1>3

LEMMA DriveCustomersInv ==
  ASSUME CustomersInv, DriveNext
  PROVE  CustomersInv'
<1> USE DEF CustomersInv
<1>1. UNCHANGED <<searchVars, enquiryVars>>
  BY DEF DriveNext, RequestDrive, InsertDrive
<1>2. /\ booked' \subseteq Drives
      /\ drivePc' \in [Drives -> {"idle", "insert", "done", "failed"}]
      /\ reference' \in [Drives -> References \union {Unset}]
  BY DEF DriveNext, RequestDrive, InsertDrive, CustomersTypeOK
<1>3. CustomersTypeOK' /\ RequestsOK'
  BY <1>1, <1>2 DEF CustomersTypeOK, RequestsOK, searchVars, enquiryVars
<1>4. DrivesOK'
  BY DEF DriveNext, RequestDrive, InsertDrive, CustomersTypeOK, DrivesOK, Lookup
<1> QED BY <1>3, <1>4

LEMMA CustomersInvHolds == CustomersSpec => []CustomersInv
<1>1. CustomersInv /\ [CustomersNext]_customerVars => CustomersInv'
  <2> SUFFICES ASSUME CustomersInv, [CustomersNext]_customerVars PROVE CustomersInv'
    OBVIOUS
  <2>1. CASE UNCHANGED customerVars
    BY <2>1 DEF customerVars, searchVars, enquiryVars, driveVars, CustomersInv,
                CustomersTypeOK, RequestsOK, DrivesOK
  <2> QED BY <2>1, SearchCustomersInv, EnquiryCustomersInv, DriveCustomersInv
          DEF CustomersNext
<1> QED BY <1>1, InitCustomersInv, PTL DEF CustomersSpec

\* A reference that was answered finds the test drive it was answered for, and no other,
\* whatever references are drawn.
THEOREM ReferencesFindTheirOwn == CustomersSpec => []ReferenceFindsItsOwn
<1>1. CustomersInv => ReferenceFindsItsOwn
  BY DEF CustomersInv, DrivesOK, ReferenceFindsItsOwn, Lookup
<1> QED BY <1>1, CustomersInvHolds, PTL

-----------------------------------------------------------------------------
\* The two limits.

\* The requests that have passed the count.
SearchesPassed == [u \in Users |-> {s \in Searchers : searchPc[s] = "insert" /\ owner[s] = u}]
EnquiriesPassed == [e \in Emails |-> {q \in Enquirers : enquiryPc[q] # "idle" /\ sender[q] = e}]

LEMMA SearchesAreLimited ==
  ASSUME CustomersInv, [CustomersNext]_customerVars
  PROVE  [SearchLimit!LimiterNext]_(SearchLimit!limiterVars)
<1> SUFFICES SearchLimit!LimiterNext \/ UNCHANGED <<searches, SearchesPassed>>
  BY DEF SearchLimit!limiterVars, SearchesPassed
<1> USE DEF CustomersInv
<1>0. /\ SearchesPassed = [u \in Users |-> SearchesPassed[u]]
      /\ SearchesPassed' = [u \in Users |-> SearchesPassed'[u]]
  BY DEF SearchesPassed
<1>1. CASE UNCHANGED searchVars
  BY <1>1 DEF searchVars, SearchesPassed
<1>2. ASSUME NEW s \in Searchers, NEW u \in Users, CountSearches(s, u)
      PROVE  SearchLimit!Pass(u, s)
  <2>1. \A w \in Users : SearchesPassed'[w] = IF w = u THEN SearchesPassed[w] \union {s}
                                                       ELSE SearchesPassed[w]
    BY <1>2 DEF CountSearches, SearchesPassed, CustomersTypeOK
  <2>2. SearchesPassed' = [SearchesPassed EXCEPT ![u] = @ \union {s}]
    BY <2>1, <1>0
  <2> QED BY <1>2, <2>2 DEF CountSearches, SearchesPassed, SearchLimit!Pass
<1>3. ASSUME NEW s \in Searchers, InsertSearch(s) \/ StopSearch(s)
      PROVE  \E u \in Users : SearchLimit!Record(u, s) \/ SearchLimit!Give(u, s)
  <2>1. PICK u \in Users : u = owner[s]
    BY <1>3 DEF InsertSearch, StopSearch, RequestsOK
  <2>2. /\ searchPc[s] = "insert" /\ searchPc' = [searchPc EXCEPT ![s] = "idle"]
        /\ owner' = owner
    BY <1>3 DEF InsertSearch, StopSearch
  <2>3. \A w \in Users : SearchesPassed'[w] = IF w = u THEN SearchesPassed[w] \ {s}
                                                       ELSE SearchesPassed[w]
    BY <2>1, <2>2 DEF SearchesPassed, CustomersTypeOK
  <2>4. SearchesPassed' = [SearchesPassed EXCEPT ![u] = @ \ {s}]
    BY <2>3, <1>0
  <2>5. s \in SearchesPassed[u]
    BY <2>1, <2>2 DEF SearchesPassed
  <2>6. SearchLimit!Record(u, s) \/ SearchLimit!Give(u, s)
    BY <1>3, <2>1, <2>4, <2>5
       DEF InsertSearch, StopSearch, SearchesPassed, SearchLimit!Record, SearchLimit!Give
  <2> QED BY <2>6
<1>4. ASSUME NEW u \in Users, DeleteSearch(u)
      PROVE  SearchLimit!Forget(u)
  <2>1. searches[u] - 1 \in 0..searches[u]
    BY <1>4 DEF DeleteSearch, CustomersTypeOK
  <2>2. searches' = [searches EXCEPT ![u] = searches[u] - 1]
    BY <1>4 DEF DeleteSearch
  <2> QED BY <1>4, <2>1, <2>2 DEF DeleteSearch, SearchLimit!Forget
<1>5. CASE SearchNext
  BY <1>5, <1>2, <1>3, <1>4 DEF SearchNext, SearchLimit!LimiterNext
<1>6. CASE ~SearchNext
  BY <1>1, <1>6 DEF CustomersNext, EnquiryNext, Throttle, FindVehicle, InsertInquiry,
                    StopEnquiry, AgeInquiry, DriveNext, RequestDrive, InsertDrive, customerVars
<1> QED BY <1>5, <1>6

LEMMA EnquiriesAreLimited ==
  ASSUME CustomersInv, [CustomersNext]_customerVars
  PROVE  [EnquiryLimit!LimiterNext]_(EnquiryLimit!limiterVars)
<1> SUFFICES EnquiryLimit!LimiterNext \/ UNCHANGED <<recent, EnquiriesPassed>>
  BY DEF EnquiryLimit!limiterVars, EnquiriesPassed
<1> USE DEF CustomersInv
<1>0. /\ EnquiriesPassed = [e \in Emails |-> EnquiriesPassed[e]]
      /\ EnquiriesPassed' = [e \in Emails |-> EnquiriesPassed'[e]]
  BY DEF EnquiriesPassed
<1>1. CASE UNCHANGED enquiryVars
  BY <1>1 DEF enquiryVars, EnquiriesPassed
<1>2. ASSUME NEW q \in Enquirers, NEW e \in Emails, Throttle(q, e)
      PROVE  EnquiryLimit!Pass(e, q)
  <2>1. \A w \in Emails : EnquiriesPassed'[w] = IF w = e THEN EnquiriesPassed[w] \union {q}
                                                         ELSE EnquiriesPassed[w]
    BY <1>2 DEF Throttle, EnquiriesPassed, CustomersTypeOK
  <2>2. EnquiriesPassed' = [EnquiriesPassed EXCEPT ![e] = @ \union {q}]
    BY <2>1, <1>0
  <2> QED BY <1>2, <2>2 DEF Throttle, EnquiriesPassed, EnquiryLimit!Pass
<1>3. ASSUME NEW q \in Enquirers, FindVehicle(q)
      PROVE  UNCHANGED <<recent, EnquiriesPassed>>
  <2>1. \A w \in Emails : EnquiriesPassed'[w] = EnquiriesPassed[w]
    BY <1>3 DEF FindVehicle, EnquiriesPassed, CustomersTypeOK
  <2> QED BY <1>0, <1>3, <2>1 DEF FindVehicle
<1>4. ASSUME NEW q \in Enquirers, InsertInquiry(q) \/ StopEnquiry(q)
      PROVE  \E e \in Emails : EnquiryLimit!Record(e, q) \/ EnquiryLimit!Give(e, q)
  <2>1. PICK e \in Emails : e = sender[q]
    BY <1>4 DEF InsertInquiry, StopEnquiry, RequestsOK
  <2>2. /\ enquiryPc[q] # "idle" /\ enquiryPc' = [enquiryPc EXCEPT ![q] = "idle"]
        /\ sender' = sender
    BY <1>4 DEF InsertInquiry, StopEnquiry
  <2>3. \A w \in Emails : EnquiriesPassed'[w] = IF w = e THEN EnquiriesPassed[w] \ {q}
                                                         ELSE EnquiriesPassed[w]
    BY <2>1, <2>2 DEF EnquiriesPassed, CustomersTypeOK
  <2>4. EnquiriesPassed' = [EnquiriesPassed EXCEPT ![e] = @ \ {q}]
    BY <2>3, <1>0
  <2>5. q \in EnquiriesPassed[e]
    BY <2>1, <2>2 DEF EnquiriesPassed
  <2>6. EnquiryLimit!Record(e, q) \/ EnquiryLimit!Give(e, q)
    BY <1>4, <2>1, <2>4, <2>5
       DEF InsertInquiry, StopEnquiry, EnquiriesPassed, EnquiryLimit!Record, EnquiryLimit!Give
  <2> QED BY <2>6
<1>5. ASSUME NEW e \in Emails, AgeInquiry(e)
      PROVE  EnquiryLimit!Forget(e)
  <2>1. recent[e] - 1 \in 0..recent[e]
    BY <1>5 DEF AgeInquiry, CustomersTypeOK
  <2>2. recent' = [recent EXCEPT ![e] = recent[e] - 1]
    BY <1>5 DEF AgeInquiry
  <2> QED BY <1>5, <2>1, <2>2 DEF AgeInquiry, EnquiryLimit!Forget
<1>6. CASE EnquiryNext
  BY <1>6, <1>2, <1>3, <1>4, <1>5 DEF EnquiryNext, EnquiryLimit!LimiterNext
<1>7. CASE ~EnquiryNext
  BY <1>1, <1>7 DEF CustomersNext, SearchNext, CountSearches, InsertSearch, StopSearch,
                    DeleteSearch, DriveNext, RequestDrive, InsertDrive, customerVars
<1> QED BY <1>6, <1>7

\* Saved searches and enquiries keep the promise of a limit that is counted first and
\* recorded later.
THEOREM CustomerLimitsHold == CustomersSpec => LimitsHold
<1>1. CustomersInit => SearchLimit!LimiterInit /\ EnquiryLimit!LimiterInit
  BY DEF CustomersInit, SearchLimit!LimiterInit, EnquiryLimit!LimiterInit
<1> QED BY <1>1, CustomersInvHolds, SearchesAreLimited, EnquiriesAreLimited, PTL
        DEF CustomersSpec, LimitsHold, SearchLimit!LimiterSpec, EnquiryLimit!LimiterSpec

SearchCount ==
  INSTANCE LimiterProofs WITH
    Keys <- Users, Callers <- Searchers, Limit <- MaxSavedSearches, recorded <- searches,
    passed <- [u \in Users |-> {s \in Searchers : searchPc[s] = "insert" /\ owner[s] = u}]

EnquiryCount ==
  INSTANCE LimiterProofs WITH
    Keys <- Emails, Callers <- Enquirers, Limit <- MaxInquiriesPerHour, recorded <- recent,
    passed <- [e \in Emails |-> {q \in Enquirers : enquiryPc[q] # "idle" /\ sender[q] = e}]

\* With n requests at a time a user has fewer than n saved searches more than the limit, and
\* an address fewer than n enquiries within the hour more.
THEOREM CustomerLimitsOvershoot ==
  ASSUME IsFiniteSet(Searchers), IsFiniteSet(Enquirers)
  PROVE  CustomersSpec => [](SearchCount!Overshoot /\ EnquiryCount!Overshoot)
<1>1. MaxSavedSearches \in Nat \ {0} /\ SearchCount!IsFiniteSet(Searchers)
  BY CustomersAssumption DEF IsFiniteSet, SearchCount!IsFiniteSet
<1>2. MaxInquiriesPerHour \in Nat \ {0} /\ EnquiryCount!IsFiniteSet(Enquirers)
  BY CustomersAssumption DEF IsFiniteSet, EnquiryCount!IsFiniteSet
<1>3. SearchLimit!LimiterInit => SearchCount!LimiterInv
  BY <1>1, SearchCount!LimiterInitInv DEF SearchLimit!LimiterInit, SearchCount!LimiterInit
<1>4. EnquiryLimit!LimiterInit => EnquiryCount!LimiterInv
  BY <1>2, EnquiryCount!LimiterInitInv DEF EnquiryLimit!LimiterInit, EnquiryCount!LimiterInit
<1>5. SearchCount!LimiterInv /\ [SearchLimit!LimiterNext]_(SearchLimit!limiterVars)
        => SearchCount!LimiterInv'
  BY <1>1, SearchCount!LimiterStep
     DEF SearchLimit!LimiterNext, SearchLimit!limiterVars, SearchLimit!Pass,
         SearchLimit!Record, SearchLimit!Give, SearchLimit!Forget, SearchLimit!GiveAndForget,
         SearchCount!LimiterNext, SearchCount!limiterVars, SearchCount!Pass,
         SearchCount!Record, SearchCount!Give, SearchCount!Forget, SearchCount!GiveAndForget
<1>6. EnquiryCount!LimiterInv /\ [EnquiryLimit!LimiterNext]_(EnquiryLimit!limiterVars)
        => EnquiryCount!LimiterInv'
  BY <1>2, EnquiryCount!LimiterStep
     DEF EnquiryLimit!LimiterNext, EnquiryLimit!limiterVars, EnquiryLimit!Pass,
         EnquiryLimit!Record, EnquiryLimit!Give, EnquiryLimit!Forget,
         EnquiryLimit!GiveAndForget,
         EnquiryCount!LimiterNext, EnquiryCount!limiterVars, EnquiryCount!Pass,
         EnquiryCount!Record, EnquiryCount!Give, EnquiryCount!Forget,
         EnquiryCount!GiveAndForget
<1>7. /\ SearchCount!LimiterInv => SearchCount!Overshoot
      /\ EnquiryCount!LimiterInv => EnquiryCount!Overshoot
  BY <1>1, <1>2, SearchCount!LimiterBounds, EnquiryCount!LimiterBounds
<1> QED BY <1>3, <1>4, <1>5, <1>6, <1>7, CustomerLimitsHold, PTL
        DEF LimitsHold, SearchLimit!LimiterSpec, EnquiryLimit!LimiterSpec

-----------------------------------------------------------------------------
\* The public catalogue: numbers and finite sets

\* The smaller and the larger of two numbers.
LEMMA MinMaxOfTwo ==
  ASSUME NEW a \in Int, NEW b \in Int
  PROVE  /\ Min({a, b}) = IF a <= b THEN a ELSE b
         /\ Max({a, b}) = IF a >= b THEN a ELSE b
<1>1. \A x \in {a, b} : (\A y \in {a, b} : x <= y) => x = IF a <= b THEN a ELSE b
  OBVIOUS
<1>2. \E x \in {a, b} : \A y \in {a, b} : x <= y
  OBVIOUS
<1>3. \A x \in {a, b} : (\A y \in {a, b} : x >= y) => x = IF a >= b THEN a ELSE b
  OBVIOUS
<1>4. \E x \in {a, b} : \A y \in {a, b} : x >= y
  OBVIOUS
<1>5. Min({a, b}) \in {a, b} /\ \A y \in {a, b} : Min({a, b}) <= y
  BY <1>2 DEF Min
<1>6. Max({a, b}) \in {a, b} /\ \A y \in {a, b} : Max({a, b}) >= y
  BY <1>4 DEF Max
<1> QED BY <1>1, <1>3, <1>5, <1>6

LEMMA MaxWithOne == \A b \in Int : Max({1, b}) = IF 1 >= b THEN 1 ELSE b
<1> SUFFICES ASSUME NEW b \in Int PROVE Max({1, b}) = IF 1 >= b THEN 1 ELSE b
  OBVIOUS
<1> QED BY MinMaxOfTwo

\* A finite set has an extreme in every total order.
LEMMA FiniteHasExtreme ==
  ASSUME NEW S, IsFiniteSet(S), S # {}, NEW R,
         \A x, y \in S : <<x, y>> \in R \/ <<y, x>> \in R,
         \A x, y, z \in S : <<x, y>> \in R /\ <<y, z>> \in R => <<x, z>> \in R
  PROVE  \E m \in S : \A x \in S : <<m, x>> \in R
<1> DEFINE Extreme(T) == \E m \in T : \A x \in T : <<m, x>> \in R
           Without == {T \in SUBSET S : T # {} /\ ~Extreme(T)}
<1>1. SUFFICES ASSUME Without # {} PROVE FALSE
  OBVIOUS
<1>2. PICK T \in Without : \A U \in Without : ~(<<U, T>> \in StrictSubsetOrdering(S))
  <2>1. IsWellFoundedOn(StrictSubsetOrdering(S), SUBSET S)
    BY FS_StrictSubsetOrderingWellFounded, FS_FiniteSubsetsOfFinite
  <2>2. Without \subseteq SUBSET S /\ Without # {}
    BY <1>1
  <2> HIDE DEF Without
  <2> QED BY <2>1, <2>2, WFMin
<1>3. PICK t \in T : TRUE
  OBVIOUS
<1>4. <<T \ {t}, T>> \in StrictSubsetOrdering(S)
  BY <1>3 DEF StrictSubsetOrdering
<1>5. T \ {t} \notin Without
  BY <1>2, <1>4
<1>6. PICK y \in T : <<t, y>> \notin R
  BY <1>3
<1>7. T \subseteq S /\ y # t
  BY <1>6
<1>8. PICK m \in T \ {t} : \A x \in T \ {t} : <<m, x>> \in R
  BY <1>5, <1>7
<1>9. <<m, y>> \in R /\ <<y, t>> \in R
  BY <1>6, <1>7, <1>8
<1>10. <<m, t>> \in R
  BY <1>7, <1>8, <1>9
<1>11. \A x \in T : <<m, x>> \in R
  BY <1>8, <1>10
<1> QED BY <1>8, <1>11

\* A finite set of numbers that is not empty lies between its smallest and its largest.
LEMMA MinMaxOfFinite ==
  ASSUME NEW S \in SUBSET Int, IsFiniteSet(S), S # {}
  PROVE  /\ Min(S) \in S /\ \A p \in S : Min(S) <= p
         /\ Max(S) \in S /\ \A p \in S : p <= Max(S)
<1>1. \E m \in S : \A x \in S : m <= x
  <2> DEFINE R == {r \in S \X S : r[1] <= r[2]}
  <2>1. \A x, y \in S : <<x, y>> \in R <=> x <= y
    OBVIOUS
  <2> HIDE DEF R
  <2>2. \A x, y \in S : <<x, y>> \in R \/ <<y, x>> \in R
    <3>1. \A x, y \in S : x <= y \/ y <= x
      OBVIOUS
    <3> QED BY <2>1, <3>1
  <2>3. \A x, y, z \in S : <<x, y>> \in R /\ <<y, z>> \in R => <<x, z>> \in R
    <3>1. \A x, y, z \in S : x <= y /\ y <= z => x <= z
      OBVIOUS
    <3> QED BY <2>1, <3>1
  <2>4. \E m \in S : \A x \in S : <<m, x>> \in R
    BY <2>2, <2>3, FiniteHasExtreme
  <2> QED BY <2>1, <2>4
<1>2. \E m \in S : \A x \in S : m >= x
  <2> DEFINE R == {r \in S \X S : r[1] >= r[2]}
  <2>1. \A x, y \in S : <<x, y>> \in R <=> x >= y
    OBVIOUS
  <2> HIDE DEF R
  <2>2. \A x, y \in S : <<x, y>> \in R \/ <<y, x>> \in R
    <3>1. \A x, y \in S : x >= y \/ y >= x
      OBVIOUS
    <3> QED BY <2>1, <3>1
  <2>3. \A x, y, z \in S : <<x, y>> \in R /\ <<y, z>> \in R => <<x, z>> \in R
    <3>1. \A x, y, z \in S : x >= y /\ y >= z => x >= z
      OBVIOUS
    <3> QED BY <2>1, <3>1
  <2>4. \E m \in S : \A x \in S : <<m, x>> \in R
    BY <2>2, <2>3, FiniteHasExtreme
  <2> QED BY <2>1, <2>4
<1>3. Min(S) \in S /\ \A y \in S : Min(S) <= y
  BY <1>1 DEF Min
<1>4. Max(S) \in S /\ \A y \in S : Max(S) >= y
  BY <1>2 DEF Max
<1>5. \A y \in S : y <= Max(S)
  BY <1>4
<1> QED BY <1>3, <1>4, <1>5

\* Of a sort that tells all documents apart, there is one first page of each length.
LEMMA OneBeginning ==
  ASSUME NEW S, IsFiniteSet(S), NEW sort, NEW A \in SUBSET S, NEW B \in SUBSET S,
         NoneBefore(sort, S \ A, A), NoneBefore(sort, S \ B, B),
         \A i, j \in S : i # j => Before(sort, i, j) \/ Before(sort, j, i),
         Cardinality(A) = Cardinality(B)
  PROVE  A = B
<1>1. A \subseteq B \/ B \subseteq A
  BY DEF NoneBefore
<1>2. IsFiniteSet(A) /\ IsFiniteSet(B)
  BY FS_Subset
<1> QED BY <1>1, <1>2, FS_Subset

LEMMA PagesType ==
  ASSUME NEW n \in Nat, NEW per \in Nat \ {0}
  PROVE  TotalPages(n, per) \in Int
<1> DEFINE d == (n + per - 1) \div per
<1>1. d \in Int /\ TotalPages(n, per) = Max({1, d})
  BY DEF TotalPages
<1> HIDE DEF d
<1> QED BY <1>1, MaxWithOne

\* The pages reach as far as the rows.
LEMMA PagesReach ==
  ASSUME NEW n \in Nat, NEW per \in Nat \ {0}, NEW page \in Nat, page >= TotalPages(n, per)
  PROVE  n <= page * per
<1> DEFINE d == (n + per - 1) \div per
<1>1. d \in Int /\ n + per - 1 < per * (d + 1)
  OBVIOUS
<1>2. TotalPages(n, per) = Max({1, d})
  BY DEF TotalPages
<1> HIDE DEF d
<1>3. page >= d
  <2>1. Max({1, d}) = IF 1 >= d THEN 1 ELSE d
    BY <1>1, MaxWithOne
  <2> QED BY <1>1, <1>2, <2>1
<1>4. per * (d + 1) <= per * (page + 1)
  BY <1>1, <1>3
<1>5. n + per - 1 < per * page + per
  BY <1>1, <1>4
<1> QED BY <1>5

-----------------------------------------------------------------------------
\* The inductive invariant

Visits ==
  [at : {"home", "rows", "count", "end"}, dir : Directories, query : Queries,
   sort : Sorts, per : Nat \ {0}, page : Nat \ {0}, rows : SUBSET Items,
   seen : [Items -> Nat], calm : BOOLEAN]

\* The variables are well-formed; a vehicle is saved once; a document has been shown no
\* more often than pages were read.
CatalogueShape ==
  /\ state \in [Items -> VehicleStatus \union {"published", "draft"}]
  /\ CatalogueTypeOK
  /\ \A i, j \in DOMAIN saved : saved[i] = saved[j] => i = j
  /\ visit \in Visits

\* How many pages the visitor has read.
PagesRead == IF visit.at = "rows" THEN visit.page - 1 ELSE visit.page

Matching == Found(visit.dir, visit.query)
Shown == {i \in Items : visit.seen[i] = 1}

\* What the visitor has seen so far is the beginning of the list, as long as the pages
\* he read, and he is at its end only when there is no more of it.
BrowseOK ==
  /\ visit.at # "home" => \A i \in Items : visit.seen[i] <= PagesRead
  /\ visit.at = "home" => visit.page = 1 /\ \A i \in Items : visit.seen[i] = 0
  /\ visit.dir \in OnePage => visit.page = 1
  /\ visit.at # "home" /\ visit.calm /\ NoTies =>
       /\ \A i \in Items : visit.seen[i] \in {0, 1}
       /\ Shown \subseteq Matching
       /\ NoneBefore(visit.sort, Matching \ Shown, Shown)
       /\ Cardinality(Shown) = Min({PagesRead * visit.per, Cardinality(Matching)})
  /\ visit.at = "end" /\ visit.calm /\ WithinReach =>
       Cardinality(Matching) <= visit.page * visit.per

CatalogueInv == CatalogueShape /\ BrowseOK

\* A list has finitely many documents.
LEMMA MatchingFinite == \A dir \in Directories, q \in Queries : IsFiniteSet(Found(dir, q))
<1>1. \A dir \in Directories, q \in Queries : Found(dir, q) \subseteq Items
  BY DEF Found, Collection, Directories, Items
<1> QED BY <1>1, CatalogueAssumption, FS_Subset

LEMMA FoundItems == \A dir \in Directories, q \in Queries : Found(dir, q) \subseteq Items
  BY DEF Found, Collection, Directories, Items

\* The lists an unchanged catalogue answers with are unchanged.
LEMMA SameFound ==
  UNCHANGED <<state, deleted>> => \A dir, q : Found(dir, q)' = Found(dir, q)
  BY DEF Found, IsVisible

\* A page holds at least one document.
LEMMA PageSize ==
  ASSUME NEW dir \in Directories, NEW n \in Nat
  PROVE  PerPage(dir, n) \in Nat \ {0}
<1>1. CASE dir # "vehicles"
  BY <1>1, CatalogueAssumption DEF PerPage
<1>2. CASE dir = "vehicles"
  <2> DEFINE k == IF n = 0 THEN DefaultPerPage ELSE n
             m == Max({1, k})
  <2>1. k \in Nat \ {0} /\ MaxPerPage \in Nat \ {0}
    BY CatalogueAssumption
  <2>2. PerPage(dir, n) = Min({MaxPerPage, m})
    BY <1>2 DEF PerPage
  <2> HIDE DEF k
  <2>3. m \in Nat \ {0}
    BY <2>1, MaxWithOne
  <2> HIDE DEF m
  <2>4. \A a, b \in Int : Min({a, b}) = IF a <= b THEN a ELSE b
    BY MinMaxOfTwo
  <2> QED BY <2>1, <2>2, <2>3, <2>4
<1> QED BY <1>1, <1>2

LEMMA InitCatalogueInv == CatalogueInit => CatalogueInv
<1> SUFFICES ASSUME CatalogueInit PROVE CatalogueInv
  OBVIOUS
<1> USE CatalogueAssumption DEF CatalogueInit
<1>1. visit \in Visits
  BY DEF Nobody, Visits, Sorts, Directories, Collection
<1>2. state \in [Items -> VehicleStatus \union {"published", "draft"}]
  BY DEF VehicleStatus
<1>3. CatalogueTypeOK
  BY DEF CatalogueTypeOK, VehicleStatus, Nobody, Directories, Collection
<1>4. CatalogueShape
  BY <1>1, <1>2, <1>3 DEF CatalogueShape
<1>5. visit.at = "home" /\ visit.page = 1 /\ \A i \in Items : visit.seen[i] = 0
  BY DEF Nobody
<1>6. BrowseOK
  BY <1>5 DEF BrowseOK
<1> QED BY <1>4, <1>6 DEF CatalogueInv

\* Changes to documents end the calm; saved vehicles do not touch the visit.
LEMMA ChangeCatalogueInv ==
  ASSUME CatalogueInv, NEW i \in Items, Change(i)
  PROVE  CatalogueInv'
<1> USE DEF CatalogueInv
<1>1. visit' \in Visits /\ visit'.calm = FALSE
  BY DEF CatalogueShape, Visits, Change
<1>3. /\ visit'.at = visit.at /\ visit'.dir = visit.dir /\ visit'.page = visit.page
      /\ visit'.rows = visit.rows /\ visit'.seen = visit.seen
  BY DEF CatalogueShape, Visits, Change
<1>4. state' \in [Items -> VehicleStatus \union {"published", "draft"}]
  BY DEF CatalogueShape, Change, VehicleStatus
<1>5. \A j \in Items :
        state'[j] \in IF j \in Vehicles THEN VehicleStatus ELSE {"published", "draft"}
  BY DEF CatalogueShape, CatalogueTypeOK, Change, VehicleStatus
<1>6. deleted' \in [Vehicles -> BOOLEAN] /\ edits' \in 0..MaxEdits /\ saved' = saved
  <2>1. deleted \in [Vehicles -> BOOLEAN] /\ edits \in 0..MaxEdits
    BY DEF CatalogueShape, CatalogueTypeOK
  <2>2. deleted' \in [Vehicles -> BOOLEAN]
    BY <2>1 DEF Change
  <2>3. edits' \in 0..MaxEdits /\ saved' = saved
    BY <2>1, CatalogueAssumption DEF Change
  <2> QED BY <2>2, <2>3
<1>7. CatalogueTypeOK'
  BY <1>3, <1>5, <1>6 DEF CatalogueShape, CatalogueTypeOK
<1>8. CatalogueShape'
  BY <1>1, <1>4, <1>6, <1>7 DEF CatalogueShape
<1>9. BrowseOK'
  BY <1>1, <1>3 DEF BrowseOK, PagesRead
<1> QED BY <1>8, <1>9

\* What is saved after a removal is what was saved, one place nearer from there on.
LEMMA RemoveAtOnce ==
  ASSUME NEW V, NEW s \in Seq(V), NEW k \in DOMAIN s,
         \A i, j \in DOMAIN s : s[i] = s[j] => i = j
  PROVE  /\ RemoveAt(s, k) \in Seq(V)
         /\ \A i, j \in DOMAIN RemoveAt(s, k) : RemoveAt(s, k)[i] = RemoveAt(s, k)[j] => i = j
<1> DEFINE a == SubSeq(s, 1, k - 1)
           b == SubSeq(s, k + 1, Len(s))
<1>1. k \in 1..Len(s) /\ Len(s) \in Nat
  OBVIOUS
<1>2. a \in Seq(V) /\ Len(a) = k - 1 /\ \A i \in 1..(k - 1) : a[i] = s[i]
  BY <1>1, SubSeqProperties
<1>3. b \in Seq(V) /\ Len(b) = Len(s) - k /\ \A i \in 1..(Len(s) - k) : b[i] = s[k + i]
  BY <1>1, SubSeqProperties
<1>4. RemoveAt(s, k) = a \o b
  BY DEF RemoveAt
<1> HIDE DEF a, b
<1>5. /\ a \o b \in Seq(V) /\ Len(a \o b) = Len(a) + Len(b)
      /\ \A i \in 1..(Len(a) + Len(b)) : (a \o b)[i] = IF i <= Len(a) THEN a[i] ELSE b[i - Len(a)]
  <2>1. a \in Seq(V) /\ b \in Seq(V)
    BY <1>2, <1>3
  <2> QED BY <2>1, ConcatProperties
<1> DEFINE n == Len(s)
           c == a \o b
<1>6. Len(a) + Len(b) = n - 1 /\ n \in Nat /\ k \in 1..n
  BY <1>1, <1>2, <1>3
<1>7. \A i \in 1..(n - 1) : c[i] = IF i < k THEN s[i] ELSE s[i + 1]
  <2> SUFFICES ASSUME NEW i \in 1..(n - 1)
               PROVE  c[i] = IF i < k THEN s[i] ELSE s[i + 1]
    OBVIOUS
  <2>1. c[i] = IF i <= Len(a) THEN a[i] ELSE b[i - Len(a)]
    BY <1>5, <1>6
  <2>2. CASE i < k
    <3>1. i \in 1..(k - 1) /\ i <= Len(a)
      BY <1>2, <1>6, <2>2
    <3> QED BY <1>2, <2>1, <2>2, <3>1
  <2>3. CASE ~(i < k)
    <3> DEFINE j == i - Len(a)
    <3>1. j \in 1..(n - k) /\ k + j = i + 1 /\ ~(i <= Len(a))
      BY <1>2, <1>6, <2>3
    <3>2. b[j] = s[k + j]
      BY <1>3, <3>1
    <3> QED BY <2>1, <2>3, <3>1, <3>2
  <2> QED BY <2>2, <2>3
<1>8. \A i, j \in 1..n : s[i] = s[j] => i = j
  OBVIOUS
<1>9. DOMAIN c = 1..(n - 1) /\ c \in Seq(V)
  BY <1>5, <1>6
<1> HIDE DEF n, c
<1>10. \A i, j \in 1..(n - 1) : c[i] = c[j] => i = j
  <2> SUFFICES ASSUME NEW i \in 1..(n - 1), NEW j \in 1..(n - 1), c[i] = c[j]
               PROVE  i = j
    OBVIOUS
  <2> DEFINE p(x) == IF x < k THEN x ELSE x + 1
  <2>1. p(i) \in 1..n /\ p(j) \in 1..n
    BY <1>6
  <2>2. s[p(i)] = s[p(j)]
    BY <1>7
  <2>3. p(i) = p(j)
    BY <1>8, <2>1, <2>2
  <2> QED BY <1>6, <2>3
<1> QED BY <1>4, <1>9, <1>10 DEF c

LEMMA SavedCatalogueInv ==
  ASSUME CatalogueInv, NEW v \in Vehicles, SaveVehicle(v) \/ UnsaveVehicle(v)
  PROVE  CatalogueInv'
<1> USE DEF CatalogueInv
<1>1. UNCHANGED <<state, deleted, edits, visit>>
  BY DEF SaveVehicle, UnsaveVehicle
<1>2. saved \in Seq(Vehicles) /\ \A i, j \in DOMAIN saved : saved[i] = saved[j] => i = j
  BY DEF CatalogueShape, CatalogueTypeOK
<1>3. /\ saved' \in Seq(Vehicles)
      /\ \A i, j \in DOMAIN saved' : saved'[i] = saved'[j] => i = j
  <2>1. CASE SaveVehicle(v)
    BY <1>2, <2>1, AppendProperties DEF SaveVehicle, Contains
  <2>2. CASE UnsaveVehicle(v)
    <3>1. PICK k \in DOMAIN saved : saved' = RemoveAt(saved, k)
      BY <2>2 DEF UnsaveVehicle
    <3> QED BY <1>2, <3>1, RemoveAtOnce
  <2> QED BY <2>1, <2>2
<1>4. CatalogueShape'
  BY <1>1, <1>3 DEF CatalogueShape, CatalogueTypeOK
<1>5. \A dir, q : Found(dir, q)' = Found(dir, q)
  BY <1>1, SameFound
<1>6. BrowseOK'
  BY <1>1, <1>5
     DEF BrowseOK, PagesRead, Matching, Shown, NoTies, WithinReach, NoneBefore, Before
<1> QED BY <1>4, <1>6

\* A fresh visit has seen nothing, which is the beginning of every list.
LEMMA EnterCatalogueInv ==
  ASSUME CatalogueInv, NEW dir \in Directories, NEW q \in Queries, NEW s \in Sorts,
         NEW n \in PageSizes, Enter(dir, q, s, n)
  PROVE  CatalogueInv'
<1> USE DEF CatalogueInv
<1>1. visit' = [at |-> "rows", dir |-> dir, query |-> q, sort |-> s, per |-> PerPage(dir, n),
                page |-> 1, rows |-> {}, seen |-> [i \in Items |-> 0], calm |-> TRUE]
  BY DEF Enter, Nobody
<1>2. PerPage(dir, n) \in Nat \ {0}
  BY CatalogueAssumption, PageSize
<1>3. UNCHANGED <<state, deleted, saved, edits>>
  BY DEF Enter
<1>4. visit' \in Visits
  BY <1>1, <1>2 DEF Visits
<1>5. CatalogueShape'
  BY <1>1, <1>3, <1>4 DEF CatalogueShape, CatalogueTypeOK
<1>6. PagesRead' = 0 /\ Shown' = {}
  BY <1>1 DEF PagesRead, Shown
<1>7. IsFiniteSet(Matching')
  BY <1>1, <1>3, MatchingFinite, SameFound DEF Matching
<1>8. Cardinality(Shown') = Min({PagesRead' * visit'.per, Cardinality(Matching')})
  <2>1. Cardinality(Matching') \in Nat
    BY <1>7, FS_CardinalityType
  <2>2. PagesRead' * visit'.per = 0
    BY <1>1, <1>2, <1>6
  <2>3. Cardinality(Shown') = 0
    BY <1>6, FS_EmptySet
  <2> QED BY <2>1, <2>2, <2>3, MinMaxOfTwo
<1>9. BrowseOK'
  BY <1>1, <1>6, <1>8 DEF BrowseOK, NoneBefore
<1> QED BY <1>5, <1>9

\* The rows of a page continue what was shown: the beginning the database skips is what
\* the visitor has seen, since the sort allows no other.
LEMMA ReadCatalogueInv ==
  ASSUME CatalogueInv, ReadRows
  PROVE  CatalogueInv'
<1> USE DEF CatalogueInv
<1> DEFINE S == Matching
           c == Cardinality(S)
           skip == (visit.page - 1) * visit.per
           size(m) == Min({m, c})
<1>1. visit \in Visits /\ visit.at = "rows" /\ UNCHANGED <<state, deleted, saved, edits>>
  BY DEF CatalogueShape, ReadRows
<1>2. PICK R \in Slices(S, visit.sort, skip, visit.per) :
        visit' = [visit EXCEPT !.at = "count", !.rows = R,
                               !.seen = [i \in Items |-> @[i] + (IF i \in R THEN 1 ELSE 0)]]
  BY DEF ReadRows, Matching
<1>3. PICK P \in kSubset(size(skip), S \ R) :
        /\ NoneBefore(visit.sort, S \ P, P)
        /\ NoneBefore(visit.sort, S \ (P \union R), R)
  BY <1>2 DEF Slices
<1>4. R \in SUBSET S /\ Cardinality(R) = size(skip + visit.per) - size(skip)
  BY <1>2 DEF Slices, kSubset
<1>5. P \in SUBSET (S \ R) /\ Cardinality(P) = size(skip)
  BY <1>3 DEF kSubset
<1>6. S \subseteq Items /\ IsFiniteSet(S) /\ c \in Nat
  BY <1>1, FoundItems, MatchingFinite, FS_CardinalityType DEF Matching, Visits
<1>7. /\ visit'.at = "count" /\ visit'.rows = R /\ visit'.dir = visit.dir
      /\ visit'.query = visit.query /\ visit'.sort = visit.sort /\ visit'.per = visit.per
      /\ visit'.page = visit.page /\ visit'.calm = visit.calm
      /\ visit'.seen = [i \in Items |-> visit.seen[i] + (IF i \in R THEN 1 ELSE 0)]
  BY <1>1, <1>2 DEF Visits
<1>8. visit' \in Visits
  <2>1. visit.seen \in [Items -> Nat]
    BY <1>1 DEF Visits
  <2>2. [i \in Items |-> visit.seen[i] + (IF i \in R THEN 1 ELSE 0)] \in [Items -> Nat]
    BY <2>1
  <2>3. R \in SUBSET Items
    BY <1>4, <1>6
  <2> QED BY <1>1, <1>2, <2>2, <2>3 DEF Visits
<1>9. /\ PagesRead = visit.page - 1 /\ PagesRead' = visit.page /\ visit.page \in Nat \ {0}
      /\ visit.per \in Nat \ {0}
  BY <1>1, <1>7 DEF PagesRead, Visits
<1>10. \A i \in Items : /\ visit.seen[i] \in Nat /\ visit.seen[i] <= visit.page - 1
                        /\ visit'.seen[i] \in Nat /\ visit'.seen[i] <= visit.page
  BY <1>1, <1>7, <1>9 DEF BrowseOK, Visits
<1>11. CatalogueShape'
  BY <1>1, <1>7, <1>8, <1>10 DEF CatalogueShape, CatalogueTypeOK, Visits
<1>12. Matching' = S /\ NoTies' = NoTies
  BY <1>1, <1>7, SameFound DEF Matching, NoTies, Before
<1>13. ASSUME visit.calm, NoTies
       PROVE  /\ \A i \in Items : visit'.seen[i] \in {0, 1}
              /\ Shown' \subseteq S
              /\ NoneBefore(visit.sort, S \ Shown', Shown')
              /\ Cardinality(Shown') = Min({visit.page * visit.per, c})
  <2>1. /\ \A i \in Items : visit.seen[i] \in {0, 1}
        /\ Shown \in SUBSET S
        /\ NoneBefore(visit.sort, S \ Shown, Shown)
        /\ Cardinality(Shown) = size(skip)
    BY <1>1, <1>9, <1>13 DEF BrowseOK
  <2>2. P = Shown
    <3>1. \A i, j \in S : i # j => Before(visit.sort, i, j) \/ Before(visit.sort, j, i)
      BY <1>13 DEF NoTies, Matching
    <3>2. P \in SUBSET S
      BY <1>5
    <3> HIDE DEF S, skip, size
    <3> QED BY <1>3, <1>5, <1>6, <2>1, <3>1, <3>2, OneBeginning
  <2>3. \A i \in R : visit.seen[i] = 0
    BY <1>4, <1>5, <1>6, <2>1, <2>2 DEF Shown
  <2>4. \A i \in Items : visit'.seen[i] = IF i \in R THEN 1 ELSE visit.seen[i]
    BY <1>7, <1>10, <2>1, <2>3
  <2>5. Shown' = P \union R
    BY <1>4, <1>6, <2>2, <2>4 DEF Shown
  <2>6. NoneBefore(visit.sort, S \ (P \union R), P \union R)
    BY <1>3 DEF NoneBefore
  <2>7. Cardinality(P \union R) = size(skip + visit.per)
    <3>1. IsFiniteSet(P) /\ IsFiniteSet(R) /\ P \intersect R = {}
      BY <1>4, <1>5, <1>6, FS_Subset
    <3>2. Cardinality(P \union R) = Cardinality(P) + Cardinality(R)
      <4>1. Cardinality(P \union R) = Cardinality(P) + Cardinality(R) - Cardinality(P \intersect R)
        BY <3>1, FS_Union
      <4>2. Cardinality(P \intersect R) = 0
        BY <3>1, FS_EmptySet
      <4>3. Cardinality(P) \in Nat /\ Cardinality(R) \in Nat
        BY <3>1, FS_CardinalityType
      <4> QED BY <4>1, <4>2, <4>3
    <3>3. Cardinality(P) \in Nat /\ Cardinality(R) \in Nat
      BY <3>1, FS_CardinalityType
    <3>4. size(skip + visit.per) \in Int
      <4>1. skip + visit.per \in Int
        BY <1>9
      <4> QED BY <1>6, <4>1, MinMaxOfTwo
    <3> QED BY <1>4, <1>5, <3>2, <3>3, <3>4
  <2>8. skip + visit.per = visit.page * visit.per
    <3>1. \A a, b \in Int : (a - 1) * b + b = a * b
      OBVIOUS
    <3>2. visit.page \in Int /\ visit.per \in Int
      BY <1>9
    <3> QED BY <3>1, <3>2
  <2> QED BY <1>4, <1>5, <2>1, <2>4, <2>5, <2>6, <2>7, <2>8
<1>14. BrowseOK'
  BY <1>1, <1>7, <1>9, <1>10, <1>12, <1>13 DEF BrowseOK
<1> QED BY <1>11, <1>14

\* The pages reach as far as the matching documents do, unless a cap was in the way.
LEMMA CountCatalogueInv ==
  ASSUME CatalogueInv, CountRows
  PROVE  CatalogueInv'
<1> USE DEF CatalogueInv
<1> DEFINE n == Cardinality(Matching)
           total == Total(visit.dir, visit.query, visit.rows)
           pages == IF visit.dir \in OnePage THEN 1 ELSE TotalPages(total, visit.per)
           more == visit.page < pages /\ (visit.dir = "vehicles" => visit.page < MaxPage)
<1>1. visit \in Visits /\ visit.at = "count" /\ UNCHANGED <<state, deleted, saved, edits>>
  BY DEF CatalogueShape, CountRows
<1>2. n \in Nat
  BY <1>1, MatchingFinite, FS_CardinalityType DEF Matching, Visits
<1>3. PagesRead = visit.page /\ visit.page \in Nat \ {0} /\ visit.per \in Nat \ {0}
  BY <1>1 DEF PagesRead, Visits
<1>4. \A i \in Items : visit.seen[i] \in Nat /\ visit.seen[i] <= visit.page
  BY <1>1, <1>3 DEF BrowseOK, Visits
<1>5. visit.dir \notin OnePage =>
        total = IF visit.dir = "vehicles" /\ CountCap <= n THEN CountCap ELSE n
  <2>1. CASE visit.dir = "vehicles"
    <3>1. total = Min({CountCap, n})
      BY <2>1 DEF Total, Matching, OnePage
    <3>2. CountCap \in Int
      BY CatalogueAssumption
    <3> HIDE DEF n, total
    <3>3. Min({CountCap, n}) = IF CountCap <= n THEN CountCap ELSE n
      BY <1>2, <3>2, MinMaxOfTwo
    <3> QED BY <2>1, <3>1, <3>3
  <2>2. CASE visit.dir # "vehicles"
    BY <2>2 DEF Total, Matching
  <2> QED BY <2>1, <2>2
<1>6. pages \in Int
  <2>1. visit.dir \notin OnePage => total \in Nat
    BY <1>2, <1>5, CatalogueAssumption
  <2> HIDE DEF total
  <2>2. visit.dir \notin OnePage => TotalPages(total, visit.per) \in Int
    BY <1>3, <2>1, PagesType
  <2> QED BY <2>2
<1>7. CASE more
  <2>1. visit' = [visit EXCEPT !.at = "rows", !.page = @ + 1]
    BY <1>7 DEF CountRows
  <2>2. /\ visit' \in Visits /\ visit'.at = "rows" /\ visit'.page = visit.page + 1
        /\ visit'.dir = visit.dir /\ visit'.query = visit.query /\ visit'.sort = visit.sort
        /\ visit'.per = visit.per /\ visit'.rows = visit.rows /\ visit'.seen = visit.seen
        /\ visit'.calm = visit.calm
    <3>1. visit.page + 1 \in Nat \ {0}
      BY <1>3
    <3>2. visit' \in Visits
      BY <1>1, <2>1, <3>1 DEF Visits
    <3> QED BY <1>1, <2>1, <3>2 DEF Visits
  <2>3. visit.dir \notin OnePage
    BY <1>3, <1>7
  <2>4. PagesRead' = visit.page
    BY <1>3, <2>2 DEF PagesRead
  <2>5. Matching' = Matching /\ NoTies' = NoTies /\ Shown' = Shown
    BY <1>1, <2>2, SameFound DEF Matching, NoTies, Before, Shown
  <2>6. CatalogueShape'
    BY <1>1, <1>3, <1>4, <2>2 DEF CatalogueShape, CatalogueTypeOK, Visits
  <2>7. BrowseOK'
    BY <1>1, <1>3, <1>4, <2>2, <2>3, <2>4, <2>5 DEF BrowseOK
  <2> QED BY <2>6, <2>7
<1>8. CASE ~more
  <2>1. visit' = [visit EXCEPT !.at = "end"]
    BY <1>8 DEF CountRows
  <2>2. /\ visit' \in Visits /\ visit'.at = "end" /\ visit'.page = visit.page
        /\ visit'.dir = visit.dir /\ visit'.query = visit.query /\ visit'.sort = visit.sort
        /\ visit'.per = visit.per /\ visit'.rows = visit.rows /\ visit'.seen = visit.seen
        /\ visit'.calm = visit.calm
    BY <1>1, <2>1 DEF Visits
  <2>3. PagesRead' = visit.page
    BY <2>2 DEF PagesRead
  <2>4. /\ Matching' = Matching /\ NoTies' = NoTies /\ Shown' = Shown
        /\ WithinReach' = WithinReach
    BY <1>1, <2>2, SameFound DEF Matching, NoTies, Before, Shown, WithinReach
  <2>5. CatalogueShape'
    BY <1>1, <1>3, <1>4, <2>2 DEF CatalogueShape, CatalogueTypeOK, Visits
  <2>6. ASSUME WithinReach PROVE n <= visit.page * visit.per
    <3>1. CASE visit.dir \in OnePage
      <4>1. visit.page = 1 /\ n <= visit.per
        BY <2>6, <3>1 DEF BrowseOK, WithinReach, Matching
      <4> QED BY <1>3, <4>1
    <3>2. CASE visit.dir \notin OnePage /\ visit.page >= pages
      <4>1. total = n
        <5>1. visit.dir = "vehicles" => n <= CountCap
          BY <2>6 DEF WithinReach, Matching
        <5>2. CountCap \in Int
          BY CatalogueAssumption
        <5> HIDE DEF n, total
        <5> QED BY <1>2, <1>5, <3>2, <5>1, <5>2
      <4>2. visit.page >= TotalPages(n, visit.per)
        BY <3>2, <4>1
      <4> HIDE DEF n
      <4> QED BY <1>2, <1>3, <4>2, PagesReach
    <3>3. CASE visit.dir = "vehicles" /\ visit.page >= MaxPage
      <4>1. n <= MaxPage * visit.per /\ MaxPage \in Nat
        BY <2>6, <3>3, CatalogueAssumption DEF WithinReach, Matching
      <4>2. MaxPage * visit.per <= visit.page * visit.per
        <5>1. \A a, b, p \in Nat : a >= b => b * p <= a * p
          OBVIOUS
        <5>2. visit.page \in Nat /\ visit.per \in Nat
          BY <1>3
        <5> QED BY <3>3, <4>1, <5>1, <5>2
      <4> HIDE DEF n
      <4> QED BY <1>2, <1>3, <4>1, <4>2
    <3>4. visit.page >= pages \/ (visit.dir = "vehicles" /\ visit.page >= MaxPage)
      <4>1. ~(visit.page < pages) \/ (visit.dir = "vehicles" /\ ~(visit.page < MaxPage))
        BY <1>8
      <4>2. MaxPage \in Int
        BY CatalogueAssumption
      <4> HIDE DEF pages
      <4> QED BY <1>3, <1>6, <4>1, <4>2
    <3> QED BY <3>1, <3>2, <3>3, <3>4
  <2>7. BrowseOK'
    BY <1>1, <1>3, <1>4, <2>2, <2>3, <2>4, <2>6 DEF BrowseOK
  <2> QED BY <2>5, <2>7
<1> QED BY <1>7, <1>8

LEMMA LeaveCatalogueInv ==
  ASSUME CatalogueInv, Leave
  PROVE  CatalogueInv'
<1> USE DEF CatalogueInv
<1>1. visit' = Nobody /\ UNCHANGED <<state, deleted, saved, edits>>
  BY DEF Leave
<1>2. Nobody \in Visits
  BY CatalogueAssumption DEF Nobody, Visits, Sorts, Directories, Collection
<1>3. CatalogueShape'
  BY <1>1, <1>2 DEF CatalogueShape, CatalogueTypeOK, Nobody, Directories, Collection
<1>4. BrowseOK'
  BY <1>1 DEF BrowseOK, Nobody
<1> QED BY <1>3, <1>4

LEMMA CatalogueInvHolds == CatalogueSpec => []CatalogueInv
<1>1. CatalogueInv /\ [CatalogueNext]_catalogueVars => CatalogueInv'
  <2> SUFFICES ASSUME CatalogueInv, [CatalogueNext]_catalogueVars PROVE CatalogueInv'
    OBVIOUS
  <2>1. CASE \E dir \in Directories, q \in Queries, s \in Sorts, n \in PageSizes :
               Enter(dir, q, s, n)
    BY <2>1, EnterCatalogueInv
  <2>2. CASE ReadRows
    BY <2>2, ReadCatalogueInv
  <2>3. CASE CountRows
    BY <2>3, CountCatalogueInv
  <2>4. CASE Leave
    BY <2>4, LeaveCatalogueInv
  <2>5. CASE \E i \in Items : Change(i)
    BY <2>5, ChangeCatalogueInv
  <2>6. CASE \E v \in Vehicles : SaveVehicle(v) \/ UnsaveVehicle(v)
    BY <2>6, SavedCatalogueInv
  <2>7. CASE UNCHANGED catalogueVars
    <3>1. UNCHANGED <<state, deleted, saved, edits, visit>>
      BY <2>7 DEF catalogueVars
    <3>2. \A dir, q : Found(dir, q)' = Found(dir, q)
      BY <3>1, SameFound
    <3>3. CatalogueShape'
      BY <3>1 DEF CatalogueInv, CatalogueShape, CatalogueTypeOK
    <3>4. BrowseOK'
      BY <3>1, <3>2 DEF CatalogueInv, BrowseOK, PagesRead, Matching, Shown, NoTies,
                        WithinReach, NoneBefore, Before
    <3> QED BY <3>3, <3>4 DEF CatalogueInv
  <2> QED BY <2>1, <2>2, <2>3, <2>4, <2>5, <2>6, <2>7 DEF CatalogueNext
<1> QED BY InitCatalogueInv, <1>1, PTL DEF CatalogueSpec

\* Whoever reads a directory to its end while no document changes has been shown every
\* matching document once and nothing else, whatever the page size, as long as the sort
\* tells documents apart and no cap is in the way.
THEOREM BrowsingSeesAll == CatalogueSpec => []BrowseSeesAll
<1>1. CatalogueInv => BrowseSeesAll
  <2> SUFFICES ASSUME CatalogueInv, visit.at = "end", visit.calm, NoTies, WithinReach,
                      NEW i \in Items
               PROVE  visit.seen[i] = IF i \in Matching THEN 1 ELSE 0
    BY DEF BrowseSeesAll, Matching
  <2> USE DEF CatalogueInv
  <2>1. visit \in Visits /\ PagesRead = visit.page
    BY DEF CatalogueShape, PagesRead
  <2>2. /\ visit.seen[i] \in {0, 1} /\ Shown \in SUBSET Matching
        /\ Cardinality(Shown) = Min({visit.page * visit.per, Cardinality(Matching)})
        /\ Cardinality(Matching) <= visit.page * visit.per
    BY <2>1 DEF BrowseOK
  <2>3. IsFiniteSet(Matching) /\ Cardinality(Matching) \in Nat
    BY <2>1, MatchingFinite, FS_CardinalityType DEF Matching, Visits
  <2>4. Cardinality(Shown) = Cardinality(Matching)
    <3> DEFINE a == visit.page * visit.per
               c == Cardinality(Matching)
    <3>1. a \in Int
      BY <2>1 DEF Visits
    <3> HIDE DEF a, c
    <3>2. c \in Nat /\ c <= a /\ Cardinality(Shown) = Min({a, c})
      BY <2>2, <2>3 DEF a, c
    <3>3. Cardinality(Shown) = c
      BY <3>1, <3>2, MinMaxOfTwo
    <3> QED BY <3>3 DEF c
  <2>5. Shown = Matching
    BY <2>2, <2>3, <2>4, FS_Subset
  <2> QED BY <2>2, <2>5 DEF Shown
<1> QED BY <1>1, CatalogueInvHolds, PTL

-----------------------------------------------------------------------------
\* The reads agree

\* is_visible, for a vehicle.
LEMMA VehicleVisible ==
  \A v \in Vehicles : IsVisible(v) <=> state[v] \in VISIBLE /\ ~deleted[v]
  BY DEF IsVisible

\* The vehicle_count of a dealer is the length of the list the dealer filter gives.
LEMMA DealersAgree ==
  \A d \in Dealers :
    VehicleCount(d) = Cardinality(Found("vehicles", [AnyQuery EXCEPT !.dealer = d]))
<1> SUFFICES ASSUME NEW d \in Dealers
             PROVE  VehicleCount(d) = Cardinality(Found("vehicles", [AnyQuery EXCEPT !.dealer = d]))
  OBVIOUS
<1> DEFINE q == [AnyQuery EXCEPT !.dealer = d]
<1>1. q.group = {} /\ q.dealer = d /\ q.minPrice = None /\ q.maxPrice = None
  BY DEF AnyQuery
<1>2. d # None
  BY CatalogueAssumption
<1>3. \A v \in Vehicles : Wanted(v, q) <=> DealerOf[v] = d
  BY <1>1, <1>2 DEF Wanted
<1> HIDE DEF q
<1>4. Found("vehicles", q) = {v \in Vehicles : IsVisible(v) /\ Wanted(v, q)}
  BY DEF Found, Collection
<1>5. Found("vehicles", q)
        = {v \in Vehicles : DealerOf[v] = d /\ state[v] \in VISIBLE /\ ~deleted[v]}
  BY <1>3, <1>4, VehicleVisible
<1> QED BY <1>5 DEF VehicleCount, q

\* A facet's size is the length of the list it leads to, and no price lies outside the bounds.
LEMMA FacetsAgree ==
  \A F \in Facets :
    /\ \A g \in DOMAIN F.groups :
         F.groups[g] = Cardinality(Found("vehicles", [AnyQuery EXCEPT !.group = {g}]))
    /\ Found("vehicles", [AnyQuery EXCEPT !.minPrice = F.min, !.maxPrice = F.max])
         = Found("vehicles", AnyQuery)
<1> SUFFICES ASSUME NEW F \in Facets
             PROVE  /\ \A g \in DOMAIN F.groups :
                         F.groups[g]
                           = Cardinality(Found("vehicles", [AnyQuery EXCEPT !.group = {g}]))
                    /\ Found("vehicles", [AnyQuery EXCEPT !.minPrice = F.min,
                                                          !.maxPrice = F.max])
                         = Found("vehicles", AnyQuery)
  OBVIOUS
<1> DEFINE base == {v \in Vehicles : state[v] \in VISIBLE /\ ~deleted[v]}
           prices == {Price[v] : v \in base}
<1>1. PICK G : F = [groups |-> [g \in G |-> Cardinality({v \in base : Group[v] = g})],
                    min |-> IF prices = {} THEN 0 ELSE Min(prices),
                    max |-> IF prices = {} THEN 0 ELSE Max(prices)]
  BY DEF Facets
<1>2. \A q : Found("vehicles", q) = {v \in base : Wanted(v, q)}
  BY VehicleVisible DEF Found, Collection
<1>3. ASSUME NEW g \in DOMAIN F.groups
      PROVE  F.groups[g] = Cardinality(Found("vehicles", [AnyQuery EXCEPT !.group = {g}]))
  <2> DEFINE q == [AnyQuery EXCEPT !.group = {g}]
  <2>1. q.group = {g} /\ q.dealer = None /\ q.minPrice = None /\ q.maxPrice = None
    BY DEF AnyQuery
  <2>2. \A v \in base : Wanted(v, q) <=> Group[v] = g
    BY <2>1 DEF Wanted
  <2> HIDE DEF q
  <2>3. F.groups[g] = Cardinality({v \in base : Group[v] = g})
    BY <1>1
  <2>4. Found("vehicles", q) = {v \in base : Group[v] = g}
    BY <1>2, <2>2
  <2> HIDE DEF base
  <2> QED BY <2>3, <2>4 DEF q
<1>4. Found("vehicles", [AnyQuery EXCEPT !.minPrice = F.min, !.maxPrice = F.max])
        = Found("vehicles", AnyQuery)
  <2> DEFINE q == [AnyQuery EXCEPT !.minPrice = F.min, !.maxPrice = F.max]
  <2>1. q.group = {} /\ q.dealer = None /\ q.minPrice = F.min /\ q.maxPrice = F.max
    BY DEF AnyQuery
  <2>2. \A v \in base : Wanted(v, AnyQuery)
    BY DEF Wanted, AnyQuery
  <2>3. \A v \in base : Price[v] \in Nat /\ Price[v] \in prices
    BY CatalogueAssumption
  <2>4. \A v \in base : Price[v] >= F.min /\ Price[v] <= F.max
    <3> SUFFICES ASSUME NEW v \in base PROVE Price[v] >= F.min /\ Price[v] <= F.max
      OBVIOUS
    <3>1. prices \in SUBSET Int /\ prices # {}
      BY CatalogueAssumption
    <3>2. IsFiniteSet(prices)
      <4>1. IsFiniteSet(base)
        BY CatalogueAssumption, FS_Subset DEF Items
      <4> DEFINE f == [w \in base |-> Price[w]]
      <4>2. f \in Surjection(base, prices)
        BY DEF Surjection
      <4> QED BY <4>1, <4>2, FS_Surjection
    <3>3. F.min = Min(prices) /\ F.max = Max(prices)
      BY <1>1, <3>1
    <3> HIDE DEF prices
    <3>4. /\ Min(prices) \in prices /\ \A p \in prices : Min(prices) <= p
          /\ Max(prices) \in prices /\ \A p \in prices : p <= Max(prices)
      BY <3>1, <3>2, MinMaxOfFinite
    <3> QED BY <2>3, <3>1, <3>3, <3>4
  <2>5. \A v \in base : Wanted(v, q)
    <3> HIDE DEF q, prices
    <3> QED BY <2>1, <2>4 DEF Wanted
  <2> HIDE DEF q
  <2>6. Found("vehicles", q) = base /\ Found("vehicles", AnyQuery) = base
    BY <1>2, <2>2, <2>5
  <2> QED BY <2>6 DEF q
<1> QED BY <1>3, <1>4

\* With no more comparable vehicles than are fetched, those shown are the closest.
LEMMA SimilarAgree ==
  /\ SimilarAreClosest
  /\ \A v \in Vehicles : \A A \in Similar(v) : v \notin A /\ \A w \in A : Opens(w)
<1> SUFFICES ASSUME NEW v \in Vehicles, NEW A \in Similar(v)
             PROVE  /\ Cardinality(Comparable(v)) <= 2 * SimilarLimit =>
                         \A a \in A, b \in Comparable(v) \ A : Distance(v, a) <= Distance(v, b)
                    /\ v \notin A /\ \A w \in A : Opens(w)
  BY DEF SimilarAreClosest
<1> DEFINE S == Comparable(v)
           n == Cardinality(S)
<1>1. PICK R \in kSubset(Min({2 * SimilarLimit, n}), S) :
        /\ A \in SUBSET R
        /\ \A a \in A, b \in R \ A : Distance(v, a) <= Distance(v, b)
  BY DEF Similar, kSubset
<1>2. R \in SUBSET S /\ Cardinality(R) = Min({2 * SimilarLimit, n})
  BY <1>1 DEF kSubset
<1>3. IsFiniteSet(S) /\ S \subseteq Vehicles \ {v}
  <2>1. S \subseteq Vehicles \ {v} /\ S \subseteq Items
    BY DEF Comparable, Items
  <2> QED BY <2>1, CatalogueAssumption, FS_Subset
<1>4. ASSUME n <= 2 * SimilarLimit PROVE R = S
  <2>1. n \in Nat /\ 2 * SimilarLimit \in Int
    BY <1>3, FS_CardinalityType, CatalogueAssumption
  <2> HIDE DEF n
  <2>2. Min({2 * SimilarLimit, n}) = n
    BY <1>4, <2>1, MinMaxOfTwo
  <2> QED BY <1>2, <1>3, <2>2, FS_Subset DEF n
<1>5. \A w \in A : Opens(w)
  BY <1>1, <1>2 DEF Comparable, Opens
<1> QED BY <1>1, <1>2, <1>3, <1>4, <1>5

\* What is compared or saved has a visible status, and a vehicle is saved once.
LEMMA SavedAgree ==
  ASSUME CatalogueInv
  PROVE  /\ \A v \in Compare(Vehicles) \union {Latest(i) : i \in SavedVehicles} :
              Opens(v) \/ deleted[v]
         /\ \A i, j \in SavedVehicles : Latest(i) = Latest(j) => i = j
<1>1. saved \in Seq(Vehicles) /\ \A i, j \in DOMAIN saved : saved[i] = saved[j] => i = j
  BY DEF CatalogueInv, CatalogueShape, CatalogueTypeOK
<1> DEFINE n == Len(saved)
<1>2. SavedVehicles \subseteq 1..n
  <2>1. n \in Nat /\ SavedLimit \in Int
    BY <1>1, CatalogueAssumption
  <2>2. SavedVehicles \subseteq 1..Min({SavedLimit, n})
    BY DEF SavedVehicles
  <2> HIDE DEF n
  <2>3. Min({SavedLimit, n}) = IF SavedLimit <= n THEN SavedLimit ELSE n
    BY <2>1, MinMaxOfTwo
  <2> QED BY <2>1, <2>2, <2>3
<1>3. n \in Nat /\ DOMAIN saved = 1..n
  BY <1>1
<1>4. \A i \in SavedVehicles :
        /\ n - i + 1 \in DOMAIN saved /\ Latest(i) = saved[n - i + 1]
        /\ Latest(i) \in Vehicles /\ state[Latest(i)] \in VISIBLE
  BY <1>1, <1>2, <1>3 DEF Latest, SavedVehicles
<1>5. \A v \in Compare(Vehicles) \union {Latest(i) : i \in SavedVehicles} :
        v \in Vehicles /\ state[v] \in VISIBLE
  BY <1>4 DEF Compare
<1>6. \A i, j \in SavedVehicles : Latest(i) = Latest(j) => i = j
  BY <1>1, <1>2, <1>3, <1>4
<1> QED BY <1>5, <1>6, VehicleVisible DEF Opens

\* Counts, facets, similar, compared and saved vehicles agree with the list and with each
\* other in every state of the documents (Catalogue.tla).
THEOREM ReadsAgree == CatalogueSpec => []CatalogueAgrees
<1>1. CatalogueInv => CatalogueAgrees
  BY DealersAgree, FacetsAgree, SimilarAgree, SavedAgree DEF CatalogueAgrees
<1> QED BY <1>1, CatalogueInvHolds, PTL

-----------------------------------------------------------------------------
\* The three together.  A behaviour of the storefront is one of each component.
LEMMA StorefrontParts == StorefrontSpec => MediaSpec /\ CatalogueSpec /\ CustomersSpec
<1>1. StorefrontInit => MediaInit /\ CatalogueInit /\ CustomersInit
  BY DEF StorefrontInit
<1>2. [StorefrontNext]_storefrontVars => [MediaNext]_mediaVars
  BY DEF StorefrontNext, storefrontVars
<1>3. [StorefrontNext]_storefrontVars => [CatalogueNext]_catalogueVars
  BY DEF StorefrontNext, storefrontVars
<1>4. [StorefrontNext]_storefrontVars => [CustomersNext]_customerVars
  BY DEF StorefrontNext, storefrontVars, CustomersNext
<1> QED BY <1>1, <1>2, <1>3, <1>4, PTL
        DEF StorefrontSpec, MediaSpec, CatalogueSpec, CustomersSpec

\* Every variable of the storefront stays in its type (MCStorefront.tla).
THEOREM StorefrontTypes == StorefrontSpec => []StorefrontTypeOK
<1>1. CatalogueInv => CatalogueTypeOK
  BY DEF CatalogueInv, CatalogueShape
<1>2. CustomersInv => CustomersTypeOK
  BY DEF CustomersInv
<1>3. StorefrontTypeOK <=> MediaTypeOK /\ CatalogueTypeOK /\ CustomersTypeOK
  BY DEF StorefrontTypeOK
<1> QED BY <1>1, <1>2, <1>3, StorefrontParts, MediaTypes, CatalogueInvHolds,
           CustomersInvHolds, PTL
=============================================================================
