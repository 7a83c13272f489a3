----------------------- MODULE DownloadControlProofs -----------------------
(***************************************************************************)
(* For any number of packages, buffers, requests, stops and power losses:  *)
(* a package that the server took back or replaced does not come back, as  *)
(* long as no step of one thread falls between two accesses of the other   *)
(* one to the workspace; and what is downloaded is one whole package, when *)
(* the threads and the power losses leave the handlers whole.              *)
(***************************************************************************)
EXTENDS DownloadControl, SequenceTheorems, TLAPS

NoUrlOr == Urls \cup {NoUrl}
Datas == Seq(NoUrlOr \X Nat)
Workspace ==
  [url: NoUrlOr, size: BOOLEAN, state: {"IDLE", "DOWNLOADING", "DOWNLOADED"},
   offset: Nat, digest: Datas]
Steps == {"stop", "clear", "copy", "clean", "idle"} \cup Urls

TypeInv ==
  /\ ws \in Workspace /\ cache \in Workspace /\ erased \in Workspace
  /\ main \in Seq(Steps)
  /\ request \in NoUrlOr /\ offset \in Nat /\ parsed \in Datas /\ file \in Datas
  /\ wanted \in NoUrlOr

\* What is left of a handler is the end of an abort, or of a new URL, which may
\* begin with an abort; both are told from their last step on.
Ends(m, steps) == \A n \in 1..Len(m) : m[Len(m) + 1 - n] = steps[n]
AbortEnds == <<"idle", "copy", "clear", "stop">>
WriteEnds(u) == <<u, "clean", "copy", "clear", "idle", "copy", "clear", "stop">>

\* From the erasure on there is no URL, first in the workspace, then in its copy.
AbortInv ==
  /\ Len(main) <= 4 /\ Ends(main, AbortEnds)
  /\ Len(main) <= 2 => ws.url = NoUrl
  /\ Len(main) = 2 => erased.url = NoUrl
  /\ Len(main) = 1 => cache.url = NoUrl

WriteInv ==
  /\ Len(main) <= 8 /\ Ends(main, WriteEnds(wanted)) /\ wanted \in Urls
  /\ Len(main) <= 6 => ws.url = NoUrl
  /\ Len(main) = 3 => erased.url = NoUrl
  /\ Len(main) <= 2 => cache.url = NoUrl

\* Between two handlers the workspace and its copy have the URL that is wanted or
\* none, and the thread writes to the workspace then only.
WantedInv ==
  /\ main = <<>> => ws.url \in {NoUrl, wanted} /\ cache.url \in {NoUrl, wanted}
  /\ main # <<>> => pc # "write" /\ (AbortInv \/ WriteInv)

NoOverlap == "handler" \notin Overlaps
----------------------------------------------------------------------------
(* Types *)

LEMMA TypeInit == Init => TypeInv
  BY DEF Init, TypeInv, NoDownload, Workspace, NoUrlOr, Datas

LEMMA ErasedType == ws \in Workspace => Erased(ws) \in Workspace /\ Erased(ws).url = NoUrl
<1> SUFFICES ASSUME ws \in Workspace
             PROVE  Erased(ws) \in Workspace /\ Erased(ws).url = NoUrl
  OBVIOUS
<1>1. ws.state \in {"IDLE", "DOWNLOADING", "DOWNLOADED"}
  BY DEF Workspace
<1>2. NoDownload \in Workspace /\ NoDownload.url = NoUrl
  BY DEF NoDownload, Workspace, NoUrlOr, Datas
<1>3. Erased(ws) \in Workspace
  BY <1>1, <1>2 DEF Erased, Workspace
<1>4. Erased(ws).url = NoUrl
  BY <1>1, <1>2 DEF Erased, Workspace
<1> QED
  BY <1>3, <1>4

LEMMA MainType == TypeInv /\ (WriteEmptyUrl \/ (\E u \in Urls : WriteUrl(u)) \/ MainStep) => TypeInv'
<1> USE DEF TypeInv, NoUrlOr
<1>1. ASSUME TypeInv, WriteEmptyUrl
      PROVE  TypeInv'
  BY <1>1 DEF WriteEmptyUrl, AbortSteps, threadVars, Steps
<1>2. ASSUME TypeInv, NEW u \in Urls, WriteUrl(u)
      PROVE  TypeInv'
  <2>1. <<"clear", "copy", "clean", u>> \in Seq(Steps) /\ AbortSteps \in Seq(Steps)
    BY DEF AbortSteps, Steps
  <2>2. main' \in Seq(Steps)
    BY <1>2, <2>1 DEF WriteUrl
  <2> QED
    BY <1>2, <2>2 DEF WriteUrl, threadVars
<1>3. ASSUME TypeInv, MainStep
      PROVE  TypeInv'
  <2>1. main' \in Seq(Steps)
    BY <1>3 DEF MainStep
  <2>2. ws' \in Workspace
    BY <1>3, ErasedType DEF MainStep, Workspace
  <2>3. erased' \in Workspace /\ cache' \in Workspace /\ file' \in Datas
    BY <1>3, ErasedType DEF MainStep, Datas
  <2> QED
    BY <1>3, <2>1, <2>2, <2>3 DEF MainStep, threadVars
<1> QED
  BY <1>1, <1>2, <1>3

LEMMA EmptyType == <<>> \in Datas
  BY DEF Datas

LEMMA CopyType ==
  TypeInv => /\ \A d \in Datas, n \in Nat : [ws EXCEPT !.offset = n, !.digest = d] \in Workspace
             /\ \A d \in Datas, n \in Nat : [cache EXCEPT !.offset = n, !.digest = d] \in Workspace
  BY DEF TypeInv, Workspace

LEMMA ThreadType == TypeInv /\ (Thread \/ TransferBreaks) => TypeInv'
<1> SUFFICES ASSUME TypeInv, Thread \/ TransferBreaks
             PROVE  TypeInv'
  OBVIOUS
<1> USE DEF TypeInv, NoUrlOr
<1>1. CASE PkgDwlInit
  BY <1>1, ErasedType DEF PkgDwlInit, DeleteResumeInfo
<1>2. CASE GetPackageSize
  BY <1>2, ErasedType DEF GetPackageSize, DeleteResumeInfo, Workspace
<1>3. CASE PkgDwlDownload
  <2>1. Len(file) \in Nat
    BY DEF Datas
  <2>2. ws.url \in NoUrlOr /\ ws.digest \in Datas
    BY DEF Workspace
  <2>3. [ws EXCEPT !.offset = Len(file)] \in Workspace /\ [ws EXCEPT !.state = "DOWNLOADING"] \in Workspace
    BY <2>1 DEF Workspace
  <2> QED
    BY <1>3, <2>1, <2>2, <2>3, EmptyType DEF PkgDwlDownload
<1>4. CASE StartDownload \/ CheckStatus \/ CheckCrcAndSignature \/ TransferBreaks
  BY <1>4 DEF StartDownload, CheckStatus, CheckCrcAndSignature, TransferBreaks
<1>5. CASE PkgDwlStore
  <2>1. <<request, offset + 1>> \in NoUrlOr \X Nat
    BY <1>5
  <2>2. file' \in Datas /\ parsed' \in Datas
    BY <1>5, <2>1 DEF PkgDwlStore, Datas
  <2> QED
    BY <1>5, <2>2 DEF PkgDwlStore
<1>6. CASE RefreshCache
  BY <1>6, CopyType DEF RefreshCache
<1>7. CASE StoreWorkspace
  BY <1>7 DEF StoreWorkspace
<1>8. CASE PkgDwlEnd
  BY <1>8 DEF PkgDwlEnd, Workspace
<1>9. CASE DownloadEnded
  BY <1>9, ErasedType DEF DownloadEnded, DeleteResumeInfo
<1> QED
  BY <1>1, <1>2, <1>3, <1>4, <1>5, <1>6, <1>7, <1>8, <1>9 DEF Thread

LEMMA TypeStep == TypeInv /\ [Next]_vars => TypeInv'
<1> USE DEF TypeInv, NoUrlOr
<1>1. ASSUME TypeInv, PackageDownloadHandler
      PROVE  TypeInv'
  <2>1. ws' \in Workspace /\ cache' \in Workspace
    BY <1>1, ErasedType DEF PackageDownloadHandler, DeleteResumeInfo, Workspace
  <2>2. request' \in NoUrlOr /\ offset' \in Nat /\ parsed' \in Datas /\ file' \in Datas
    BY <1>1, EmptyType DEF PackageDownloadHandler, StartThread, threadVars
  <2> QED
    BY <1>1, <2>1, <2>2 DEF PackageDownloadHandler
<1>2. ASSUME TypeInv, Resume
      PROVE  TypeInv'
  BY <1>2, EmptyType DEF Resume, StartThread, threadVars
<1>3. ASSUME TypeInv, Suspend
      PROVE  TypeInv'
  BY <1>3 DEF Suspend, threadVars
<1>4. ASSUME TypeInv, Crash
      PROVE  TypeInv'
  BY <1>4 DEF Crash, NoDownload, Workspace, Datas
<1>5. TypeInv /\ UNCHANGED vars => TypeInv'
  BY DEF vars, threadVars
<1> QED
  BY <1>1, <1>2, <1>3, <1>4, <1>5, MainType, ThreadType DEF Next

----------------------------------------------------------------------------
(* The steps of the handlers *)

LEMMA AbortEndsAt ==
  AbortEnds[1] = "idle" /\ AbortEnds[2] = "copy" /\ AbortEnds[3] = "clear" /\ AbortEnds[4] = "stop"
  BY DEF AbortEnds

LEMMA WriteEndsAt ==
  ASSUME NEW u
  PROVE  /\ WriteEnds(u)[1] = u /\ WriteEnds(u)[2] = "clean" /\ WriteEnds(u)[3] = "copy"
         /\ WriteEnds(u)[4] = "clear" /\ WriteEnds(u)[5] = "idle" /\ WriteEnds(u)[6] = "copy"
         /\ WriteEnds(u)[7] = "clear" /\ WriteEnds(u)[8] = "stop"
  BY DEF WriteEnds

LEMMA AbortStepsEnds ==
  Len(AbortSteps) = 4 /\ AbortSteps # <<>> /\ Ends(AbortSteps, AbortEnds)
<1>1. Len(AbortSteps) = 4
  BY DEF AbortSteps
<1>2. AbortSteps # <<>>
  BY <1>1
<1>3. /\ AbortSteps[1] = "stop" /\ AbortSteps[2] = "clear"
      /\ AbortSteps[3] = "copy" /\ AbortSteps[4] = "idle"
  BY DEF AbortSteps
<1>4. ASSUME NEW n \in 1..4
      PROVE  AbortSteps[5 - n] = AbortEnds[n]
  <2>1. n = 1 \/ n = 2 \/ n = 3 \/ n = 4
    OBVIOUS
  <2> QED
    BY <2>1, <1>3, AbortEndsAt
<1> QED
  BY <1>1, <1>2, <1>4 DEF Ends

LEMMA NewUrlEnds ==
  ASSUME NEW u, NEW m, m = <<"clear", "copy", "clean", u>>
  PROVE  Len(m) = 4 /\ m # <<>> /\ Ends(m, WriteEnds(u))
<1>1. Len(m) = 4
  OBVIOUS
<1>2. m # <<>>
  BY <1>1
<1>3. m[1] = "clear" /\ m[2] = "copy" /\ m[3] = "clean" /\ m[4] = u
  OBVIOUS
<1>4. ASSUME NEW n \in 1..4
      PROVE  m[5 - n] = WriteEnds(u)[n]
  <2>1. n = 1 \/ n = 2 \/ n = 3 \/ n = 4
    OBVIOUS
  <2> QED
    BY <2>1, <1>3, WriteEndsAt
<1> QED
  BY <1>1, <1>2, <1>4 DEF Ends

LEMMA EightEnds ==
  ASSUME NEW m, NEW steps, Len(m) = 8,
         /\ steps[1] = m[8] /\ steps[2] = m[7] /\ steps[3] = m[6] /\ steps[4] = m[5]
         /\ steps[5] = m[4] /\ steps[6] = m[3] /\ steps[7] = m[2] /\ steps[8] = m[1]
  PROVE  Ends(m, steps)
<1>1. ASSUME NEW n \in 1..8
      PROVE  m[9 - n] = steps[n]
  <2>1. n = 1 \/ n = 2 \/ n = 3 \/ n = 4 \/ n = 5 \/ n = 6 \/ n = 7 \/ n = 8
    OBVIOUS
  <2>2. /\ (n = 1 => 9 - n = 8) /\ (n = 2 => 9 - n = 7) /\ (n = 3 => 9 - n = 6) /\ (n = 4 => 9 - n = 5)
        /\ (n = 5 => 9 - n = 4) /\ (n = 6 => 9 - n = 3) /\ (n = 7 => 9 - n = 2) /\ (n = 8 => 9 - n = 1)
    OBVIOUS
  <2> QED
    BY <2>1, <2>2
<1>2. ASSUME NEW n \in 1..Len(m)
      PROVE  m[Len(m) + 1 - n] = steps[n]
  <2>1. n \in 1..8
    BY <1>2
  <2>2. Len(m) + 1 - n = 9 - n
    BY <2>1
  <2> QED
    BY <1>1, <2>1, <2>2
<1> QED
  BY <1>2 DEF Ends

LEMMA Concatenated ==
  ASSUME NEW S, NEW a \in Seq(S), NEW b \in Seq(S)
  PROVE  LET m == a \o b
         IN  /\ Len(m) = Len(a) + Len(b)
             /\ \A i \in 1..Len(a) : m[i] = a[i]
             /\ \A i \in 1..Len(b) : m[Len(a) + i] = b[i]
<1>1. Len(a \o b) = Len(a) + Len(b)
  OBVIOUS
<1>2. \A i \in 1..Len(a) : (a \o b)[i] = a[i]
  OBVIOUS
<1>3. \A i \in 1..Len(b) : (a \o b)[Len(a) + i] = b[i]
  OBVIOUS
<1> QED
  BY <1>1, <1>2, <1>3

LEMMA FourAndFour ==
  ASSUME NEW m, NEW a, NEW b, NEW k, NEW l, k = 4, l = 4,
         \A i \in 1..k : m[i] = a[i],
         \A i \in 1..l : m[k + i] = b[i]
  PROVE  /\ m[1] = a[1] /\ m[2] = a[2] /\ m[3] = a[3] /\ m[4] = a[4]
         /\ m[5] = b[1] /\ m[6] = b[2] /\ m[7] = b[3] /\ m[8] = b[4]
<1>1. m[1] = a[1] /\ m[2] = a[2] /\ m[3] = a[3] /\ m[4] = a[4]
  OBVIOUS
<1>2. m[4 + 1] = b[1] /\ m[4 + 2] = b[2] /\ m[4 + 3] = b[3] /\ m[4 + 4] = b[4]
  OBVIOUS
<1> QED
  BY <1>1, <1>2

ReplacedUrl(u) == AbortSteps \o <<"clear", "copy", "clean", u>>

LEMMA ReplacedUrlSteps ==
  ASSUME NEW u \in Urls
  PROVE  LET m == ReplacedUrl(u)
         IN  /\ Len(m) = 8 /\ m # <<>>
             /\ m[1] = "stop" /\ m[2] = "clear" /\ m[3] = "copy" /\ m[4] = "idle"
             /\ m[5] = "clear" /\ m[6] = "copy" /\ m[7] = "clean" /\ m[8] = u
<1> DEFINE t == <<"clear", "copy", "clean", u>>
<1>1. AbortSteps \in Seq(Steps) /\ t \in Seq(Steps)
  BY DEF AbortSteps, Steps
<1>2. Len(AbortSteps) = 4 /\ Len(t) = 4
  BY AbortStepsEnds
<1>3. t[1] = "clear" /\ t[2] = "copy" /\ t[3] = "clean" /\ t[4] = u
  OBVIOUS
<1>4. /\ AbortSteps[1] = "stop" /\ AbortSteps[2] = "clear"
      /\ AbortSteps[3] = "copy" /\ AbortSteps[4] = "idle"
  BY DEF AbortSteps
<1>5. ReplacedUrl(u) = AbortSteps \o t
  BY DEF ReplacedUrl
<1> HIDE DEF t
<1>6. PICK a : a = AbortSteps
  OBVIOUS
<1>7. a \in Seq(Steps) /\ Len(a) = 4 /\ ReplacedUrl(u) = a \o t
  BY <1>1, <1>2, <1>5, <1>6, Zenon
<1>8. /\ Len(ReplacedUrl(u)) = Len(a) + Len(t)
      /\ \A i \in 1..Len(a) : ReplacedUrl(u)[i] = a[i]
      /\ \A i \in 1..Len(t) : ReplacedUrl(u)[Len(a) + i] = t[i]
  <2>1. \A x, y \in Seq(Steps) :
          /\ Len(x \o y) = Len(x) + Len(y)
          /\ \A i \in 1..Len(x) : (x \o y)[i] = x[i]
          /\ \A i \in 1..Len(y) : (x \o y)[Len(x) + i] = y[i]
    BY Concatenated
  <2>2. /\ Len(a \o t) = Len(a) + Len(t)
        /\ \A i \in 1..Len(a) : (a \o t)[i] = a[i]
        /\ \A i \in 1..Len(t) : (a \o t)[Len(a) + i] = t[i]
    BY <1>1, <1>7, <2>1, Zenon
  <2> QED
    BY <1>7, <2>2, Zenon
<1>9. PICK m, k, l : m = ReplacedUrl(u) /\ k = Len(a) /\ l = Len(t)
  OBVIOUS
<1>10. /\ Len(m) = k + l
       /\ \A i \in 1..k : m[i] = a[i]
       /\ \A i \in 1..l : m[k + i] = t[i]
  BY <1>8, <1>9, Zenon
<1>11. k = 4 /\ l = 4
  BY <1>2, <1>7, <1>9, Zenon
<1>12. /\ m[1] = a[1] /\ m[2] = a[2] /\ m[3] = a[3] /\ m[4] = a[4]
       /\ m[5] = t[1] /\ m[6] = t[2] /\ m[7] = t[3] /\ m[8] = t[4]
  BY <1>10, <1>11, FourAndFour
<1>13. Len(m) = 8
  BY <1>10, <1>11
<1>14. m # <<>>
  <2>1. Len(<<>>) = 0 /\ 0 # 8
    OBVIOUS
  <2> QED
    BY <1>13, <2>1
<1> QED
  BY <1>3, <1>4, <1>6, <1>9, <1>12, <1>13, <1>14, Zenon

LEMMA ReplacedUrlEnds ==
  ASSUME NEW u \in Urls
  PROVE  /\ Len(ReplacedUrl(u)) = 8 /\ ReplacedUrl(u) # <<>>
         /\ Ends(ReplacedUrl(u), WriteEnds(u))
<1>1. PICK m : m = ReplacedUrl(u)
  OBVIOUS
<1>2. /\ Len(m) = 8 /\ m # <<>>
      /\ m[1] = "stop" /\ m[2] = "clear" /\ m[3] = "copy" /\ m[4] = "idle"
      /\ m[5] = "clear" /\ m[6] = "copy" /\ m[7] = "clean" /\ m[8] = u
  BY <1>1, ReplacedUrlSteps
<1>3. PICK steps : steps = WriteEnds(u)
  OBVIOUS
<1>4. /\ steps[1] = m[8] /\ steps[2] = m[7] /\ steps[3] = m[6] /\ steps[4] = m[5]
      /\ steps[5] = m[4] /\ steps[6] = m[3] /\ steps[7] = m[2] /\ steps[8] = m[1]
  BY <1>2, <1>3, WriteEndsAt
<1>5. Ends(m, steps)
  BY <1>2, <1>4, EightEnds
<1> QED
  BY <1>1, <1>2, <1>3, <1>5

----------------------------------------------------------------------------
(* The URL that is wanted *)

LEMMA EndsLemma ==
  ASSUME NEW S, NEW m \in Seq(S), m # <<>>, NEW steps, Ends(m, steps)
  PROVE  /\ Head(m) = steps[Len(m)] /\ Ends(Tail(m), steps)
         /\ Len(Tail(m)) = Len(m) - 1 /\ Len(m) \in Nat /\ Len(m) # 0
<1>1. Len(m) \in Nat /\ Len(m) # 0 /\ Len(Tail(m)) = Len(m) - 1
  OBVIOUS
<1>2. Head(m) = m[1]
  OBVIOUS
<1>3. ASSUME NEW n \in 1..Len(Tail(m))
      PROVE  Tail(m)[Len(Tail(m)) + 1 - n] = steps[n]
  <2>1. Tail(m)[Len(m) - n] = m[Len(m) + 1 - n]
    BY <1>1, <1>3
  <2> QED
    BY <1>1, <2>1 DEF Ends
<1> QED
  BY <1>1, <1>2, <1>3 DEF Ends

\* What a step of a handler does to the URLs
LEMMA MainUrls ==
  TypeInv /\ MainStep =>
    /\ main # <<>> /\ main' = Tail(main) /\ pc' = pc /\ wanted' = wanted
    /\ ws'.url = IF Head(main) = "clear" THEN NoUrl
                 ELSE IF Head(main) \in Urls /\ Head(main) # "idle" THEN Head(main) ELSE ws.url
    /\ erased'.url = IF Head(main) = "clear" THEN NoUrl ELSE erased.url
    /\ cache'.url = IF Head(main) = "copy" THEN erased.url ELSE cache.url
<1> SUFFICES ASSUME TypeInv, MainStep
             PROVE  /\ ws'.url = IF Head(main) = "clear" THEN NoUrl
                                 ELSE IF Head(main) \in Urls /\ Head(main) # "idle"
                                        THEN Head(main) ELSE ws.url
                    /\ erased'.url = IF Head(main) = "clear" THEN NoUrl ELSE erased.url
                    /\ cache'.url = IF Head(main) = "copy" THEN erased.url ELSE cache.url
  BY DEF MainStep, threadVars
<1>1. Erased(ws).url = NoUrl
  BY ErasedType DEF TypeInv
<1>2. [ws EXCEPT !.state = "IDLE"].url = ws.url
      /\ [ws EXCEPT !.url = Head(main), !.state = "IDLE"].url = Head(main)
  BY DEF TypeInv, Workspace
<1>3. "clear" \notin Urls /\ "idle" \notin Urls
  BY DownloadControlAssumption
<1> QED
  BY <1>1, <1>2, <1>3 DEF MainStep

LEMMA UpToFour == \A n \in Nat : n # 0 /\ n <= 4 => n \in {1, 2, 3, 4}
  OBVIOUS

LEMMA UpToEight == \A n \in Nat : n # 0 /\ n <= 8 => n \in {1, 2, 3, 4, 5, 6, 7, 8}
  OBVIOUS

LEMMA OneLess ==
  \A n, k \in Nat : k = n - 1 =>
    /\ k <= 6 => n = 7 \/ n <= 6
    /\ k = 3 => n = 4
    /\ k <= 2 => n = 3 \/ n <= 2
    /\ n <= 2 => n # 3 /\ n # 6
  OBVIOUS

LEMMA MainWanted == TypeInv /\ WantedInv /\ MainStep => WantedInv'
<1> SUFFICES ASSUME TypeInv, WantedInv, MainStep
             PROVE  WantedInv'
  OBVIOUS
<1>1. main # <<>> /\ main' = Tail(main) /\ pc' = pc /\ wanted' = wanted
  BY MainUrls
<1>2. main \in Seq(Steps) /\ pc # "write" /\ (main' # <<>> => Len(main') # 0)
  BY <1>1 DEF TypeInv, WantedInv
<1>3. Len(main) \in Nat /\ Len(main) # 0
  BY <1>1, <1>2
<1>4. \A s \in {"idle", "copy", "clear", "stop", "clean"} : s \notin Urls
  BY DownloadControlAssumption
<1>5. CASE AbortInv
  <2>1. Head(main) = AbortEnds[Len(main)] /\ Ends(Tail(main), AbortEnds) /\ Len(Tail(main)) = Len(main) - 1
    BY <1>1, <1>2, <1>5, EndsLemma DEF AbortInv
  <2>2. Len(main) \in {1, 2, 3, 4}
    BY <1>5, <1>3, UpToFour DEF AbortInv
  <2>3. CASE Len(main) = 1
    <3>1. Head(main) = "idle"
      BY <2>1, <2>3, AbortEndsAt
    <3>2. ws'.url = NoUrl /\ cache'.url = NoUrl /\ main' = <<>>
      BY <3>1, <1>1, <1>2, <1>4, <1>5, <2>1, <2>3, MainUrls DEF AbortInv
    <3> QED
      BY <3>2 DEF WantedInv
  <2>4. CASE Len(main) # 1
    <3>1. Len(main) = 2 => Head(main) = "copy"
      BY <2>1, AbortEndsAt
    <3>2. Len(main) = 3 => Head(main) = "clear"
      BY <2>1, AbortEndsAt
    <3>3. AbortInv'
      BY <3>1, <3>2, <1>1, <1>4, <1>5, <2>1, <2>2, <2>4, MainUrls DEF AbortInv
    <3>4. main' # <<>>
      BY <1>1, <1>2, <2>1, <2>2, <2>4
    <3> QED
      BY <3>3, <3>4, <1>1, <1>2 DEF WantedInv
  <2> QED
    BY <2>3, <2>4
<1>6. CASE WriteInv
  <2>1. Head(main) = WriteEnds(wanted)[Len(main)] /\ Ends(Tail(main), WriteEnds(wanted))
        /\ Len(Tail(main)) = Len(main) - 1
    BY <1>1, <1>2, <1>6, EndsLemma DEF WriteInv
  <2>2. Len(main) \in {1, 2, 3, 4, 5, 6, 7, 8}
    BY <1>6, <1>3, UpToEight DEF WriteInv
  <2>3. CASE Len(main) = 1
    <3>1. Head(main) = wanted
      BY <2>1, <2>3, WriteEndsAt
    <3>2. ws'.url = wanted /\ cache'.url = NoUrl /\ main' = <<>>
      BY <3>1, <1>1, <1>2, <1>4, <1>6, <2>1, <2>3, MainUrls DEF WriteInv
    <3> QED
      BY <3>2, <1>1 DEF WantedInv
  <2>4. CASE Len(main) # 1
    <3>1. /\ Len(main) = 2 => Head(main) = "clean"
          /\ Len(main) = 3 => Head(main) = "copy"
          /\ Len(main) = 4 => Head(main) = "clear"
          /\ Len(main) = 5 => Head(main) = "idle"
          /\ Len(main) = 6 => Head(main) = "copy"
          /\ Len(main) = 7 => Head(main) = "clear"
          /\ Len(main) = 8 => Head(main) = "stop"
      <4> HIDE DEF WriteEnds
      <4>1. /\ Len(main) = 2 => Head(main) = WriteEnds(wanted)[2]
            /\ Len(main) = 3 => Head(main) = WriteEnds(wanted)[3]
            /\ Len(main) = 4 => Head(main) = WriteEnds(wanted)[4]
            /\ Len(main) = 5 => Head(main) = WriteEnds(wanted)[5]
            /\ Len(main) = 6 => Head(main) = WriteEnds(wanted)[6]
            /\ Len(main) = 7 => Head(main) = WriteEnds(wanted)[7]
            /\ Len(main) = 8 => Head(main) = WriteEnds(wanted)[8]
        BY <2>1
      <4> QED
        BY <4>1, WriteEndsAt
    <3>2. /\ ws'.url = IF Len(main) = 4 \/ Len(main) = 7 THEN NoUrl ELSE ws.url
          /\ erased'.url = IF Len(main) = 4 \/ Len(main) = 7 THEN NoUrl ELSE erased.url
          /\ cache'.url = IF Len(main) = 3 \/ Len(main) = 6 THEN erased.url ELSE cache.url
      BY <3>1, <1>4, <2>2, <2>4, MainUrls
    <3>4. Len(main') = Len(main) - 1 /\ Ends(main', WriteEnds(wanted')) /\ wanted' \in Urls
      BY <1>1, <1>6, <2>1 DEF WriteInv
    <3>5. WriteInv'
      <4>1. /\ Len(main) <= 6 => ws.url = NoUrl
            /\ Len(main) = 3 => erased.url = NoUrl
            /\ Len(main) <= 2 => cache.url = NoUrl
        BY <1>6 DEF WriteInv
      <4>2. /\ Len(main') <= 6 => Len(main) = 7 \/ Len(main) <= 6
            /\ Len(main') = 3 => Len(main) = 4
            /\ Len(main') <= 2 => Len(main) = 3 \/ Len(main) <= 2
            /\ Len(main) <= 2 => Len(main) # 3 /\ Len(main) # 6
        <5>1. Len(main') \in Nat
          BY <2>2, <3>4
        <5> QED
          BY <5>1, <1>3, <3>4, OneLess
      <4>3. Len(main') <= 6 => ws'.url = NoUrl
        BY <3>2, <4>1, <4>2
      <4>4. Len(main') = 3 => erased'.url = NoUrl
        BY <3>2, <4>2
      <4>5. Len(main') <= 2 => cache'.url = NoUrl
        BY <3>2, <4>1, <4>2
      <4>6. Len(main') <= 8
        <5>1. \A n \in Nat : n <= 8 => n - 1 <= 8
          OBVIOUS
        <5>2. Len(main) \in Nat /\ Len(main) <= 8
          BY <1>3, <1>6, <2>2 DEF WriteInv
        <5> QED
          BY <3>4, <5>1, <5>2
      <4> QED
        BY <4>3, <4>4, <4>5, <4>6, <3>4, SMTT(30) DEF WriteInv
    <3>3. main' # <<>>
      BY <1>1, <1>2, <2>1, <2>2, <2>4
    <3> QED
      BY <3>5, <3>3, <1>1, <1>2 DEF WantedInv
  <2> QED
    BY <2>3, <2>4
<1> QED
  BY <1>1, <1>5, <1>6 DEF WantedInv

LEMMA WriteWanted ==
  TypeInv /\ WantedInv /\ NoOverlap /\ (WriteEmptyUrl \/ (\E u \in Urls : WriteUrl(u))) => WantedInv'
<1>1. ASSUME TypeInv, WantedInv, NoOverlap, WriteEmptyUrl
      PROVE  WantedInv'
  <2>1. main' = AbortSteps /\ pc' = pc /\ pc # "write"
    BY <1>1 DEF WriteEmptyUrl, MainMayRun, NoOverlap, threadVars
  <2>2. AbortInv'
    BY <2>1, AbortStepsEnds DEF AbortInv
  <2> QED
    BY <2>1, <2>2, AbortStepsEnds DEF WantedInv
<1>2. ASSUME TypeInv, WantedInv, NoOverlap, NEW u \in Urls, WriteUrl(u)
      PROVE  WantedInv'
  <2>1. pc' = pc /\ pc # "write" /\ wanted' = u /\ ws' = ws
    BY <1>2 DEF WriteUrl, MainMayRun, NoOverlap, threadVars
  <2>2. CASE ws.url = NoUrl
    <3>1. main' = <<"clear", "copy", "clean", u>>
      BY <1>2, <2>2 DEF WriteUrl
    <3>2. Len(main') = 4 /\ main' # <<>> /\ Ends(main', WriteEnds(u))
      BY <3>1, NewUrlEnds
    <3>3. WriteInv'
      BY <2>1, <2>2, <3>2 DEF WriteInv
    <3> QED
      BY <2>1, <3>2, <3>3 DEF WantedInv
  <2>3. CASE ws.url # NoUrl
    <3>1. main' = ReplacedUrl(u)
      BY <1>2, <2>3 DEF WriteUrl, ReplacedUrl
    <3>2. Len(main') = 8 /\ main' # <<>> /\ Ends(main', WriteEnds(u))
      BY <3>1, ReplacedUrlEnds
    <3>3. WriteInv'
      BY <2>1, <3>2 DEF WriteInv
    <3> QED
      BY <2>1, <3>2, <3>3 DEF WantedInv
  <2> QED
    BY <2>2, <2>3
<1> QED
  BY <1>1, <1>2

LEMMA ThreadWanted == TypeInv /\ WantedInv /\ NoOverlap /\ (Thread \/ TransferBreaks) => WantedInv'
<1> SUFFICES ASSUME TypeInv, WantedInv, NoOverlap, Thread \/ TransferBreaks
             PROVE  WantedInv'
  OBVIOUS
<1> USE DEF ThreadMayRun, NoOverlap
<1>1. main = <<>> /\ main' = <<>>
  BY DEF Thread, PkgDwlInit, GetPackageSize, PkgDwlDownload, StartDownload, CheckStatus,
         PkgDwlStore, RefreshCache, StoreWorkspace, CheckCrcAndSignature, PkgDwlEnd,
         DownloadEnded, TransferBreaks
<1>2. ws.url \in {NoUrl, wanted} /\ cache.url \in {NoUrl, wanted}
  BY <1>1 DEF WantedInv
<1>3. Erased(ws).url = NoUrl
  BY ErasedType DEF TypeInv
<1>4. /\ \A d, n : [ws EXCEPT !.offset = n, !.digest = d].url = ws.url
      /\ \A d, n : [cache EXCEPT !.offset = n, !.digest = d].url = cache.url
      /\ \A b : [ws EXCEPT !.size = b].url = ws.url
      /\ \A b : [ws EXCEPT !.state = b].url = ws.url
      /\ \A b : [ws EXCEPT !.offset = b].url = ws.url
  BY DEF TypeInv, Workspace
<1>5. ws'.url \in {NoUrl, wanted'} /\ cache'.url \in {NoUrl, wanted'}
  <2>1. CASE PkgDwlInit
    BY <2>1, <1>2, <1>3 DEF PkgDwlInit, DeleteResumeInfo
  <2>2. CASE GetPackageSize
    <3>1. CASE DeleteResumeInfo
      BY <3>1, <1>3 DEF DeleteResumeInfo
    <3>2. CASE ~DeleteResumeInfo
      <4>1. PICK known \in {FALSE, status = "OK"} : ws' = [ws EXCEPT !.size = known]
        BY <2>2, <3>2 DEF GetPackageSize
      <4>2. cache' = cache /\ wanted' = wanted
        BY <2>2, <3>2 DEF GetPackageSize
      <4> QED
        BY <4>1, <4>2, <1>2, <1>4
    <3> QED
      BY <3>1, <3>2
  <2>3. CASE PkgDwlDownload
    <3>1. ws' = ws \/ ws' = [ws EXCEPT !.state = "DOWNLOADING"]
      BY <2>3, Zenon DEF PkgDwlDownload
    <3>2. cache' = ws \/ cache' = cache \/ cache' = [ws EXCEPT !.offset = Len(file)]
      BY <2>3, Zenon DEF PkgDwlDownload
    <3>3. wanted' = wanted
      BY <2>3, Zenon DEF PkgDwlDownload
    <3>4. ws'.url = ws.url
      BY <3>1, <1>4, Zenon
    <3>5. cache'.url = ws.url \/ cache'.url = cache.url
      BY <3>2, <1>4, Zenon
    <3> QED
      BY <3>3, <3>4, <3>5, <1>2
  <2>4. CASE StartDownload \/ CheckStatus \/ PkgDwlStore \/ CheckCrcAndSignature \/ TransferBreaks
    BY <2>4, <1>2 DEF StartDownload, CheckStatus, PkgDwlStore, CheckCrcAndSignature, TransferBreaks
  <2>5. CASE RefreshCache
    BY <2>5, <1>2, <1>4 DEF RefreshCache
  <2>6. CASE StoreWorkspace
    BY <2>6, <1>2 DEF StoreWorkspace
  <2>7. CASE PkgDwlEnd
    BY <2>7, <1>2, <1>4 DEF PkgDwlEnd
  <2>8. CASE DownloadEnded
    BY <2>8, <1>3 DEF DownloadEnded, DeleteResumeInfo
  <2> QED
    BY <2>1, <2>2, <2>3, <2>4, <2>5, <2>6, <2>7, <2>8 DEF Thread
<1> QED
  BY <1>1, <1>5 DEF WantedInv

LEMMA WantedStep == TypeInv /\ WantedInv /\ NoOverlap /\ [Next]_vars => WantedInv'
<1>1. ASSUME TypeInv, WantedInv, PackageDownloadHandler
      PROVE  WantedInv'
  <2>1. main = <<>> /\ main' = <<>>
    BY <1>1 DEF PackageDownloadHandler
  <2>2. ws.url \in {NoUrl, wanted} /\ cache.url \in {NoUrl, wanted}
    BY <1>1, <2>1 DEF WantedInv
  <2>3. Erased(ws).url = NoUrl /\ \A b : [ws EXCEPT !.size = b].url = ws.url
    BY <1>1, ErasedType DEF TypeInv, Workspace
  <2>4. ws'.url \in {NoUrl, wanted'} /\ cache'.url \in {NoUrl, wanted'}
    BY <1>1, <2>2, <2>3 DEF PackageDownloadHandler, DeleteResumeInfo
  <2> QED
    BY <2>1, <2>4 DEF WantedInv
<1>2. ASSUME WantedInv, Resume
      PROVE  WantedInv'
  BY <1>2 DEF Resume, WantedInv
<1>3. ASSUME WantedInv, Suspend
      PROVE  WantedInv'
  BY <1>3 DEF Suspend, WantedInv
<1>4. ASSUME Crash
      PROVE  WantedInv'
  <2>1. main' = <<>> /\ ws'.url = wanted' /\ cache'.url = NoUrl
    BY <1>4 DEF Crash, NoDownload
  <2> QED
    BY <2>1 DEF WantedInv
<1>5. ASSUME WantedInv, UNCHANGED vars
      PROVE  WantedInv'
  BY <1>5 DEF vars, threadVars, WantedInv, AbortInv, WriteInv
<1> QED
  BY <1>1, <1>2, <1>3, <1>4, <1>5, MainWanted, WriteWanted, ThreadWanted DEF Next

\* A package that the server took back, or replaced, does not come back, although
\* the download thread stores the copy it has of the workspace
\* (UpdateAndStorePkgDwlWorkspace), in every instance in which the steps of one
\* thread do not fall between two accesses of the other one to the workspace.
THEOREM WantedCorrect == NoOverlap => (Spec => []OnlyWantedIsStored)
<1> SUFFICES ASSUME NoOverlap
             PROVE  Spec => []OnlyWantedIsStored
  OBVIOUS
<1>1. Init => TypeInv /\ WantedInv
  BY TypeInit DEF Init, WantedInv, NoDownload
<1>2. TypeInv /\ WantedInv /\ [Next]_vars => (TypeInv /\ WantedInv)'
  BY TypeStep, WantedStep
<1>3. WantedInv => OnlyWantedIsStored
  BY DEF WantedInv, OnlyWantedIsStored
<1> QED
  BY <1>1, <1>2, <1>3, PTL DEF Spec

----------------------------------------------------------------------------
(* The data of a package *)

\* The file holds buffers of package u from the first one on
Holds(f, u) == Len(f) <= Chunks /\ \A i \in 1..Len(f) : f[i] = <<u, i>>

\* The states of the thread in which a transfer goes on
Transfers == {"request", "check", "read", "store", "write"}

\* The workspace tells how far the file has come, and that of its own package
InSync ==
  ws.url # NoUrl /\ file # <<>>
    => file = ws.digest /\ ws.offset = Len(file) /\ Holds(file, ws.url)

\* A whole package is there for as long as the state says so, and nothing resumes it
WholeInv ==
  ws.state = "DOWNLOADED" =>
    /\ pc \in {"off", "event"}
    /\ main = <<>> => /\ \E u \in Urls : file = Package(u)
                      /\ pc = "off" => ws.url = NoUrl

\* The copy that the thread stores has no state of an earlier package
CopyInv ==
  /\ erased.url = NoUrl
  /\ cache.url # NoUrl \/ pc = "write" => cache.state # "DOWNLOADED"
  /\ pc = "write" => cache.offset = offset /\ cache.digest = parsed

\* What is resumed is there, and what is not resumed begins with an empty file
ResumedInv ==
  pc \in {"size", "launch"} =>
    /\ resumed => file # <<>>
    /\ ~resumed /\ ws.url # NoUrl => file = <<>>

\* The file, what was digested and the offset agree during a transfer
TransferInv ==
  /\ pc \in Transfers => /\ request \in Urls /\ wanted \in {request, NoUrl}
                         /\ file = parsed /\ offset = Len(file) /\ Holds(file, request)
  /\ pc = "end" /\ ~failed => request \in Urls /\ file = Package(request)

\* A new URL is only taken when the thread has ended, and finds no file
NewUrlInv ==
  main # <<>> /\ main[Len(main)] \in Urls
    => pc = "off" /\ (Len(main) = 1 => file = <<>>)

DataInv ==
  /\ TypeInv /\ WantedInv
  /\ WholeInv /\ CopyInv /\ ResumedInv /\ TransferInv /\ NewUrlInv
  /\ pc \notin {"store", "write"} => InSync

LEMMA ErasedFacts ==
  ws \in Workspace => Erased(ws).url = NoUrl /\ Erased(ws).state = ws.state
<1> SUFFICES ASSUME ws \in Workspace
             PROVE  Erased(ws).url = NoUrl /\ Erased(ws).state = ws.state
  OBVIOUS
<1>1. NoDownload \in Workspace
  BY DEF NoDownload, Workspace, NoUrlOr, Datas
<1>2. Erased(ws).state = ws.state
  BY <1>1 DEF Erased, Workspace
<1> QED
  BY <1>2, ErasedType

\* Which step of a handler is next, told from what is left of it
LEMMA HeadFacts ==
  ASSUME TypeInv, WantedInv, main # <<>>
  PROVE  /\ Len(main) \in Nat /\ Len(main) # 0
         /\ main[Len(main)] \in Urls \cup {"idle"}
         /\ Len(main) = 1 => Head(main) = main[Len(main)]
         /\ Len(main) = 2 /\ main[Len(main)] \in Urls => Head(main) = "clean"
         /\ Head(main) = "clean" \/ Head(main) \in Urls => main[Len(main)] \in Urls
         /\ Head(main) \in Urls => Len(main) = 1
<1>1. main \in Seq(Steps)
  BY DEF TypeInv
<1>2. Len(main) \in Nat /\ Len(main) # 0 /\ Head(main) = main[1]
  BY <1>1
<1>3. Len(main) + 1 - 1 = Len(main) /\ 1 \in 1..Len(main)
  BY <1>2
<1>4. \A s \in {"idle", "copy", "clear", "stop", "clean"} : s \notin Urls
  BY DownloadControlAssumption
<1>5. AbortInv \/ WriteInv
  BY DEF WantedInv
<1>6. CASE AbortInv
  <2>1. Head(main) = AbortEnds[Len(main)]
    BY <1>1, <1>6, EndsLemma DEF AbortInv
  <2>2. Len(main) \in {1, 2, 3, 4}
    BY <1>2, <1>6, UpToFour DEF AbortInv
  <2>3. main[Len(main)] = AbortEnds[1]
    BY <1>3, <1>6 DEF AbortInv, Ends
  <2>4. main[Len(main)] = "idle" /\ Head(main) \in {"idle", "copy", "clear", "stop"}
    BY <2>1, <2>2, <2>3, AbortEndsAt
  <2> QED
    BY <1>2, <1>4, <2>4
<1>7. CASE WriteInv
  <2> DEFINE e == WriteEnds(wanted)
  <2>1. Head(main) = e[Len(main)]
    BY <1>1, <1>7, EndsLemma DEF WriteInv
  <2>2. Len(main) \in {1, 2, 3, 4, 5, 6, 7, 8} /\ wanted \in Urls
    BY <1>2, <1>7, UpToEight DEF WriteInv
  <2>3. main[Len(main)] = e[1]
    BY <1>3, <1>7 DEF WriteInv, Ends
  <2>4. e[1] = wanted /\ e[2] = "clean" /\ e[3] = "copy" /\ e[4] = "clear" /\ e[5] = "idle"
        /\ e[6] = "copy" /\ e[7] = "clear" /\ e[8] = "stop"
    BY WriteEndsAt
  <2> HIDE DEF e
  <2>5. main[Len(main)] = wanted /\ (Len(main) = 2 => Head(main) = "clean")
    BY <2>1, <2>3, <2>4
  <2>6. Head(main) \in Urls => Len(main) = 1
    BY <1>4, <2>1, <2>2, <2>4
  <2> QED
    BY <1>2, <2>2, <2>5, <2>6
<1> QED
  BY <1>5, <1>6, <1>7

\* What is left when a step of a handler is done
LEMMA TailFacts ==
  ASSUME TypeInv, main # <<>>
  PROVE  /\ Len(Tail(main)) = Len(main) - 1
         /\ Len(main) = 1 => Tail(main) = <<>>
         /\ Tail(main) # <<>> => /\ Len(main) # 1
                                 /\ Tail(main)[Len(Tail(main))] = main[Len(main)]
<1>1. main \in Seq(Steps)
  BY DEF TypeInv
<1>2. Len(main) \in Nat /\ Len(main) # 0 /\ Len(Tail(main)) = Len(main) - 1 /\ Tail(main) \in Seq(Steps)
  BY <1>1
<1>3. Len(main) = 1 => Tail(main) = <<>>
  <2>1. Tail(main) # <<>> => Len(Tail(main)) # 0
    BY <1>2
  <2>2. \A n \in Nat : n = 1 => n - 1 = 0
    OBVIOUS
  <2>3. Len(main) = 1 => Len(Tail(main)) = 0
    BY <1>2, <2>2
  <2> QED
    BY <2>1, <2>3
<1>4. ASSUME Tail(main) # <<>>
      PROVE  Len(main) # 1 /\ Tail(main)[Len(Tail(main))] = main[Len(main)]
  <2>1. Len(Tail(main)) # 0 /\ Len(main) # 1
    BY <1>2, <1>3, <1>4
  <2>2. \A i \in 1..Len(Tail(main)) : Tail(main)[i] = main[i + 1]
    BY <1>1
  <2>3. Len(Tail(main)) \in 1..Len(Tail(main)) /\ Len(Tail(main)) + 1 = Len(main)
    BY <1>2, <2>1
  <2> QED
    BY <2>1, <2>2, <2>3
<1> QED
  BY <1>2, <1>3, <1>4

LEMMA DataMain ==
  ASSUME DataInv, MainStep
  PROVE  /\ WholeInv' /\ CopyInv' /\ ResumedInv' /\ TransferInv' /\ NewUrlInv'
         /\ pc # "store" => InSync'
<1>1. TypeInv /\ WantedInv /\ main # <<>> /\ pc # "write"
  BY DEF DataInv, MainStep, WantedInv
<1>2. /\ main' = Tail(main)
      /\ UNCHANGED <<pc, request, offset, parsed, resumed, failed, wanted>>
  BY DEF MainStep, threadVars
<1> DEFINE h == Head(main)
<1>3. \A s \in {"idle", "copy", "clear", "stop", "clean"} : s \notin Urls
  BY DownloadControlAssumption
<1>4. NoUrl \notin Urls
  BY DownloadControlAssumption
<1>5. /\ h = "clean" => pc = "off" /\ file' = <<>>
      /\ h # "clean" => file' = file
      /\ h \in Urls => pc = "off" /\ file = <<>>
  BY <1>1, <1>3, HeadFacts DEF MainStep, DataInv, NewUrlInv
<1>6. /\ h = "clear" => ws'.url = NoUrl /\ ws'.state = ws.state
      /\ h \in Urls => ws'.state = "IDLE"
      /\ h = "idle" => ws'.state = "IDLE" /\ ws'.url = ws.url /\ ws'.offset = ws.offset
                       /\ ws'.digest = ws.digest
      /\ h \notin Urls \cup {"clear", "idle"} => ws' = ws
  BY <1>1, <1>3, ErasedFacts DEF MainStep, TypeInv, Workspace
<1>7. Len(main) = 1 => h \in Urls \cup {"idle"}
  BY <1>1, HeadFacts
<1>8. WholeInv'
  <2>1. SUFFICES ASSUME ws'.state = "DOWNLOADED" PROVE pc \in {"off", "event"} /\ main' # <<>>
    BY <1>2 DEF WholeInv
  <2>2. h \notin Urls /\ h # "idle" /\ ws.state = "DOWNLOADED"
    BY <1>6, <2>1
  <2>3. Len(main) # 1
    BY <1>7, <2>2
  <2>4. main' # <<>>
    BY <1>1, <1>2, <2>3, TailFacts, HeadFacts
  <2> QED
    BY <2>2, <2>4 DEF DataInv, WholeInv
<1>9. CopyInv'
  <2>1. erased'.url = NoUrl
    BY <1>1, ErasedFacts DEF MainStep, DataInv, CopyInv, TypeInv
  <2>2. cache' = cache \/ cache'.url = NoUrl
    BY DEF MainStep, DataInv, CopyInv
  <2> QED
    BY <1>1, <1>2, <2>1, <2>2 DEF DataInv, CopyInv
<1>10. ResumedInv'
  <2>1. pc \in {"size", "launch"} => file' = file /\ (ws'.url = NoUrl \/ ws'.url = ws.url)
    BY <1>5, <1>6
  <2> QED
    BY <1>2, <2>1 DEF DataInv, ResumedInv
<1>11. TransferInv'
  <2>1. pc # "off" => file' = file
    BY <1>5
  <2>2. pc \in Transfers \cup {"end"} => pc # "off"
    BY DEF Transfers
  <2> QED
    BY <1>2, <2>1, <2>2 DEF DataInv, TransferInv, Holds, Transfers
<1>12. NewUrlInv'
  <2>1. SUFFICES ASSUME main' # <<>>, main'[Len(main')] \in Urls
                 PROVE  pc = "off" /\ (Len(main') = 1 => file' = <<>>)
    BY <1>2 DEF NewUrlInv
  <2>2. main[Len(main)] \in Urls /\ Len(main') = Len(main) - 1
    BY <1>1, <1>2, <2>1, TailFacts
  <2>3. pc = "off"
    BY <1>1, <2>2 DEF DataInv, NewUrlInv
  <2>4. ASSUME Len(main') = 1 PROVE file' = <<>>
    <3>1. Len(main) \in Nat
      BY <1>1, HeadFacts
    <3>2. Len(main) = 2
      <4>1. \A n \in Nat : n - 1 = 1 => n = 2
        OBVIOUS
      <4> QED
        BY <2>2, <2>4, <3>1, <4>1
    <3> QED
      BY <1>1, <1>5, <2>2, <3>2, HeadFacts
  <2> QED
    BY <2>3, <2>4
<1>13. ASSUME pc # "store" PROVE InSync'
  <2>1. SUFFICES ASSUME ws'.url # NoUrl, file' # <<>>
                 PROVE  file' = ws'.digest /\ ws'.offset = Len(file') /\ Holds(file', ws'.url)
    BY DEF InSync, Holds
  <2>2. h # "clear" /\ h # "clean" /\ h \notin Urls
    BY <1>5, <1>6, <2>1
  <2>3. /\ file' = file /\ ws'.url = ws.url /\ ws'.offset = ws.offset /\ ws'.digest = ws.digest
    BY <1>5, <1>6, <2>2
  <2> QED
    BY <1>1, <1>13, <2>1, <2>3 DEF DataInv, InSync, Holds
<1> QED
  BY <1>8, <1>9, <1>10, <1>11, <1>12, <1>13

LEMMA DataWrite ==
  ASSUME DataInv, "late" \notin Overlaps, WriteEmptyUrl \/ (\E u \in Urls : WriteUrl(u))
  PROVE  /\ WholeInv' /\ CopyInv' /\ ResumedInv' /\ TransferInv' /\ NewUrlInv'
         /\ pc' \notin {"store", "write"} => InSync'
<1>1. /\ UNCHANGED <<ws, cache, erased, pc, request, offset, parsed, resumed, failed, file>>
      /\ main' # <<>>
  <2>1. UNCHANGED <<ws, cache, erased, threadVars, file>>
    BY DEF WriteEmptyUrl, WriteUrl
  <2>2. WriteEmptyUrl => main' # <<>>
    BY AbortStepsEnds DEF WriteEmptyUrl
  <2>3. ASSUME NEW u \in Urls, WriteUrl(u) PROVE main' # <<>>
    <3>1. CASE ws.url # NoUrl
      <4>1. main' = ReplacedUrl(u)
        BY <2>3, <3>1 DEF WriteUrl, ReplacedUrl
      <4> QED
        BY <4>1, ReplacedUrlEnds
    <3>2. CASE ws.url = NoUrl
      <4>1. main' = <<"clear", "copy", "clean", u>>
        BY <2>3, <3>2 DEF WriteUrl
      <4> QED
        BY <4>1, NewUrlEnds
    <3> QED
      BY <3>1, <3>2
  <2> QED
    BY <2>1, <2>2, <2>3 DEF threadVars
<1>2. WholeInv' /\ CopyInv' /\ ResumedInv' /\ (pc' \notin {"store", "write"} => InSync')
  BY <1>1 DEF DataInv, WholeInv, CopyInv, ResumedInv, InSync, Holds
<1>3. CASE WriteEmptyUrl
  <2>1. wanted' = NoUrl /\ main' = AbortSteps
    BY <1>3 DEF WriteEmptyUrl
  <2>2. TransferInv'
    BY <1>1, <2>1 DEF DataInv, TransferInv, Holds
  <2>3. main'[Len(main')] = "idle"
    BY <2>1, AbortStepsEnds DEF AbortSteps
  <2>4. "idle" \notin Urls
    BY DownloadControlAssumption
  <2> QED
    BY <1>2, <2>2, <2>3, <2>4 DEF NewUrlInv
<1>4. ASSUME NEW u \in Urls, WriteUrl(u)
      PROVE  TransferInv' /\ NewUrlInv'
  <2>1. pc = "off"
    BY <1>4 DEF WriteUrl
  <2>2. TransferInv'
    BY <1>1, <2>1 DEF TransferInv, Transfers
  <2>3. Len(main') \in {4, 8}
    <3>1. CASE ws.url # NoUrl
      <4>1. main' = ReplacedUrl(u)
        BY <1>4, <3>1 DEF WriteUrl, ReplacedUrl
      <4> QED
        BY <4>1, ReplacedUrlEnds
    <3>2. CASE ws.url = NoUrl
      <4>1. main' = <<"clear", "copy", "clean", u>>
        BY <1>4, <3>2 DEF WriteUrl
      <4> QED
        BY <4>1, NewUrlEnds
    <3> QED
      BY <3>1, <3>2
  <2>4. Len(main') # 1 /\ pc' = "off"
    BY <1>1, <2>1, <2>3
  <2>5. NewUrlInv'
    BY <2>4 DEF NewUrlInv
  <2> QED
    BY <2>2, <2>5
<1> QED
  BY <1>2, <1>3, <1>4

LEMMA DataOther ==
  ASSUME DataInv, "torn" \notin Overlaps,
         PackageDownloadHandler \/ Resume \/ Suspend \/ Crash \/ UNCHANGED vars
  PROVE  /\ WholeInv' /\ CopyInv' /\ ResumedInv' /\ TransferInv' /\ NewUrlInv'
         /\ pc' \notin {"store", "write"} => InSync'
<1> USE DEF DataInv
<1>1. CASE PackageDownloadHandler
  <2>1. pc = "off" /\ main = <<>> /\ main' = <<>> /\ UNCHANGED erased
    BY <1>1 DEF PackageDownloadHandler
  <2>2. NewUrlInv'
    BY <2>1 DEF NewUrlInv
  <2>3. CASE /\ ws.url # NoUrl /\ \E known \in BOOLEAN : ws' = [ws EXCEPT !.size = known]
             /\ file' = <<>> /\ pc' = "init" /\ UNCHANGED cache
    <3>1. ws'.state = ws.state /\ ws.state # "DOWNLOADED"
      BY <2>1, <2>3 DEF TypeInv, Workspace, WholeInv
    <3> QED
      BY <2>1, <2>2, <2>3, <3>1 DEF WholeInv, CopyInv, ResumedInv, TransferInv, Transfers, InSync
  <2>4. CASE DeleteResumeInfo /\ UNCHANGED <<threadVars, file>>
    <3>1. ws'.url = NoUrl /\ ws'.state = ws.state /\ cache'.url = NoUrl
      BY <2>4, ErasedFacts DEF DeleteResumeInfo, TypeInv
    <3>2. pc' = "off" /\ file' = file
      BY <2>1, <2>4 DEF threadVars
    <3> QED
      BY <2>1, <2>2, <3>1, <3>2 DEF WholeInv, CopyInv, ResumedInv, TransferInv, Transfers, InSync
  <2> QED
    BY <1>1, <2>3, <2>4 DEF PackageDownloadHandler, StartThread
<1>2. CASE Resume
  <2>1. /\ pc = "off" /\ main = <<>> /\ ws.url # NoUrl /\ pc' \in {"off", "init"}
        /\ UNCHANGED <<ws, cache, main, erased, file>>
    BY <1>2 DEF Resume, StartThread, threadVars
  <2>2. ws.state # "DOWNLOADED"
    BY <2>1 DEF WholeInv
  <2> QED
    BY <2>1, <2>2 DEF WholeInv, CopyInv, ResumedInv, TransferInv, Transfers, NewUrlInv, InSync, Holds
<1>3. CASE Suspend \/ UNCHANGED vars
  <2>1. UNCHANGED <<ws, cache, main, erased, threadVars, file, wanted>>
    BY <1>3 DEF Suspend, vars
  <2> QED
    BY <2>1 DEF threadVars, WholeInv, CopyInv, ResumedInv, TransferInv, NewUrlInv, InSync, Holds
<1>4. CASE Crash
  <2>1. /\ pc \notin {"store", "write", "event"} /\ main = <<>> /\ main' = <<>> /\ pc' = "off"
        /\ cache' = NoDownload /\ erased' = NoDownload /\ UNCHANGED <<ws, file>>
    BY <1>4 DEF Crash
  <2>2. NoDownload.url = NoUrl
    BY DEF NoDownload
  <2>3. ws.state = "DOWNLOADED" => pc = "off"
    BY <2>1 DEF WholeInv
  <2> QED
    BY <2>1, <2>2, <2>3
    DEF WholeInv, CopyInv, ResumedInv, TransferInv, Transfers, NewUrlInv, InSync, Holds
<1> QED
  BY <1>1, <1>2, <1>3, <1>4

LEMMA DataThread ==
  ASSUME DataInv, "handler" \notin Overlaps, Thread \/ TransferBreaks
  PROVE  /\ WholeInv' /\ CopyInv' /\ ResumedInv' /\ TransferInv' /\ NewUrlInv'
         /\ pc' \notin {"store", "write"} => InSync'
<1> USE DEF DataInv
<1>1. main = <<>> /\ main' = <<>> /\ UNCHANGED erased
  BY DEF Thread, TransferBreaks, ThreadMayRun, PkgDwlInit, GetPackageSize, PkgDwlDownload,
         StartDownload, CheckStatus, PkgDwlStore, RefreshCache, StoreWorkspace,
         CheckCrcAndSignature, PkgDwlEnd, DownloadEnded
<1>2. ws.url \in {NoUrl, wanted} /\ cache.url \in {NoUrl, wanted}
  BY <1>1 DEF WantedInv
<1>3. NewUrlInv'
  BY <1>1 DEF NewUrlInv
<1>4. Erased(ws).url = NoUrl /\ Erased(ws).state = ws.state
  BY ErasedFacts DEF TypeInv
<1>5. \A b : /\ [ws EXCEPT !.size = b].url = ws.url /\ [ws EXCEPT !.size = b].state = ws.state
             /\ [ws EXCEPT !.size = b].offset = ws.offset /\ [ws EXCEPT !.size = b].digest = ws.digest
  BY DEF TypeInv, Workspace
<1>6. CASE PkgDwlInit
  <2>0. pc = "init" /\ UNCHANGED file /\ (resumed' <=> ws.offset > 0 /\ file # <<>>)
    BY <1>6 DEF PkgDwlInit
  <2>1. \/ pc' \in {"launch", "size"} /\ UNCHANGED <<ws, cache>>
        \/ pc' = "end" /\ failed' = TRUE /\ DeleteResumeInfo
    BY <1>6 DEF PkgDwlInit
  <2>2. ws.url # NoUrl /\ file # <<>> => ws.offset > 0
    <3>1. file # <<>> => Len(file) > 0
      BY DEF TypeInv, Datas
    <3> QED
      BY <2>0, <3>1 DEF InSync
  <2>3. ws.state # "DOWNLOADED"
    BY <2>0 DEF WholeInv
  <2>4. CASE pc' \in {"launch", "size"} /\ UNCHANGED <<ws, cache>>
    BY <1>1, <1>3, <2>0, <2>2, <2>3, <2>4
    DEF WholeInv, CopyInv, ResumedInv, TransferInv, Transfers, InSync, Holds
  <2>5. CASE pc' = "end" /\ failed' = TRUE /\ DeleteResumeInfo
    BY <1>1, <1>3, <1>4, <2>0, <2>3, <2>5
    DEF DeleteResumeInfo, WholeInv, CopyInv, ResumedInv, TransferInv, Transfers, InSync
  <2> QED
    BY <2>1, <2>4, <2>5
<1>7. CASE GetPackageSize
  <2>1. /\ pc = "size" /\ UNCHANGED <<file, resumed>>
        /\ \/ pc' = "launch" /\ (\E b : ws' = [ws EXCEPT !.size = b]) /\ UNCHANGED cache
           \/ (pc' = "off" \/ (pc' = "end" /\ failed' = TRUE)) /\ DeleteResumeInfo
    BY <1>7 DEF GetPackageSize
  <2>2. ws.state # "DOWNLOADED"
    BY <2>1 DEF WholeInv
  <2>3. CASE pc' = "launch" /\ (\E b : ws' = [ws EXCEPT !.size = b]) /\ UNCHANGED cache
    <3>1. /\ ws'.url = ws.url /\ ws'.state = ws.state /\ ws'.offset = ws.offset
          /\ ws'.digest = ws.digest
      BY <1>5, <2>3
    <3> QED
      BY <1>1, <1>3, <2>1, <2>2, <2>3, <3>1
      DEF WholeInv, CopyInv, ResumedInv, TransferInv, Transfers, InSync, Holds
  <2>4. CASE (pc' = "off" \/ (pc' = "end" /\ failed' = TRUE)) /\ DeleteResumeInfo
    BY <1>1, <1>3, <1>4, <2>2, <2>4
    DEF DeleteResumeInfo, WholeInv, CopyInv, ResumedInv, TransferInv, Transfers, InSync
  <2> QED
    BY <2>1, <2>3, <2>4
<1>8. CASE PkgDwlDownload
  <2>1. pc = "launch" /\ ws.state # "DOWNLOADED" /\ UNCHANGED <<file, wanted, resumed>>
    BY <1>8 DEF PkgDwlDownload, WholeInv
  <2>2. CASE failed' = TRUE /\ pc' = "end" /\ cache' = ws /\ UNCHANGED ws
    BY <1>1, <1>3, <2>1, <2>2
    DEF WholeInv, CopyInv, ResumedInv, TransferInv, Transfers, InSync, Holds
  <2>3. CASE /\ ws' = [ws EXCEPT !.state = "DOWNLOADING"]
             /\ IF resumed THEN /\ offset' = Len(file) /\ parsed' = ws.digest
                                /\ cache' = [ws EXCEPT !.offset = Len(file)]
                           ELSE offset' = 0 /\ parsed' = <<>> /\ UNCHANGED cache
             /\ request' = ws.url
             /\ IF ws.url = NoUrl THEN failed' = TRUE /\ pc' = "end"
                                  ELSE pc' = "request" /\ UNCHANGED failed
    <3>1. /\ ws'.url = ws.url /\ ws'.state = "DOWNLOADING" /\ ws'.offset = ws.offset
          /\ ws'.digest = ws.digest
      BY <2>3 DEF TypeInv, Workspace
    <3>2. cache'.url # NoUrl => cache'.state # "DOWNLOADED"
      BY <2>1, <2>3 DEF CopyInv, TypeInv, Workspace
    <3>3. ws.url # NoUrl => ws.url \in Urls
      BY DEF TypeInv, Workspace, NoUrlOr
    <3>4. ws.url # NoUrl => file = parsed' /\ offset' = Len(file) /\ Holds(file, ws.url)
      <4>1. CASE resumed
        BY <2>1, <2>3, <4>1 DEF ResumedInv, InSync
      <4>2. CASE ~resumed
        <5>1. Len(<<>>) = 0 /\ \A u : Holds(<<>>, u)
          BY DownloadControlAssumption DEF Holds
        <5> QED
          BY <2>1, <2>3, <4>2, <5>1 DEF ResumedInv
      <4> QED
        BY <4>1, <4>2
    <3>5. InSync'
      BY <2>1, <3>1 DEF InSync, Holds
    <3>6. TransferInv'
      BY <1>2, <2>1, <2>3, <3>3, <3>4 DEF TransferInv, Transfers
    <3>7. pc' \notin {"write", "launch", "size"}
      BY <2>3
    <3> QED
      BY <1>1, <1>3, <3>1, <3>2, <3>5, <3>6, <3>7, ErasedFacts DEF WholeInv, CopyInv, ResumedInv
  <2> QED
    BY <1>8, <2>2, <2>3 DEF PkgDwlDownload
<1>9. CASE StartDownload \/ CheckStatus \/ (TransferBreaks /\ pc' = "off")
  <2>1. /\ pc \in {"request", "check", "read"} /\ pc' \in {"check", "read", "off"}
        /\ UNCHANGED <<ws, cache, request, offset, parsed, file, wanted>>
    BY <1>9 DEF StartDownload, CheckStatus, TransferBreaks
  <2> QED
    BY <1>1, <1>3, <2>1
    DEF WholeInv, CopyInv, ResumedInv, TransferInv, Transfers, InSync, Holds
<1>10. CASE TransferBreaks /\ pc' # "off"
  <2>1. /\ pc = "read" /\ pc' = "end" /\ failed' = TRUE
        /\ UNCHANGED <<ws, cache, request, offset, parsed, file, wanted>>
    BY <1>10 DEF TransferBreaks
  <2> QED
    BY <1>1, <1>3, <2>1
    DEF WholeInv, CopyInv, ResumedInv, TransferInv, Transfers, InSync, Holds
<1>11. CASE PkgDwlStore
  <2> DEFINE b == <<request, offset + 1>>
  <2>1. /\ pc = "read" /\ pc' = "store" /\ offset < Chunks /\ offset' = offset + 1
        /\ file' = Append(file, b) /\ parsed' = Append(parsed, b)
        /\ UNCHANGED <<ws, cache, request, wanted>>
    BY <1>11 DEF PkgDwlStore
  <2>2. request \in Urls /\ wanted \in {request, NoUrl}
        /\ file = parsed /\ offset = Len(file) /\ Holds(file, request)
    BY <2>1 DEF TransferInv, Transfers
  <2>3. file \in Datas /\ offset \in Nat /\ Chunks \in Nat
    BY DownloadControlAssumption DEF TypeInv
  <2>4. b \in NoUrlOr \X Nat
    BY <2>2, <2>3 DEF NoUrlOr
  <2>5. Len(file') = offset + 1 /\ file'[offset + 1] = b /\ \A i \in 1..offset : file'[i] = file[i]
    BY <2>1, <2>2, <2>3, <2>4 DEF Datas
  <2>6. Holds(file', request)
    BY <2>1, <2>2, <2>3, <2>5 DEF Holds
  <2> QED
    BY <1>1, <1>3, <2>1, <2>2, <2>5, <2>6
    DEF WholeInv, CopyInv, ResumedInv, TransferInv, Transfers
<1>12. CASE RefreshCache
  <2>1. /\ pc = "store" /\ pc' = "write"
        /\ cache' = [(IF cache.url = NoUrl THEN ws ELSE cache)
                       EXCEPT !.offset = offset, !.digest = parsed]
        /\ UNCHANGED <<ws, request, offset, parsed, file, wanted>>
    BY <1>12 DEF RefreshCache
  <2>2. ws.state # "DOWNLOADED"
    BY <2>1 DEF WholeInv
  <2>3. cache'.offset = offset /\ cache'.digest = parsed /\ cache'.state # "DOWNLOADED"
    BY <2>1, <2>2 DEF TypeInv, Workspace, CopyInv
  <2> QED
    BY <1>1, <1>3, <2>1, <2>2, <2>3
    DEF WholeInv, CopyInv, ResumedInv, TransferInv, Transfers, Holds
<1>13. CASE StoreWorkspace
  <2>1. pc = "write" /\ pc' = "check" /\ ws' = cache
        /\ UNCHANGED <<cache, request, offset, parsed, file, wanted>>
    BY <1>13 DEF StoreWorkspace
  <2>2. InSync'
    BY <1>2, <2>1 DEF InSync, CopyInv, TransferInv, Transfers, Holds
  <2>3. WholeInv' /\ CopyInv' /\ ResumedInv'
    BY <1>1, <2>1 DEF WholeInv, CopyInv, ResumedInv
  <2> QED
    BY <1>3, <2>1, <2>2, <2>3 DEF TransferInv, Transfers, Holds
<1>14. CASE CheckCrcAndSignature
  <2>1. /\ pc = "read" /\ pc' = "end" /\ failed' = (parsed # Package(request))
        /\ UNCHANGED <<ws, cache, request, offset, parsed, file, wanted>>
    BY <1>14 DEF CheckCrcAndSignature
  <2>2. request \in Urls /\ file = parsed
    BY <2>1 DEF TransferInv, Transfers
  <2> QED
    BY <1>1, <1>3, <2>1, <2>2
    DEF WholeInv, CopyInv, ResumedInv, TransferInv, Transfers, InSync, Holds, Package
<1>15. CASE PkgDwlEnd
  <2>1. /\ pc = "end" /\ pc' = "event"
        /\ ws' = [ws EXCEPT !.state = IF failed THEN "IDLE" ELSE "DOWNLOADED"]
        /\ UNCHANGED <<cache, file>>
    BY <1>15 DEF PkgDwlEnd
  <2>2. /\ ws'.url = ws.url /\ ws'.offset = ws.offset /\ ws'.digest = ws.digest
        /\ ws'.state = IF failed THEN "IDLE" ELSE "DOWNLOADED"
    BY <2>1 DEF TypeInv, Workspace
  <2>3. ~failed => request \in Urls /\ file = Package(request)
    BY <2>1 DEF TransferInv
  <2>4. WholeInv'
    BY <2>1, <2>2, <2>3 DEF WholeInv, Package
  <2> QED
    BY <1>1, <1>3, <2>1, <2>2, <2>4
    DEF CopyInv, ResumedInv, TransferInv, Transfers, InSync, Holds
<1>16. CASE DownloadEnded
  <2>1. pc = "event" /\ pc' = "off" /\ DeleteResumeInfo /\ UNCHANGED file
    BY <1>16 DEF DownloadEnded
  <2>2. ws'.url = NoUrl /\ ws'.state = ws.state /\ cache'.url = NoUrl
    BY <1>4, <2>1 DEF DeleteResumeInfo
  <2> QED
    BY <1>1, <1>3, <2>1, <2>2
    DEF WholeInv, CopyInv, ResumedInv, TransferInv, Transfers, InSync, Package
<1> QED
  BY <1>6, <1>7, <1>8, <1>9, <1>10, <1>11, <1>12, <1>13, <1>14, <1>15, <1>16 DEF Thread

LEMMA DataInit == Init => DataInv
<1> SUFFICES ASSUME Init PROVE DataInv
  OBVIOUS
<1>1. TypeInv /\ NoDownload.url = NoUrl /\ NoDownload.state = "IDLE"
  BY TypeInit DEF NoDownload
<1>2. WantedInv
  BY <1>1 DEF Init, WantedInv
<1>3. WholeInv /\ CopyInv /\ ResumedInv /\ TransferInv /\ NewUrlInv /\ InSync
  BY <1>1 DEF Init, WholeInv, CopyInv, ResumedInv, TransferInv, Transfers, NewUrlInv, InSync
<1> QED
  BY <1>1, <1>2, <1>3 DEF DataInv

LEMMA DataStep ==
  ASSUME Overlaps = {}, DataInv, [Next]_vars
  PROVE  DataInv'
<1>1. TypeInv' /\ WantedInv'
  BY TypeStep, WantedStep DEF DataInv, NoOverlap
<1>2. CASE MainStep
  <2>1. pc' = pc
    BY <1>2 DEF MainStep, threadVars
  <2> QED
    BY <1>1, <1>2, <2>1, DataMain DEF DataInv
<1>3. CASE WriteEmptyUrl \/ (\E u \in Urls : WriteUrl(u))
  BY <1>1, <1>3, DataWrite DEF DataInv
<1>4. CASE PackageDownloadHandler \/ Resume \/ Suspend \/ Crash \/ UNCHANGED vars
  BY <1>1, <1>4, DataOther DEF DataInv
<1>5. CASE Thread \/ TransferBreaks
  BY <1>1, <1>5, DataThread DEF DataInv
<1> QED
  BY <1>2, <1>3, <1>4, <1>5 DEF Next

\* In state "downloaded" the file holds one package from its first buffer to its last,
\* for every number of buffers, whatever was aborted, suspended, resumed and lost
\* before, when each thread is left alone with the workspace for the length of a step.
THEOREM WholeCorrect ==
  ASSUME Overlaps = {}
  PROVE  Spec => []DownloadedIsWhole
<1>1. DataInv /\ [Next]_vars => DataInv'
  BY DataStep
<1>2. DataInv => DownloadedIsWhole
  BY DEF DataInv, WholeInv, DownloadedIsWhole
<1> QED
  BY DataInit, <1>1, <1>2, PTL DEF Spec

LEMMA FirstOnes ==
  ASSUME NEW S, NEW t, NEW n \in Nat, \A i \in 1..n : t[i] \in S
  PROVE  /\ SubSeq(t, 1, n) \in Seq(S) /\ Len(SubSeq(t, 1, n)) = n
         /\ \A i \in 1..n : SubSeq(t, 1, n)[i] = t[i]
<1>1. 1 \in Int /\ n \in Int /\ n - 1 + 1 = n /\ (~(1 <= n) => n = 0)
  OBVIOUS
<1>2. /\ SubSeq(t, 1, n) \in Seq(S)
      /\ Len(SubSeq(t, 1, n)) = IF 1 <= n THEN n - 1 + 1 ELSE 0
      /\ \A i \in 1..(n - 1 + 1) : SubSeq(t, 1, n)[i] = t[1 + i - 1]
  BY <1>1, SubSeqProperties
<1>3. \A i \in 1..n : 1 + i - 1 = i
  OBVIOUS
<1> QED
  BY <1>1, <1>2, <1>3

\* What the file holds is where the rest of the package begins
LEMMA ResumeStep ==
  ASSUME DataInv, DataInv', Next, pc = "launch", pc' = "request"
  PROVE  file = SubSeq(Package(request'), 1, offset')
<1>1. UNCHANGED file
  BY DEF Next, Thread, WriteEmptyUrl, WriteUrl, MainStep, PackageDownloadHandler, Resume,
         StartThread, Suspend, Crash, threadVars, TransferBreaks, PkgDwlInit, GetPackageSize,
         PkgDwlDownload, StartDownload, CheckStatus, PkgDwlStore, RefreshCache, StoreWorkspace,
         CheckCrcAndSignature, PkgDwlEnd, DownloadEnded
<1>2. file \in Datas /\ Chunks \in Nat
  BY DownloadControlAssumption DEF DataInv, TypeInv
<1>3. offset' = Len(file) /\ Holds(file, request')
  BY <1>1 DEF DataInv, TransferInv, Transfers, Holds
<1> DEFINE p == Package(request')
           s == SubSeq(p, 1, offset')
<1>4. request' \in NoUrlOr /\ offset' \in Nat /\ offset' <= Chunks
      /\ \A i \in 1..offset' : file[i] = <<request', i>>
  BY <1>2, <1>3 DEF DataInv, TransferInv, Transfers, NoUrlOr, Datas, Holds
<1>5. \A i \in 1..offset' : p[i] = <<request', i>> /\ p[i] \in NoUrlOr \X Nat
  BY <1>2, <1>4 DEF Package
<1> HIDE DEF p
<1>6. /\ s \in Seq(NoUrlOr \X Nat) /\ Len(s) = offset'
      /\ \A i \in 1..offset' : s[i] = p[i]
  <2> DEFINE d == NoUrlOr \X Nat
             n == offset'
  <2>1. n \in Nat /\ \A i \in 1..n : p[i] \in d
    BY <1>4, <1>5
  <2> HIDE DEF d, n
  <2>2. /\ SubSeq(p, 1, n) \in Seq(d) /\ Len(SubSeq(p, 1, n)) = n
        /\ \A i \in 1..n : SubSeq(p, 1, n)[i] = p[i]
    BY <2>1, FirstOnes
  <2> QED
    BY <2>2 DEF d, n
<1> HIDE DEF s
<1>7. \A i \in 1..Len(s) : s[i] = file[i]
  BY <1>4, <1>5, <1>6
<1>8. s = file
  BY <1>2, <1>3, <1>6, <1>7, SeqEqual DEF Datas
<1> QED
  BY <1>8 DEF s, p

\* A download goes on from data of its own package: when the server is asked for a
\* package from an offset on, the file holds exactly what comes before.
THEOREM ResumesCorrect ==
  ASSUME Overlaps = {}
  PROVE  Spec => ResumesItsPackage
<1>1. DataInv /\ [Next]_vars => DataInv'
  BY DataStep
<1>2. DataInv /\ DataInv' /\ [Next]_vars
        => [pc = "launch" /\ pc' = "request"
              => file = SubSeq(Package(request'), 1, offset')]_vars
  BY ResumeStep
<1> QED
  BY DataInit, <1>1, <1>2, PTL DEF Spec, ResumesItsPackage
=============================================================================
