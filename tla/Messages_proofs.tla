-------------------------- MODULE Messages_proofs --------------------------
(***************************************************************************)
(* Proofs about Notices, Chat and ChatPage.                                *)
(***************************************************************************)
EXTENDS Notices, Chat, ChatPage, SetLemmas, SequenceTheorems

-----------------------------------------------------------------------------
(* Announcements and who is told of them.                                  *)

Telling(a) == RequestsAt("telling", a)
Saving(a) == RequestsAt("saving", a)

\* A notification that was never inserted tells of nothing.
UnusedNotices == \A n \in NoticeIds : notice[n] = "none" => about[n] = NoAnnouncement

\* What a request that is about to save knows of the row: it makes no
\* announcement live of which nobody was, is or will be told, and as long as
\* no copy is stale it is the only one, and tells if and only if it publishes.
Careful(p) ==
    LET v == announcing[p] IN
    v.at = "saving" =>
        /\ announcement[v.of] # "none"
        /\ v.copy = "live" /\ v.of \notin untold =>
              v.tells \/ Told(v.of) # {} \/ Telling(v.of) # {}
        /\ v.of \notin staleEdits =>
              /\ \A q \in Saving(v.of) : q = p
              /\ v.tells <=> v.copy = "live" /\ announcement[v.of] # "live"

CarefulCopies == \A p \in Announcers : Careful(p)

FewTell == \A a \in Announcements : IsFiniteSet(Telling(a))

\* The two parts of PublicationIsTold, for one announcement.
LiveIsTold(a) == announcement[a] = "live" => Told(a) # {} \/ Telling(a) # {}
ToldOnce(a) ==
    a \notin staleEdits =>
        Cardinality(Told(a)) + Cardinality(Telling(a)) = publications[a]

\* Whoever is at an announcement may publish it once more.
Afford ==
    \A a \in Announcements :
        /\ IsFiniteSet(Saving(a))
        /\ publications[a] + Cardinality(Saving(a)) <= announced

NoticesInv ==
    /\ NoticesTypeOK /\ UnusedNotices /\ CarefulCopies /\ FewTell /\ Afford
    /\ \A a \in Announcements \ untold : LiveIsTold(a) /\ ToldOnce(a)

LEMMA ToldFinite == \A a : IsFiniteSet(Told(a)) /\ Cardinality(Told(a)) \in Nat
<1> SUFFICES ASSUME NEW a PROVE IsFiniteSet(Told(a)) /\ Cardinality(Told(a)) \in Nat
  OBVIOUS
<1>1. IsFiniteSet(NoticeIds)
  BY NoticesAssumption, FS_Interval DEF NoticeIds
<1>2. Told(a) \in SUBSET NoticeIds
  BY DEF Told
<1> QED
  BY <1>1, <1>2, FS_Subset, FS_CardinalityType

LEMMA NoticesInit == InitNotices => NoticesInv
<1> SUFFICES ASSUME InitNotices PROVE NoticesInv
  OBVIOUS
<1> USE NoticesAssumption DEF InitNotices, NotAnnouncing
<1>1. NoticesTypeOK
  <2>1. /\ announcement \in [Announcements -> Written \cup {"none", "removed"}]
        /\ announced \in 0 .. MaxAnnouncing
        /\ publications \in [Announcements -> 0 .. MaxAnnouncing]
        /\ staleEdits \subseteq Announcements /\ untold \subseteq Announcements
        /\ asked \in [Announcements -> Nat]
    OBVIOUS
  <2>2. announcing \in [Announcers -> {NotAnnouncing} \cup
          [at : {"saving", "telling"}, of : Announcements, copy : Written,
           tells : BOOLEAN, asks : BOOLEAN]]
    OBVIOUS
  <2>3. /\ notice \in [NoticeIds -> {"none", "unread", "read", "removed"}]
        /\ about \in [NoticeIds -> Announcements \cup {NoAnnouncement}]
        /\ marking \in [Readers -> SUBSET NoticeIds]
    OBVIOUS
  <2> QED
    BY <2>1, <2>2, <2>3 DEF NoticesTypeOK
<1>2. UnusedNotices /\ CarefulCopies
  BY DEF UnusedNotices, CarefulCopies, Careful
<1>3. \A a \in Announcements : Told(a) = {} /\ Telling(a) = {} /\ Saving(a) = {}
  BY DEF Told, Telling, Saving, RequestsAt
<1>4. FewTell /\ Afford
  <2> SUFFICES ASSUME NEW a \in Announcements
               PROVE  /\ IsFiniteSet(Telling(a)) /\ IsFiniteSet(Saving(a))
                      /\ publications[a] + Cardinality(Saving(a)) <= announced
    BY DEF FewTell, Afford
  <2>1. Telling(a) = {} /\ Saving(a) = {}
    BY <1>3
  <2>2. IsFiniteSet(Telling(a)) /\ IsFiniteSet(Saving(a)) /\ Cardinality(Saving(a)) = 0
    BY <2>1, FS_EmptySet, Zenon
  <2>3. publications[a] = 0 /\ announced = 0
    OBVIOUS
  <2> QED
    BY <2>2, <2>3
<1>5. \A a \in Announcements : LiveIsTold(a) /\ ToldOnce(a)
  <2> SUFFICES ASSUME NEW a \in Announcements
               PROVE  /\ announcement[a] # "live"
                      /\ Cardinality(Told(a)) + Cardinality(Telling(a)) = publications[a]
    BY DEF LiveIsTold, ToldOnce
  <2>1. Cardinality({}) = 0 /\ Told(a) = {} /\ Telling(a) = {}
    BY <1>3, FS_EmptySet
  <2> QED
    BY <2>1
<1> QED
  BY <1>1, <1>2, <1>4, <1>5 DEF NoticesInv

LEMMA PublicationsAfforded ==
    ASSUME NoticesTypeOK, Afford, NEW a \in Announcements
    PROVE  /\ announced < MaxAnnouncing => publications[a] + 1 \in 0 .. MaxAnnouncing
           /\ Saving(a) # {} => publications[a] + 1 \in 0 .. MaxAnnouncing
<1>1. /\ publications[a] \in Nat /\ announced \in Nat /\ MaxAnnouncing \in Nat
      /\ announced <= MaxAnnouncing
      /\ Cardinality(Saving(a)) \in Nat
      /\ Saving(a) # {} => Cardinality(Saving(a)) # 0
      /\ publications[a] + Cardinality(Saving(a)) <= announced
  BY NoticesAssumption, FS_EmptySet, FS_CardinalityType DEF NoticesTypeOK, Afford
<1> QED
  BY <1>1

LEMMA NoticesTypeStep ==
    NoticesTypeOK /\ Afford /\ [NextNotices]_noticeVars => NoticesTypeOK'
<1> SUFFICES ASSUME NoticesTypeOK, Afford, [NextNotices]_noticeVars PROVE NoticesTypeOK'
  OBVIOUS
<1> USE NoticesAssumption DEF NoticesTypeOK, Written, NotAnnouncing, Announcing, boardVars,
        Begin, StaleEditsBy, announcementVars
<1>1. ASSUME NEW p \in Announcers, NEW a \in Announcements, NEW copy \in Written,
             CreateAnnouncement(p, a, copy)
      PROVE  NoticesTypeOK'
  <2>1. publications' \in [Announcements -> 0 .. MaxAnnouncing]
    BY <1>1, PublicationsAfforded DEF CreateAnnouncement, Publications
  <2>2. announcing' \in [Announcers -> {NotAnnouncing} \cup
          [at : {"saving", "telling"}, of : Announcements, copy : Written,
           tells : BOOLEAN, asks : BOOLEAN]]
    BY <1>1 DEF CreateAnnouncement
  <2>3. /\ announcement' \in [Announcements -> Written \cup {"none", "removed"}]
        /\ announced' \in 0 .. MaxAnnouncing
        /\ UNCHANGED <<boardVars, asked, staleEdits, untold>>
    BY <1>1 DEF CreateAnnouncement
  <2> QED
    BY <2>1, <2>2, <2>3
<1>2. ASSUME NEW p \in Announcers, NEW a \in Announcements, NEW copy \in Written,
             NEW tells \in BOOLEAN, NEW asks \in BOOLEAN, ReadAnnouncement(p, a, copy, tells, asks)
      PROVE  NoticesTypeOK'
  BY <1>2 DEF ReadAnnouncement
<1>3. ASSUME NEW p \in Announcers, SaveAnnouncement(p) PROVE NoticesTypeOK'
  <2>1. announcing[p].of \in Announcements /\ announcing[p].copy \in Written
    BY <1>3 DEF SaveAnnouncement
  <2>2. p \in Saving(announcing[p].of)
    BY <1>3 DEF SaveAnnouncement, Saving, RequestsAt
  <2>3. publications' \in [Announcements -> 0 .. MaxAnnouncing]
    BY <1>3, <2>1, <2>2, PublicationsAfforded DEF SaveAnnouncement, Publications
  <2>4. announcing' \in [Announcers -> {NotAnnouncing} \cup
          [at : {"saving", "telling"}, of : Announcements, copy : Written,
           tells : BOOLEAN, asks : BOOLEAN]]
    BY <1>3 DEF SaveAnnouncement
  <2> QED
    BY <1>3, <2>1, <2>3, <2>4 DEF SaveAnnouncement
<1>4. ASSUME NEW p \in Announcers, LoseAnnouncing(p) PROVE NoticesTypeOK'
  BY <1>4 DEF LoseAnnouncing
<1>5. ASSUME NEW p \in Announcers, NEW n \in NoticeIds, NotifyAudience(p, n) PROVE NoticesTypeOK'
  BY <1>5 DEF NotifyAudience, SendNotice
<1>6. ASSUME NEW a \in Announcements, RemoveAnnouncement(a) PROVE NoticesTypeOK'
  BY <1>6 DEF RemoveAnnouncement
<1>7. ASSUME NEW n \in NoticeIds, SendNotification(n) \/ RemoveNotification(n)
      PROVE  NoticesTypeOK'
  BY <1>7 DEF SendNotification, SendNotice, RemoveNotification
<1>8. ASSUME NEW r \in Readers, NEW seen \in SUBSET NoticeIds, MarkNoticesRead(r, seen)
      PROVE  NoticesTypeOK'
  BY <1>8 DEF MarkNoticesRead
<1>9. ASSUME NEW r \in Readers, SaveMarks(r) PROVE NoticesTypeOK'
  BY <1>9 DEF SaveMarks
<1>10. CASE UNCHANGED noticeVars
  BY <1>10 DEF noticeVars
<1>11. ASSUME NEW p \in Announcers, NEW a \in Announcements, NEW publish \in BOOLEAN,
              NEW changes \in BOOLEAN, UpdateAnnouncement(p, a, publish, changes)
       PROVE  NoticesTypeOK'
  <2> DEFINE copy == IF publish THEN "live" ELSE announcement[a]
             tells == publish /\ announcement[a] = "draft"
             asks == publish /\ changes /\ announcement[a] = "live"
  <2>1. ReadAnnouncement(p, a, copy, tells, asks)
    BY <1>11 DEF UpdateAnnouncement
  <2>2. copy \in Written /\ tells \in BOOLEAN /\ asks \in BOOLEAN
    BY <1>11 DEF UpdateAnnouncement, ReadAnnouncement
  <2> HIDE DEF copy, tells, asks, NoticesTypeOK
  <2> QED
    BY <1>2, <2>1, <2>2
<1>12. ASSUME NEW p \in Announcers, NEW a \in Announcements,
              PublishAnnouncement(p, a) \/ UnpublishAnnouncement(p, a)
       PROVE  NoticesTypeOK'
  BY <1>2, <1>12 DEF PublishAnnouncement, UnpublishAnnouncement
<1> HIDE DEF NoticesTypeOK
<1> QED
  BY <1>1, <1>3, <1>4, <1>5, <1>6, <1>7, <1>8, <1>9, <1>10, <1>11, <1>12 DEF NextNotices

\* What one request does to the requests at an announcement.
OnlyMoves(p) == \A q \in Announcers : q # p => announcing'[q] = announcing[q]
GoesTo(p, stage, b) == announcing'[p].at = stage /\ announcing'[p].of = b

LEMMA OneRequest ==
    ASSUME NEW p \in Announcers, OnlyMoves(p), NEW b, NEW stage
    PROVE  /\ GoesTo(p, stage, b) => RequestsAt(stage, b)' = RequestsAt(stage, b) \cup {p}
           /\ ~GoesTo(p, stage, b) => RequestsAt(stage, b)' = RequestsAt(stage, b) \ {p}
           /\ p \in RequestsAt(stage, b) <=> announcing[p].at = stage /\ announcing[p].of = b
BY DEF RequestsAt, OnlyMoves, GoesTo

LEMMA CreateAnnouncementStep ==
    ASSUME NoticesInv, NEW p \in Announcers, NEW a \in Announcements, NEW copy \in Written,
           CreateAnnouncement(p, a, copy), NoticesTypeOK'
    PROVE  NoticesInv'
<1>0. /\ announcement \in [Announcements -> Written \cup {"none", "removed"}]
      /\ announcing \in [Announcers -> {NotAnnouncing} \cup
          [at : {"saving", "telling"}, of : Announcements, copy : Written,
           tells : BOOLEAN, asks : BOOLEAN]]
      /\ publications \in [Announcements -> Nat] /\ announced \in Nat
  BY NoticesAssumption DEF NoticesInv, NoticesTypeOK
<1>1. /\ OnlyMoves(p)
      /\ announcing[p].at = "idle"
      /\ announcing'[p].at = (IF copy = "live" THEN "telling" ELSE "idle")
      /\ copy = "live" => announcing'[p].of = a
  <2>1. announcing[p].at = "idle" /\ announcing[p] = NotAnnouncing
    BY DEF CreateAnnouncement, Begin, NotAnnouncing
  <2>2. announcing' = [announcing EXCEPT
          ![p] = IF copy = "live" THEN Announcing("telling", a, copy, TRUE, FALSE) ELSE @]
    BY DEF CreateAnnouncement
  <2>3. CASE copy = "live"
    BY <1>0, <2>1, <2>2, <2>3 DEF Announcing, OnlyMoves
  <2>4. CASE copy # "live"
    BY <1>0, <2>1, <2>2, <2>4 DEF OnlyMoves
  <2> QED
    BY <2>3, <2>4
<1>2. \A b \in Announcements :
        /\ Saving(b)' = Saving(b) /\ Told(b)' = Told(b) /\ p \notin Telling(b)
        /\ b # a \/ copy # "live" => Telling(b)' = Telling(b)
        /\ b = a /\ copy = "live" => Telling(b)' = Telling(b) \cup {p}
  <2> SUFFICES ASSUME NEW b \in Announcements
               PROVE  /\ Saving(b)' = Saving(b) /\ Told(b)' = Told(b) /\ p \notin Telling(b)
                      /\ b # a \/ copy # "live" => Telling(b)' = Telling(b)
                      /\ b = a /\ copy = "live" => Telling(b)' = Telling(b) \cup {p}
    OBVIOUS
  <2>1. Told(b)' = Told(b)
    BY DEF Told, CreateAnnouncement, boardVars
  <2>2. Saving(b)' = Saving(b)
    <3>1. ~GoesTo(p, "saving", b) /\ p \notin RequestsAt("saving", b)
      BY <1>1, OneRequest DEF GoesTo
    <3> QED
      BY <1>1, <3>1, OneRequest DEF Saving
  <2>3. p \notin Telling(b)
    BY <1>1, OneRequest DEF Telling
  <2> QED
    BY <1>1, <2>1, <2>2, <2>3, OneRequest DEF Telling, GoesTo
<1>3. /\ announced' = announced + 1 /\ announcement[a] = "none" /\ untold' = untold
      /\ staleEdits' = staleEdits /\ announcement'[a] = copy
      /\ \A b \in Announcements : b # a => announcement'[b] = announcement[b]
  BY <1>0 DEF CreateAnnouncement, Begin
<1>4. /\ \A b \in Announcements : b # a \/ copy # "live" => publications'[b] = publications[b]
      /\ copy = "live" => publications'[a] = publications[a] + 1
  BY <1>0, <1>3 DEF CreateAnnouncement, Publications
<1>5. UnusedNotices'
  BY DEF NoticesInv, UnusedNotices, CreateAnnouncement, boardVars
<1>6. CarefulCopies'
  <2> SUFFICES ASSUME NEW q \in Announcers, announcing'[q].at = "saving" PROVE Careful(q)'
    BY DEF CarefulCopies, Careful
  <2>1. /\ announcing'[q] = announcing[q] /\ announcing[q].of \in Announcements /\ Careful(q)
        /\ announcing[q].of # a
    BY <1>0, <1>1, <1>3, SMTT(30) DEF NoticesInv, CarefulCopies, Careful, NotAnnouncing, OnlyMoves
  <2> QED
    BY <2>1, <1>2, <1>3 DEF Careful
<1>7. FewTell'
  BY <1>2, OneMore DEF NoticesInv, FewTell
<1>8. Afford'
  <2> SUFFICES ASSUME NEW b \in Announcements
               PROVE  (IsFiniteSet(Saving(b)) /\ publications[b] + Cardinality(Saving(b)) <= announced)'
    BY DEF Afford
  <2>1. /\ Saving(b)' = Saving(b) /\ IsFiniteSet(Saving(b)) /\ Cardinality(Saving(b)) \in Nat
        /\ publications[b] + Cardinality(Saving(b)) <= announced
        /\ publications[b] \in Nat /\ publications'[b] <= publications[b] + 1
        /\ publications'[b] \in Nat
    BY <1>0, <1>2, <1>4, FS_CardinalityType DEF NoticesInv, Afford
  <2> QED
    BY <2>1, <1>0, <1>3
<1>9. \A b \in Announcements \ untold' : (LiveIsTold(b) /\ ToldOnce(b))'
  <2> SUFFICES ASSUME NEW b \in Announcements, b \notin untold
               PROVE  LiveIsTold(b)' /\ ToldOnce(b)'
    BY <1>3
  <2>1. LiveIsTold(b) /\ ToldOnce(b) /\ IsFiniteSet(Telling(b))
    BY DEF NoticesInv, FewTell
  <2>2. CASE b = a /\ copy = "live"
    <3>1. Cardinality(Telling(b))' = Cardinality(Telling(b)) + 1 /\ Telling(b)' # {}
      BY <2>1, <2>2, <1>2, OneMore
    <3>2. Cardinality(Told(b)) \in Nat /\ Cardinality(Telling(b)) \in Nat
      BY <2>1, ToldFinite, FS_CardinalityType
    <3> QED
      BY <3>1, <3>2, <2>1, <2>2, <1>2, <1>3, <1>4, <1>0 DEF LiveIsTold, ToldOnce
  <2>3. CASE ~(b = a /\ copy = "live")
    BY <2>1, <2>3, <1>2, <1>3, <1>4 DEF LiveIsTold, ToldOnce, Written
  <2> QED
    BY <2>2, <2>3
<1> QED
  BY <1>5, <1>6, <1>7, <1>8, <1>9 DEF NoticesInv

LEMMA ReadAnnouncementStep ==
    ASSUME NoticesInv, NEW p \in Announcers, NEW a \in Announcements, NEW copy \in Written,
           NEW tells \in BOOLEAN, NEW asks \in BOOLEAN,
           ReadAnnouncement(p, a, copy, tells, asks), NoticesTypeOK',
           tells <=> copy = "live" /\ announcement[a] # "live"
    PROVE  NoticesInv'
<1>0. /\ announcing \in [Announcers -> {NotAnnouncing} \cup
          [at : {"saving", "telling"}, of : Announcements, copy : Written,
           tells : BOOLEAN, asks : BOOLEAN]]
      /\ publications \in [Announcements -> Nat] /\ announced \in Nat
  BY NoticesAssumption DEF NoticesInv, NoticesTypeOK
<1>1. /\ OnlyMoves(p) /\ announcing[p].at = "idle"
      /\ announcing'[p] = Announcing("saving", a, copy, tells, asks)
  BY <1>0 DEF ReadAnnouncement, Begin, NotAnnouncing, OnlyMoves
<1>2. \A b \in Announcements :
        /\ Told(b)' = Told(b) /\ Telling(b)' = Telling(b) /\ p \notin Saving(b)
        /\ b # a => Saving(b)' = Saving(b)
        /\ b = a => Saving(b)' = Saving(b) \cup {p}
  <2> SUFFICES ASSUME NEW b \in Announcements
               PROVE  /\ Told(b)' = Told(b) /\ Telling(b)' = Telling(b) /\ p \notin Saving(b)
                      /\ b # a => Saving(b)' = Saving(b)
                      /\ b = a => Saving(b)' = Saving(b) \cup {p}
    OBVIOUS
  <2>1. Told(b)' = Told(b)
    BY DEF Told, ReadAnnouncement, boardVars
  <2>4. announcing'[p].at = "saving" /\ announcing'[p].of = a
    BY <1>1 DEF Announcing
  <2>2. ~GoesTo(p, "telling", b) /\ p \notin Telling(b) /\ p \notin Saving(b)
    BY <1>1, <2>4, OneRequest DEF GoesTo, Telling, Saving
  <2>3. GoesTo(p, "saving", b) <=> b = a
    BY <2>4 DEF GoesTo
  <2>5. Telling(b)' = Telling(b)
    BY <1>1, <2>2, OneRequest DEF Telling
  <2>6. ASSUME b # a PROVE Saving(b)' = Saving(b)
    <3>1. ~GoesTo(p, "saving", b)
      BY <2>3, <2>6
    <3>2. RequestsAt("saving", b)' = RequestsAt("saving", b) \ {p}
      BY <1>1, <3>1, OneRequest
    <3> QED
      BY <2>2, <3>2 DEF Saving
  <2>7. ASSUME b = a PROVE Saving(b)' = Saving(b) \cup {p}
    <3>1. GoesTo(p, "saving", b)
      BY <2>3, <2>7
    <3> QED
      BY <1>1, <3>1, OneRequest DEF Saving
  <2> QED
    BY <2>1, <2>2, <2>5, <2>6, <2>7
<1>3. /\ announced' = announced + 1 /\ announcement' = announcement /\ untold' = untold
      /\ publications' = publications /\ announcement[a] \in Written
      /\ staleEdits' = StaleEditsBy(a)
  BY DEF ReadAnnouncement, Begin
<1>4. staleEdits \subseteq staleEdits' /\ (a \notin staleEdits' => Saving(a) = {})
  BY <1>3 DEF StaleEditsBy, Saving
<1>5. UnusedNotices'
  BY DEF NoticesInv, UnusedNotices, ReadAnnouncement, boardVars
<1>6. CarefulCopies'
  <2> SUFFICES ASSUME NEW q \in Announcers, announcing'[q].at = "saving" PROVE Careful(q)'
    BY DEF CarefulCopies, Careful
  <2>1. CASE q = p
    <3>1. /\ announcing'[p].of = a /\ announcing'[p].copy = copy /\ announcing'[p].tells = tells
      BY <1>1 DEF Announcing
    <3>2. a \notin staleEdits' => Saving(a)' = {p}
      BY <1>2, <1>4
    <3>3. a \notin untold /\ announcement[a] = "live" => Told(a) # {} \/ Telling(a) # {}
      BY DEF NoticesInv, LiveIsTold
    <3> QED
      BY <2>1, <3>1, <3>2, <3>3, <1>2, <1>3 DEF Careful, Written
  <2>2. CASE q # p
    <3>1. /\ announcing'[q] = announcing[q] /\ announcing[q].of \in Announcements /\ Careful(q)
      BY <2>2, <1>0, <1>1 DEF NoticesInv, CarefulCopies, NotAnnouncing, OnlyMoves
    <3>2. q \in Saving(announcing[q].of)
      BY <3>1 DEF Saving, RequestsAt
    <3>3. CASE announcing[q].of = a
      BY <3>1, <3>2, <3>3, <1>2, <1>3, <1>4 DEF Careful
    <3>4. CASE announcing[q].of # a
      BY <3>1, <3>4, <1>2, <1>3, <1>4 DEF Careful
    <3> QED
      BY <3>3, <3>4
  <2> QED
    BY <2>1, <2>2
<1>7. FewTell'
  BY <1>2 DEF NoticesInv, FewTell
<1>8. Afford'
  <2> SUFFICES ASSUME NEW b \in Announcements
               PROVE  (IsFiniteSet(Saving(b)) /\ publications[b] + Cardinality(Saving(b)) <= announced)'
    BY DEF Afford
  <2>1. /\ IsFiniteSet(Saving(b)) /\ Cardinality(Saving(b)) \in Nat
        /\ publications[b] + Cardinality(Saving(b)) <= announced /\ publications[b] \in Nat
    BY <1>0, FS_CardinalityType DEF NoticesInv, Afford
  <2>2. IsFiniteSet(Saving(b))' /\ Cardinality(Saving(b))' <= Cardinality(Saving(b)) + 1
    BY <1>2, <2>1, OneMore
  <2>3. Cardinality(Saving(b))' \in Nat
    BY <2>2, FS_CardinalityType
  <2> QED
    BY <2>1, <2>2, <2>3, <1>0, <1>3
<1>9. \A b \in Announcements \ untold' : (LiveIsTold(b) /\ ToldOnce(b))'
  BY <1>2, <1>3, <1>4 DEF NoticesInv, LiveIsTold, ToldOnce
<1> QED
  BY <1>5, <1>6, <1>7, <1>8, <1>9 DEF NoticesInv

LEMMA SaveAnnouncementStep ==
    ASSUME NoticesInv, NEW p \in Announcers, SaveAnnouncement(p), NoticesTypeOK'
    PROVE  NoticesInv'
<1> DEFINE v == announcing[p]
           a == v.of
<1>0. /\ announcement \in [Announcements -> Written \cup {"none", "removed"}]
      /\ announcing \in [Announcers -> {NotAnnouncing} \cup
          [at : {"saving", "telling"}, of : Announcements, copy : Written,
           tells : BOOLEAN, asks : BOOLEAN]]
      /\ publications \in [Announcements -> Nat] /\ announced \in Nat
  BY NoticesAssumption DEF NoticesInv, NoticesTypeOK
<1>1. /\ v.at = "saving" /\ a \in Announcements /\ v.copy \in Written /\ v.tells \in BOOLEAN
      /\ Careful(p)
  BY <1>0 DEF SaveAnnouncement, NotAnnouncing, NoticesInv, CarefulCopies
<1>2. /\ OnlyMoves(p)
      /\ v.tells => announcing'[p].at = "telling" /\ announcing'[p].of = a
      /\ ~v.tells => announcing'[p].at = "idle"
  BY <1>0, <1>1 DEF SaveAnnouncement, NotAnnouncing, OnlyMoves
<1> HIDE DEF v
<1>3. \A b \in Announcements :
        /\ Told(b)' = Told(b) /\ p \notin Telling(b)
        /\ b # a => Saving(b)' = Saving(b)
        /\ b = a => p \in Saving(b) /\ Saving(b)' = Saving(b) \ {p}
        /\ b = a /\ v.tells => Telling(b)' = Telling(b) \cup {p}
        /\ ~(b = a /\ v.tells) => Telling(b)' = Telling(b)
  <2> SUFFICES ASSUME NEW b \in Announcements
               PROVE  /\ Told(b)' = Told(b) /\ p \notin Telling(b)
                      /\ b # a => Saving(b)' = Saving(b)
                      /\ b = a => p \in Saving(b) /\ Saving(b)' = Saving(b) \ {p}
                      /\ b = a /\ v.tells => Telling(b)' = Telling(b) \cup {p}
                      /\ ~(b = a /\ v.tells) => Telling(b)' = Telling(b)
    OBVIOUS
  <2>1. Told(b)' = Told(b)
    BY DEF Told, SaveAnnouncement, boardVars
  <2>2. ~GoesTo(p, "saving", b) /\ p \notin Telling(b) /\ (p \in Saving(b) <=> b = a)
    BY <1>1, <1>2, OneRequest DEF GoesTo, Telling, Saving, v
  <2>3. GoesTo(p, "telling", b) <=> b = a /\ v.tells
    BY <1>1, <1>2 DEF GoesTo
  <2> QED
    BY <1>2, <2>1, <2>2, <2>3, OneRequest DEF Telling, Saving
<1>4. /\ announced' = announced /\ untold' = untold /\ staleEdits' = staleEdits
      /\ announcement'[a] = v.copy
      /\ \A b \in Announcements : b # a => announcement'[b] = announcement[b]
  BY <1>0, <1>1 DEF SaveAnnouncement, v
<1>5. /\ \A b \in Announcements : b # a => publications'[b] = publications[b]
      /\ v.copy = "live" /\ announcement[a] # "live" => publications'[a] = publications[a] + 1
      /\ ~(v.copy = "live" /\ announcement[a] # "live") => publications'[a] = publications[a]
  BY <1>0, <1>1 DEF SaveAnnouncement, Publications, v
<1>6. UnusedNotices'
  BY DEF NoticesInv, UnusedNotices, SaveAnnouncement, boardVars
<1>7. CarefulCopies'
  <2> SUFFICES ASSUME NEW q \in Announcers, announcing'[q].at = "saving" PROVE Careful(q)'
    BY DEF CarefulCopies, Careful
  <2>1. /\ q # p /\ announcing'[q] = announcing[q] /\ announcing[q].of \in Announcements
        /\ Careful(q)
    BY <1>0, <1>2 DEF NoticesInv, CarefulCopies, NotAnnouncing, OnlyMoves
  <2>2. q \in Saving(announcing[q].of)
    BY <2>1 DEF Saving, RequestsAt
  <2>3. CASE announcing[q].of = a
    <3>1. a \in staleEdits
      BY <1>1, <2>1, <2>2, <2>3 DEF Careful, v
    <3> QED
      BY <3>1, <2>1, <2>3, <1>1, <1>3, <1>4 DEF Careful, Written
  <2>4. CASE announcing[q].of # a
    BY <2>1, <2>4, <1>3, <1>4 DEF Careful
  <2> QED
    BY <2>3, <2>4
<1>8. FewTell'
  BY <1>3, OneMore DEF NoticesInv, FewTell
<1>9. Afford'
  <2> SUFFICES ASSUME NEW b \in Announcements
               PROVE  (IsFiniteSet(Saving(b)) /\ publications[b] + Cardinality(Saving(b)) <= announced)'
    BY DEF Afford
  <2>1. /\ IsFiniteSet(Saving(b)) /\ Cardinality(Saving(b)) \in Nat
        /\ publications[b] + Cardinality(Saving(b)) <= announced /\ publications[b] \in Nat
    BY <1>0, FS_CardinalityType DEF NoticesInv, Afford
  <2>2. CASE b = a
    <3>1. IsFiniteSet(Saving(b))' /\ Cardinality(Saving(b)) = Cardinality(Saving(b))' + 1
      BY <1>3, <2>1, <2>2, OneLess
    <3>2. publications'[b] \in Nat /\ publications'[b] <= publications[b] + 1
      BY <1>0, <1>5, <2>2
    <3>3. Cardinality(Saving(b))' \in Nat
      BY <3>1, FS_CardinalityType
    <3> QED
      BY <2>1, <3>1, <3>2, <3>3, <1>0, <1>4
  <2>3. CASE b # a
    BY <1>3, <1>4, <1>5, <2>1, <2>3
  <2> QED
    BY <2>2, <2>3
<1>10. \A b \in Announcements \ untold' : (LiveIsTold(b) /\ ToldOnce(b))'
  <2> SUFFICES ASSUME NEW b \in Announcements, b \notin untold
               PROVE  LiveIsTold(b)' /\ ToldOnce(b)'
    BY <1>4
  <2>1. LiveIsTold(b) /\ ToldOnce(b) /\ IsFiniteSet(Telling(b))
    BY DEF NoticesInv, FewTell
  <2>2. CASE b # a
    BY <2>1, <2>2, <1>3, <1>4, <1>5 DEF LiveIsTold, ToldOnce
  <2>3. CASE b = a /\ v.tells
    <3>1. Cardinality(Telling(b))' = Cardinality(Telling(b)) + 1 /\ Telling(b)' # {}
      BY <2>1, <2>3, <1>3, OneMore
    <3>2. Cardinality(Told(b)) \in Nat /\ Cardinality(Telling(b)) \in Nat
      BY <2>1, ToldFinite, FS_CardinalityType
    <3>3. b \notin staleEdits => publications'[b] = publications[b] + 1
      BY <2>3, <1>1, <1>5 DEF Careful, v
    <3> QED
      BY <3>1, <3>2, <3>3, <2>1, <2>3, <1>3, <1>4, <1>0 DEF LiveIsTold, ToldOnce
  <2>4. CASE b = a /\ ~v.tells
    <3>1. b \notin staleEdits => publications'[b] = publications[b]
      BY <2>4, <1>1, <1>5 DEF Careful, v
    <3>2. v.copy = "live" => Told(b) # {} \/ Telling(b) # {}
      BY <2>4, <1>1 DEF Careful, v
    <3> QED
      BY <3>1, <3>2, <2>1, <2>4, <1>3, <1>4 DEF LiveIsTold, ToldOnce
  <2> QED
    BY <2>2, <2>3, <2>4
<1> QED
  BY <1>6, <1>7, <1>8, <1>9, <1>10 DEF NoticesInv

\* The end of a request, whether it told its audience or was lost.
LEMMA EndAnnouncingStep ==
    ASSUME NoticesInv, NEW p \in Announcers, NoticesTypeOK',
           LoseAnnouncing(p) \/ \E n \in NoticeIds : NotifyAudience(p, n)
    PROVE  NoticesInv'
<1> DEFINE v == announcing[p]
           a == v.of
           tells == v.at = "telling"
<1>0. /\ announcing \in [Announcers -> {NotAnnouncing} \cup
          [at : {"saving", "telling"}, of : Announcements, copy : Written,
           tells : BOOLEAN, asks : BOOLEAN]]
      /\ about \in [NoticeIds -> Announcements \cup {NoAnnouncement}]
      /\ publications \in [Announcements -> Nat] /\ announced \in Nat
  BY NoticesAssumption DEF NoticesInv, NoticesTypeOK
<1>1. v.at \in {"saving", "telling"} /\ a \in Announcements
  BY <1>0 DEF LoseAnnouncing, NotifyAudience, NotAnnouncing
<1>2. /\ OnlyMoves(p)
      /\ announcing'[p] = NotAnnouncing
  BY <1>0 DEF LoseAnnouncing, NotifyAudience, NotAnnouncing, OnlyMoves
<1>3. /\ announcement' = announcement /\ announced' = announced /\ staleEdits' = staleEdits
      /\ publications' = publications /\ untold \subseteq untold'
  BY DEF LoseAnnouncing, NotifyAudience
<1>4. \A b \in Announcements : Saving(b)' = Saving(b) \ {p} /\ Telling(b)' = Telling(b) \ {p}
  BY <1>2, OneRequest DEF Saving, Telling, GoesTo, NotAnnouncing
<1>5. \A b \in Announcements : p \in Telling(b) <=> tells /\ b = a
  BY <1>2, OneRequest DEF Telling
<1>6. ASSUME NEW n \in NoticeIds, NotifyAudience(p, n)
      PROVE  /\ tells
             /\ \A b \in Announcements :
                   /\ b = a => n \notin Told(b) /\ Told(b)' = Told(b) \cup {n}
                   /\ b # a => Told(b)' = Told(b)
             /\ UnusedNotices'
  <2>1. /\ notice[n] = "none" /\ about[n] = NoAnnouncement /\ about' = [about EXCEPT ![n] = a]
        /\ notice' = [notice EXCEPT ![n] = "unread"] /\ tells
    BY <1>6 DEF NotifyAudience, SendNotice, NoticesInv, UnusedNotices
  <2>2. \A b \in Announcements : n \notin Told(b)
    BY <2>1, <1>1, NoticesAssumption DEF Told
  <2>3. /\ about'[n] = a
        /\ \A m \in NoticeIds : m # n => about'[m] = about[m]
    BY <2>1, <1>0
  <2>5. ASSUME NEW b \in Announcements
        PROVE  /\ b = a => Told(b)' = Told(b) \cup {n}
               /\ b # a => Told(b)' = Told(b)
    BY <2>1, <2>3, NoticesAssumption DEF Told
  <2>4. UnusedNotices'
    BY <2>1, <1>0 DEF NoticesInv, NoticesTypeOK, UnusedNotices
  <2> QED
    BY <2>1, <2>2, <2>4, <2>5
<1>7. ASSUME LoseAnnouncing(p)
      PROVE  /\ \A b \in Announcements : Told(b)' = Told(b)
             /\ UnusedNotices' /\ (tells => a \in untold')
  BY <1>7 DEF LoseAnnouncing, boardVars, Told, NoticesInv, UnusedNotices
<1> HIDE DEF v, tells
<1>8. UnusedNotices' /\ \A b \in Announcements : Told(b) \subseteq Told(b)'
  BY <1>1, <1>6, <1>7
<1>9. \A b \in Announcements \ untold' :
        /\ Telling(b) # {} => Told(b)' # {} \/ Telling(b)' # {}
        /\ Told(b) # {} => Told(b)' # {}
  <2> SUFFICES ASSUME NEW b \in Announcements, b \notin untold'
               PROVE  /\ Telling(b) # {} => Told(b)' # {} \/ Telling(b)' # {}
                      /\ Told(b) # {} => Told(b)' # {}
    OBVIOUS
  <2>1. CASE LoseAnnouncing(p)
    BY <2>1, <1>4, <1>5, <1>7
  <2>2. CASE \E n \in NoticeIds : NotifyAudience(p, n)
    BY <2>2, <1>4, <1>5, <1>6, <1>8
  <2> QED
    BY <2>1, <2>2
<1>10. CarefulCopies'
  <2> SUFFICES ASSUME NEW q \in Announcers, announcing'[q].at = "saving" PROVE Careful(q)'
    BY DEF CarefulCopies, Careful
  <2>1. /\ q # p /\ announcing'[q] = announcing[q] /\ announcing[q].of \in Announcements
        /\ Careful(q)
    BY <1>0, <1>2 DEF NoticesInv, CarefulCopies, NotAnnouncing, OnlyMoves
  <2> QED
    BY <2>1, <1>3, <1>4, <1>9 DEF Careful
<1>11. FewTell' /\ Afford'
  <2> SUFFICES ASSUME NEW b \in Announcements
               PROVE  /\ IsFiniteSet(Telling(b))' /\ IsFiniteSet(Saving(b))'
                      /\ (publications[b] + Cardinality(Saving(b)) <= announced)'
    BY DEF FewTell, Afford
  <2>1. /\ IsFiniteSet(Telling(b)) /\ IsFiniteSet(Saving(b)) /\ Cardinality(Saving(b)) \in Nat
        /\ publications[b] + Cardinality(Saving(b)) <= announced /\ publications[b] \in Nat
    BY <1>0, FS_CardinalityType DEF NoticesInv, Afford, FewTell
  <2>2. /\ IsFiniteSet(Saving(b))' /\ IsFiniteSet(Telling(b))'
        /\ Cardinality(Saving(b))' <= Cardinality(Saving(b))
    BY <2>1, <1>4, FS_RemoveElement
  <2>3. Cardinality(Saving(b))' \in Nat
    BY <2>2, FS_CardinalityType
  <2> QED
    BY <2>1, <2>2, <2>3, <1>0, <1>3
<1>12. \A b \in Announcements \ untold' : (LiveIsTold(b) /\ ToldOnce(b))'
  <2> SUFFICES ASSUME NEW b \in Announcements, b \notin untold'
               PROVE  LiveIsTold(b)' /\ ToldOnce(b)'
    OBVIOUS
  <2>1. LiveIsTold(b) /\ ToldOnce(b) /\ IsFiniteSet(Telling(b)) /\ IsFiniteSet(Told(b))
    BY <1>3, ToldFinite DEF NoticesInv, FewTell
  <2>2. LiveIsTold(b)'
    BY <2>1, <1>3, <1>9 DEF LiveIsTold
  <2>3. Cardinality(Told(b))' + Cardinality(Telling(b))'
          = Cardinality(Told(b)) + Cardinality(Telling(b))
    <3>1. CASE ~(tells /\ b = a)
      <4>1. Telling(b)' = Telling(b)
        BY <3>1, <1>4, <1>5
      <4>2. Told(b)' = Told(b)
        BY <3>1, <1>6, <1>7
      <4> QED
        BY <4>1, <4>2
    <3>2. CASE tells /\ b = a
      <4>1. PICK n \in NoticeIds : n \notin Told(b) /\ Told(b)' = Told(b) \cup {n}
        BY <3>2, <1>6, <1>7
      <4>2. Cardinality(Told(b))' = Cardinality(Told(b)) + 1
        BY <2>1, <4>1, OneMore
      <4>3. Cardinality(Telling(b)) = Cardinality(Telling(b))' + 1 /\ IsFiniteSet(Telling(b))'
        BY <2>1, <3>2, <1>4, <1>5, OneLess
      <4>4. Cardinality(Told(b)) \in Nat /\ Cardinality(Telling(b))' \in Nat
        BY <2>1, <4>3, FS_CardinalityType
      <4> QED
        BY <4>2, <4>3, <4>4
    <3> QED
      BY <3>1, <3>2
  <2> QED
    BY <2>1, <2>2, <2>3, <1>3 DEF ToldOnce
<1> QED
  BY <1>8, <1>10, <1>11, <1>12 DEF NoticesInv

LEMMA RemoveAnnouncementStep ==
    ASSUME NoticesInv, NEW a \in Announcements, RemoveAnnouncement(a), NoticesTypeOK'
    PROVE  NoticesInv'
<1>0. /\ announcement \in [Announcements -> Written \cup {"none", "removed"}]
      /\ announcing \in [Announcers -> {NotAnnouncing} \cup
          [at : {"saving", "telling"}, of : Announcements, copy : Written,
           tells : BOOLEAN, asks : BOOLEAN]]
  BY DEF NoticesInv, NoticesTypeOK
<1>1. /\ announcement' = [announcement EXCEPT ![a] = "removed"] /\ announcing' = announcing
      /\ announced' = announced /\ UNCHANGED boardVars /\ publications' = publications
      /\ untold' = untold /\ staleEdits' = StaleEditsBy(a)
  BY DEF RemoveAnnouncement
<1>2. \A b : Told(b)' = Told(b) /\ Telling(b)' = Telling(b) /\ Saving(b)' = Saving(b)
  BY <1>1 DEF Told, Telling, Saving, RequestsAt, boardVars
<1>3. staleEdits \subseteq staleEdits' /\ (a \notin staleEdits' => Saving(a) = {})
  BY <1>1 DEF StaleEditsBy, Saving
<1>4. UnusedNotices' /\ FewTell' /\ Afford'
  BY <1>1, <1>2 DEF NoticesInv, UnusedNotices, FewTell, Afford, boardVars
<1>5. CarefulCopies'
  <2> SUFFICES ASSUME NEW q \in Announcers, announcing[q].at = "saving" PROVE Careful(q)'
    BY <1>1 DEF CarefulCopies, Careful
  <2>1. Careful(q) /\ announcing[q].of \in Announcements /\ q \in Saving(announcing[q].of)
    BY <1>0 DEF NoticesInv, CarefulCopies, NotAnnouncing, Saving, RequestsAt
  <2>2. announcing[q].of # a => announcement'[announcing[q].of] = announcement[announcing[q].of]
    BY <1>0, <1>1, <2>1
  <2>3. announcement'[a] = "removed"
    BY <1>0, <1>1
  <2> QED
    BY <2>1, <2>2, <2>3, <1>1, <1>2, <1>3 DEF Careful
<1>6. \A b \in Announcements \ untold' : (LiveIsTold(b) /\ ToldOnce(b))'
  BY <1>0, <1>1, <1>2, <1>3 DEF NoticesInv, LiveIsTold, ToldOnce
<1> QED
  BY <1>4, <1>5, <1>6 DEF NoticesInv

\* Whatever else happens to notifications is of no concern to announcements.
LEMMA BoardStep ==
    ASSUME NoticesInv, NoticesTypeOK', UNCHANGED announcementVars,
           UnusedNotices', \A b \in Announcements : Told(b)' = Told(b)
    PROVE  NoticesInv'
<1>1. /\ announcement' = announcement /\ announcing' = announcing /\ announced' = announced
      /\ publications' = publications /\ untold' = untold /\ staleEdits' = staleEdits
  BY DEF announcementVars
<1>2. \A b : Telling(b)' = Telling(b) /\ Saving(b)' = Saving(b)
  BY <1>1 DEF Telling, Saving, RequestsAt
<1>3. FewTell' /\ Afford'
  BY <1>1, <1>2 DEF NoticesInv, FewTell, Afford
<1>4. CarefulCopies'
  <2> SUFFICES ASSUME NEW q \in Announcers, announcing[q].at = "saving" PROVE Careful(q)'
    BY <1>1 DEF CarefulCopies, Careful
  <2>1. Careful(q) /\ announcing[q].of \in Announcements
    BY DEF NoticesInv, NoticesTypeOK, CarefulCopies, NotAnnouncing
  <2> QED
    BY <2>1, <1>1, <1>2 DEF Careful
<1>5. \A b \in Announcements \ untold' : (LiveIsTold(b) /\ ToldOnce(b))'
  BY <1>1, <1>2 DEF NoticesInv, LiveIsTold, ToldOnce
<1> QED
  BY <1>3, <1>4, <1>5 DEF NoticesInv

LEMMA NoticesStep == NoticesInv /\ [NextNotices]_noticeVars => NoticesInv'
<1> SUFFICES ASSUME NoticesInv, [NextNotices]_noticeVars PROVE NoticesInv'
  OBVIOUS
<1>0. NoticesTypeOK'
  BY NoticesTypeStep DEF NoticesInv
<1>1. ASSUME NEW p \in Announcers, NEW a \in Announcements, NEW copy \in Written,
             CreateAnnouncement(p, a, copy)
      PROVE  NoticesInv'
  BY <1>0, <1>1, CreateAnnouncementStep
<1>2. ASSUME NEW p \in Announcers, NEW a \in Announcements, NEW publish \in BOOLEAN,
             NEW changes \in BOOLEAN, UpdateAnnouncement(p, a, publish, changes)
      PROVE  NoticesInv'
  <2> DEFINE copy == IF publish THEN "live" ELSE announcement[a]
             tells == publish /\ announcement[a] = "draft"
             asks == publish /\ changes /\ announcement[a] = "live"
  <2>1. ReadAnnouncement(p, a, copy, tells, asks) /\ announcement[a] \in Written
    BY <1>2 DEF UpdateAnnouncement, ReadAnnouncement
  <2>2. /\ copy \in Written /\ tells \in BOOLEAN /\ asks \in BOOLEAN
        /\ tells <=> copy = "live" /\ announcement[a] # "live"
    BY <2>1 DEF Written
  <2> HIDE DEF copy, tells, asks
  <2> QED
    BY <1>0, <2>1, <2>2, ReadAnnouncementStep
<1>3. ASSUME NEW p \in Announcers, NEW a \in Announcements, PublishAnnouncement(p, a)
      PROVE  NoticesInv'
  BY <1>0, <1>3, ReadAnnouncementStep DEF PublishAnnouncement, Written
<1>4. ASSUME NEW p \in Announcers, NEW a \in Announcements, UnpublishAnnouncement(p, a)
      PROVE  NoticesInv'
  BY <1>0, <1>4, ReadAnnouncementStep DEF UnpublishAnnouncement, Written
<1>5. ASSUME NEW p \in Announcers, SaveAnnouncement(p) PROVE NoticesInv'
  BY <1>0, <1>5, SaveAnnouncementStep
<1>6. ASSUME NEW p \in Announcers, LoseAnnouncing(p) \/ \E n \in NoticeIds : NotifyAudience(p, n)
      PROVE  NoticesInv'
  BY <1>0, <1>6, EndAnnouncingStep
<1>7. ASSUME NEW a \in Announcements, RemoveAnnouncement(a) PROVE NoticesInv'
  BY <1>0, <1>7, RemoveAnnouncementStep
<1>8. ASSUME NEW n \in NoticeIds, SendNotification(n) PROVE NoticesInv'
  <2>1. /\ about[n] = NoAnnouncement /\ about' = [about EXCEPT ![n] = NoAnnouncement]
        /\ notice' = [notice EXCEPT ![n] = "unread"]
        /\ about \in [NoticeIds -> Announcements \cup {NoAnnouncement}]
        /\ notice \in [NoticeIds -> {"none", "unread", "read", "removed"}]
    BY <1>8 DEF SendNotification, SendNotice, NoticesInv, UnusedNotices, NoticesTypeOK
  <2>2. about' = about
    BY <2>1
  <2>3. UnusedNotices' /\ \A b \in Announcements : Told(b)' = Told(b)
    BY <2>1, <2>2 DEF UnusedNotices, NoticesInv, Told
  <2> QED
    BY <1>0, <1>8, <2>3, BoardStep DEF SendNotification
<1>9. ASSUME NEW n \in NoticeIds, RemoveNotification(n) PROVE NoticesInv'
  <2>1. UnusedNotices' /\ \A b \in Announcements : Told(b)' = Told(b)
    BY <1>9 DEF RemoveNotification, UnusedNotices, NoticesInv, NoticesTypeOK, Told
  <2> QED
    BY <1>0, <1>9, <2>1, BoardStep DEF RemoveNotification
<1>10. ASSUME NEW r \in Readers, NEW seen \in SUBSET NoticeIds, MarkNoticesRead(r, seen)
       PROVE  NoticesInv'
  <2>1. UnusedNotices' /\ \A b \in Announcements : Told(b)' = Told(b)
    BY <1>10 DEF MarkNoticesRead, UnusedNotices, NoticesInv, Told
  <2> QED
    BY <1>0, <1>10, <2>1, BoardStep DEF MarkNoticesRead, announcementVars
<1>11. ASSUME NEW r \in Readers, SaveMarks(r) PROVE NoticesInv'
  <2>1. UnusedNotices' /\ \A b \in Announcements : Told(b)' = Told(b)
    BY <1>11 DEF SaveMarks, UnusedNotices, NoticesInv, Told
  <2> QED
    BY <1>0, <1>11, <2>1, BoardStep DEF SaveMarks, announcementVars
<1>12. CASE UNCHANGED noticeVars
  <2>1. UnusedNotices' /\ \A b \in Announcements : Told(b)' = Told(b)
    BY <1>12 DEF noticeVars, UnusedNotices, NoticesInv, Told
  <2> QED
    BY <1>0, <1>12, <2>1, BoardStep DEF noticeVars, announcementVars
<1> QED
  BY <1>1, <1>2, <1>3, <1>4, <1>5, <1>6, <1>7, <1>8, <1>9, <1>10, <1>11, <1>12 DEF NextNotices

LEMMA NoticesInvariant == SpecNotices => []NoticesInv
BY NoticesInit, NoticesStep, PTL DEF SpecNotices

\* The rows of announcements and notifications, and the requests at work on
\* them, have the values they may have; no announcement is published more
\* often than there were requests about one.
THEOREM NoticesTypeCorrect == SpecNotices => []NoticesTypeOK
BY NoticesInvariant, PTL DEF NoticesInv

\* Whatever requests overlap, are lost or are answered in whichever order: an
\* announcement that is live was told of, is being told of, or its
\* notification was lost; and unless a stale copy was saved, its audience is
\* told once per publication, or once more per edit that asks for it.
THEOREM AudienceToldOnce == SpecNotices => []PublicationIsTold
<1>1. NoticesInv => PublicationIsTold
  <2>1. ASSUME NoticesInv, NEW a \in Announcements
        PROVE  publications[a] \in publications[a] .. publications[a] + asked[a]
    BY <2>1, NoticesAssumption DEF NoticesInv, NoticesTypeOK
  <2> QED
    BY <2>1 DEF NoticesInv, PublicationIsTold, Tellings, LiveIsTold, ToldOnce, Telling
<1> QED
  BY <1>1, NoticesInvariant, PTL

-----------------------------------------------------------------------------
(* The conversation.                                                       *)

\* A message whose transaction is open has a row of its own.
InsertsAlone ==
    \A r \in Calls : call[r].at = "inserting" =>
        /\ call[r].msg \in (1 .. dated) \ committed
        /\ row[call[r].msg].text = "original" /\ ~row[call[r].msg].deleted
        /\ \A q \in Calls : call[q].at = "inserting" /\ call[q].msg = call[r].msg => q = r

\* The other handlers are about messages that are there.
CallsAreAbout ==
    \A r \in Calls : call[r].at \in {"read", "saved", "latest"} => call[r].msg \in committed

\* A copy that no save made stale is the row but for what the call is about.
Fresh(r) ==
    LET old == row[call[r].msg]
        new == call[r].copy IN
    /\ old.deleted => new.deleted
    /\ call[r].op # "react" => new.reactions = old.reactions
    /\ call[r].op = "react" => new.text = old.text /\ new.deleted = old.deleted
    /\ \A x \in old.reactions \ new.reactions : x[1] = call[r].who

FreshCopies == \A r \in Calls \ outdated : call[r].at = "read" => Fresh(r)

\* The preview is of the latest message, and is its text unless a handler is
\* about to refresh it; a handler that is has the row as it is.
Refreshers == At({"saved", "latest"})
PreviewFollows ==
    ~previewLost =>
        /\ committed # {} => preview.msg = Latest
        /\ \A r \in Refreshers : call[r].copy = row[call[r].msg]
        /\ \A r \in At({"latest"}) : call[r].msg = Latest
        /\ committed # {} /\ (\A r \in Refreshers : call[r].msg # Latest)
              => preview.text = PreviewText(row[Latest])

\* What is or will be marked read is earlier than what was not shown.
MarksInOrder ==
    \A a \in Members : \A m \in committed \ (shown[a] \cup skipped[a] \cup datedEarly) :
        \A k \in toMarkRead[a] \cup {lastRead[a]} : k < m

\* A list under way holds consecutive messages, but for those that were
\* committed after a later one.
Consecutive(list) ==
    \A k \in committed \ (list \cup datedEarly) :
        (\A m \in list : k < m) \/ (\A m \in list : m < k)
ListsInOrder == \A a \in Members : \A list \in listed[a] : list # {} /\ Consecutive(list)

ChatInv ==
    /\ ChatTypeOK /\ InsertsAlone /\ CallsAreAbout /\ FreshCopies
    /\ PreviewFollows /\ MarksInOrder /\ ListsInOrder

CallRows ==
    [at : {"inserting", "notifying", "read", "saved", "latest"},
     op : {"send", "edit", "delete", "react"}, who : Members,
     msg : Messages, copy : MessageRows]

LEMMA MaxMessage ==
    ASSUME NEW S, S \subseteq 1 .. MaxMessages, NEW l, l = Max(S \cup {NoMessage})
    PROVE  /\ l \in S \cup {0} /\ l \in Nat
           /\ \A m \in S : m <= l /\ m \in Nat /\ m # 0
           /\ S # {} => l \in S
<1>1. /\ S \cup {0} \subseteq Nat /\ MaxMessages \in Nat
      /\ \A x \in S \cup {0} : x <= MaxMessages
      /\ \A m \in S : m > 0
  BY ChatAssumption
<1>2. Max(S \cup {0}) \in S \cup {0} /\ \A m \in S \cup {0} : m <= Max(S \cup {0})
  BY <1>1, MaxOfBounded
<1>3. l \in S \cup {0} /\ \A m \in S \cup {0} : m <= l
  BY <1>2 DEF NoMessage
<1>4. S # {} => l # 0
  <2> SUFFICES ASSUME NEW m \in S, l = 0 PROVE FALSE
    OBVIOUS
  <2>1. m \in Nat /\ m > 0
    BY <1>1
  <2>2. m <= 0
    BY <1>3
  <2> QED
    BY <2>1, <2>2
<1> QED
  BY <1>1, <1>3, <1>4

LEMMA LatestIs ==
    ASSUME ChatTypeOK
    PROVE  /\ Latest \in committed \cup {0} /\ Latest \in Nat
           /\ \A m \in committed : m <= Latest /\ m \in Nat /\ m # 0
           /\ committed # {} => Latest \in committed
<1>1. committed \subseteq 1 .. MaxMessages
  BY ChatAssumption DEF ChatTypeOK
<1> QED
  BY <1>1, MaxMessage DEF Latest

\* A message that is later than all others becomes the latest.
LEMMA LatestAfter ==
    ASSUME ChatTypeOK, NEW m \in Messages, committed' = committed \cup {m}, Latest <= m
    PROVE  Latest' = m
<1>1. committed \cup {m} \subseteq 1 .. MaxMessages /\ m \in Nat
  <2>1. committed \subseteq 1 .. MaxMessages
    BY ChatAssumption DEF ChatTypeOK
  <2> QED
    BY <2>1, ChatAssumption DEF Messages
<1>2. Latest' = Max((committed \cup {m}) \cup {NoMessage})
  BY DEF Latest
<1>3. /\ Latest' \in committed \cup {m} /\ m <= Latest' /\ Latest' \in Nat
  BY <1>1, <1>2, MaxMessage
<1>4. \A k \in committed : k <= Latest /\ k \in Nat /\ Latest \in Nat
  BY LatestIs
<1> QED
  BY <1>1, <1>3, <1>4

LEMMA BlankRow == Blank \in MessageRows
BY ChatAssumption DEF Blank, MessageRows

LEMMA ChatInit == InitChat => ChatInv
<1> SUFFICES ASSUME InitChat PROVE ChatInv
  OBVIOUS
<1>1. ChatTypeOK
  <2>1. /\ dated = 0 /\ committed = {} /\ calls = 0 /\ preview.msg = 0
        /\ datedEarly = {} /\ outdated = {} /\ previewLost = FALSE
        /\ preview \in [msg : Messages \cup {NoMessage}, text : {"original", "edited", "deleted"}]
    BY DEF InitChat, NoMessage
  <2>2. /\ lastRead \in [Members -> {NoMessage}]
        /\ heard \in [Members -> {{}}] /\ listed \in [Members -> {{}}]
        /\ toMarkRead \in [Members -> {{}}]
        /\ shown \in [Members -> {{}}]
        /\ skipped \in [Members -> {{}}]
    BY DEF InitChat
  <2>3. row \in [Messages -> MessageRows]
    BY BlankRow DEF InitChat
  <2>4. call \in [Calls -> {NoCall} \cup CallRows]
    BY DEF InitChat
  <2>5. /\ dated \in 0 .. MaxMessages /\ committed \subseteq 1 .. dated
        /\ calls \in 0 .. MaxCalls
        /\ preview.msg \in committed \cup {NoMessage}
    BY <2>1, ChatAssumption DEF NoMessage
  <2>6. /\ lastRead \in [Members -> committed \cup {NoMessage}]
        /\ heard \in [Members -> SUBSET committed]
        /\ listed \in [Members -> SUBSET SUBSET committed]
        /\ toMarkRead \in [Members -> SUBSET committed]
        /\ shown \in [Members -> SUBSET committed]
        /\ skipped \in [Members -> SUBSET committed]
    BY <2>1, <2>2
  <2> QED
    BY <2>1, <2>3, <2>4, <2>5, <2>6 DEF ChatTypeOK, CallRows
<1> USE DEF InitChat, NoCall, NoMessage
<1>2. InsertsAlone /\ CallsAreAbout /\ FreshCopies /\ MarksInOrder /\ ListsInOrder
  BY DEF InsertsAlone, CallsAreAbout, FreshCopies, MarksInOrder, ListsInOrder
<1>3. PreviewFollows
  BY DEF PreviewFollows, Refreshers, At
<1> QED
  BY <1>1, <1>2, <1>3 DEF ChatInv

\* A step that leaves the messages that are there as they are, and the
\* handlers at work on them.
RowsStay == committed' = committed /\ \A m \in committed : row'[m] = row[m]
Works(r, stages) == call[r].at \in stages
HandlersStay(stages) ==
    \A q \in Calls : Works(q, stages) \/ Works(q, stages)' => call'[q] = call[q]

LEMMA PreviewStays ==
    ASSUME ChatInv, RowsStay, HandlersStay({"saved", "latest"}),
           previewLost' = previewLost, preview' = preview
    PROVE  PreviewFollows'
<1> SUFFICES ASSUME ~previewLost PROVE PreviewFollows'
  BY DEF PreviewFollows
<1>1. Latest' = Latest /\ (committed # {} => Latest \in committed)
  BY LatestIs DEF Latest, RowsStay, ChatInv
<1>2. /\ Refreshers' = Refreshers /\ At({"latest"})' = At({"latest"})
      /\ \A r \in Refreshers : call'[r] = call[r] /\ call[r].msg \in committed
      /\ At({"latest"}) \subseteq Refreshers
  BY DEF Refreshers, At, HandlersStay, Works, ChatInv, CallsAreAbout
<1>3. /\ committed # {} => preview.msg = Latest
      /\ \A r \in Refreshers : call[r].copy = row[call[r].msg]
      /\ \A r \in At({"latest"}) : call[r].msg = Latest
      /\ committed # {} /\ (\A r \in Refreshers : call[r].msg # Latest)
            => preview.text = PreviewText(row[Latest])
  BY DEF ChatInv, PreviewFollows
<1>4. /\ \A r \in Refreshers : call'[r].copy = row'[call'[r].msg]
      /\ \A r \in At({"latest"}) : call'[r].msg = Latest
  BY <1>2, <1>3 DEF RowsStay
<1>5. committed # {} /\ (\A r \in Refreshers : call'[r].msg # Latest)
            => preview.text = PreviewText(row'[Latest])
  BY <1>1, <1>2, <1>3 DEF RowsStay
<1> QED
  BY <1>1, <1>2, <1>3, <1>4, <1>5 DEF PreviewFollows, RowsStay, PreviewText

LEMMA CopiesStayFresh ==
    ASSUME ChatInv, RowsStay, HandlersStay({"read"}), outdated \subseteq outdated'
    PROVE  FreshCopies'
<1> SUFFICES ASSUME NEW r \in Calls, r \notin outdated', call'[r].at = "read" PROVE Fresh(r)'
  BY DEF FreshCopies
<1>1. call'[r] = call[r] /\ call[r].at = "read"
  BY DEF HandlersStay, Works
<1>2. Fresh(r) /\ row'[call[r].msg] = row[call[r].msg]
  BY <1>1 DEF ChatInv, FreshCopies, CallsAreAbout, RowsStay
<1> QED
  BY <1>1, <1>2 DEF Fresh

LEMMA MarksStay ==
    ASSUME ChatInv, committed' = committed, UNCHANGED readVars, datedEarly' = datedEarly
    PROVE  MarksInOrder' /\ ListsInOrder'
BY DEF ChatInv, MarksInOrder, ListsInOrder, Consecutive, readVars

LEMMA BeginSendStep ==
    ASSUME ChatInv, NEW r \in Calls, NEW a \in Members, BeginSend(r, a)
    PROVE  ChatInv'
<1> DEFINE n == dated + 1
           b == [Blank EXCEPT !.sender = a]
<1>0. /\ call \in [Calls -> {NoCall} \cup CallRows] /\ row \in [Messages -> MessageRows]
      /\ dated \in 0 .. MaxMessages /\ committed \subseteq 1 .. dated
  BY DEF ChatInv, ChatTypeOK, CallRows
<1>1. n \in Messages /\ n \notin committed /\ dated' = n
  BY <1>0, ChatAssumption DEF BeginSend, Messages
<1>2. b \in MessageRows /\ b.text = "original" /\ ~b.deleted
  BY BlankRow DEF Blank, MessageRows
<1> HIDE DEF b
<1>3. row' = [row EXCEPT ![n] = b] /\ row'[n] = b
  BY <1>0, <1>1 DEF BeginSend, b
<1>4. /\ call[r] = NoCall /\ \A q \in Calls : q # r => call'[q] = call[q]
      /\ call'[r] = Handling("inserting", "send", a, n, b)
      /\ call' = [call EXCEPT ![r] = Handling("inserting", "send", a, n, b)]
  BY <1>0, <1>1, <1>3 DEF BeginSend
<1>5. /\ committed' = committed /\ preview' = preview /\ UNCHANGED readVars /\ calls' = calls
      /\ datedEarly' = datedEarly /\ outdated' = outdated /\ previewLost' = previewLost
  BY DEF BeginSend, chatHistory
<1> HIDE DEF n
<1>6. /\ call'[r].at = "inserting" /\ call'[r].msg = n /\ call[r].at = "idle"
  BY <1>4 DEF Handling, NoCall
<1>7. /\ RowsStay /\ HandlersStay({"saved", "latest"}) /\ HandlersStay({"read"})
  BY <1>0, <1>1, <1>3, <1>4, <1>5, <1>6 DEF RowsStay, HandlersStay, Works
<1>8. ChatTypeOK'
  <2>1. Handling("inserting", "send", a, n, b) \in CallRows
    BY <1>1, <1>2 DEF Handling, CallRows
  <2>2. call' \in [Calls -> {NoCall} \cup CallRows]
    BY <1>0, <1>4, <2>1
  <2>3. row' \in [Messages -> MessageRows]
    BY <1>0, <1>1, <1>2, <1>3
  <2>4. dated' \in 0 .. MaxMessages /\ committed' \subseteq 1 .. dated'
    BY <1>0, <1>1, <1>5, ChatAssumption DEF Messages, n
  <2> QED
    BY <2>2, <2>3, <2>4, <1>5 DEF ChatInv, ChatTypeOK, CallRows, readVars
<1>9. InsertsAlone'
  <2> SUFFICES ASSUME NEW q \in Calls, call'[q].at = "inserting"
               PROVE  /\ call'[q].msg \in (1 .. dated') \ committed'
                      /\ row'[call'[q].msg].text = "original" /\ ~row'[call'[q].msg].deleted
                      /\ \A p \in Calls : call'[p].at = "inserting" /\ call'[p].msg = call'[q].msg
                            => p = q
    BY DEF InsertsAlone
  <2>1. \A p \in Calls : p # r /\ call[p].at = "inserting" => call[p].msg \in 1 .. dated
    BY DEF ChatInv, InsertsAlone
  <2>2. \A p \in Calls : p # r /\ call[p].at = "inserting" => call[p].msg # n
    BY <2>1, <1>0 DEF n
  <2>3. CASE q = r
    BY <2>2, <2>3, <1>0, <1>1, <1>2, <1>3, <1>4, <1>5, <1>6 DEF Messages, n
  <2>4. CASE q # r
    <3>1. /\ call'[q] = call[q] /\ call[q].msg \in (1 .. dated) \ committed
          /\ row[call[q].msg].text = "original" /\ ~row[call[q].msg].deleted
          /\ \A p \in Calls : call[p].at = "inserting" /\ call[p].msg = call[q].msg => p = q
      BY <2>4, <1>4 DEF ChatInv, InsertsAlone
    <3>2. row'[call[q].msg] = row[call[q].msg]
      BY <3>1, <2>2, <2>4, <1>0, <1>3, <1>4
    <3>3. call[q].msg \in 1 .. dated'
      BY <3>1, <1>0, <1>1 DEF n
    <3>4. \A p \in Calls : call'[p].at = "inserting" /\ call'[p].msg = call[q].msg => p = q
      BY <3>1, <2>2, <2>4, <1>4, <1>6
    <3> QED
      BY <3>1, <3>2, <3>3, <3>4, <1>5
  <2> QED
    BY <2>3, <2>4
<1>10. CallsAreAbout'
  BY <1>4, <1>5, <1>6 DEF ChatInv, CallsAreAbout
<1> QED
  BY <1>5, <1>7, <1>8, <1>9, <1>10, PreviewStays, CopiesStayFresh, MarksStay DEF ChatInv

LEMMA CommitSendStep ==
    ASSUME ChatInv, NEW r \in Calls, CommitSend(r)
    PROVE  ChatInv'
<1> DEFINE m == call[r].msg
<1>0. /\ call \in [Calls -> {NoCall} \cup CallRows]
      /\ dated \in 0 .. MaxMessages /\ committed \subseteq 1 .. dated
  BY DEF ChatInv, ChatTypeOK, CallRows
<1>1. /\ call[r].at = "inserting" /\ m \in (1 .. dated) \ committed
      /\ row[m].text = "original" /\ ~row[m].deleted
      /\ call[r] \in CallRows /\ m \in Messages
  BY <1>0 DEF CommitSend, ChatInv, InsertsAlone, CallRows, NoCall
<1>2. /\ call' = [call EXCEPT ![r].at = "notifying"]
      /\ \A q \in Calls : q # r => call'[q] = call[q]
      /\ call'[r].at = "notifying"
  BY <1>0, <1>1 DEF CommitSend, CallRows
<1>3. /\ committed' = committed \cup {m} /\ preview' = [msg |-> m, text |-> "original"]
      /\ datedEarly' = (IF Latest > m THEN datedEarly \cup {m} ELSE datedEarly)
      /\ previewLost' = (previewLost \/ Latest > m \/ At({"latest"}) # {})
      /\ dated' = dated /\ row' = row /\ UNCHANGED readVars /\ calls' = calls
      /\ outdated' = outdated
  BY DEF CommitSend
<1> HIDE DEF m
<1>4. /\ Latest \in Nat /\ m \in Nat /\ \A k \in committed : k <= Latest /\ k \in Nat /\ k # m
      /\ ~(Latest > m) => Latest' = m
  <2>1. Latest \in Nat /\ m \in Nat /\ ChatTypeOK
    BY <1>0, <1>1, LatestIs DEF ChatInv
  <2> QED
    BY <2>1, <1>1, <1>3, LatestIs, LatestAfter
<1>5. ChatTypeOK'
  <2>1. call' \in [Calls -> {NoCall} \cup CallRows]
    BY <1>0, <1>1, <1>2 DEF CallRows
  <2>2. committed' \subseteq 1 .. dated' /\ committed \subseteq committed'
    BY <1>0, <1>1, <1>3
  <2>3. /\ preview' \in [msg : Messages \cup {NoMessage}, text : {"original", "edited", "deleted"}]
        /\ preview'.msg \in committed' \cup {NoMessage}
    BY <1>1, <1>3
  <2>4. /\ lastRead' \in [Members -> committed' \cup {NoMessage}]
        /\ heard' \in [Members -> SUBSET committed']
        /\ listed' \in [Members -> SUBSET SUBSET committed']
        /\ toMarkRead' \in [Members -> SUBSET committed']
        /\ shown' \in [Members -> SUBSET committed']
        /\ skipped' \in [Members -> SUBSET committed']
    BY <2>2, <1>3 DEF ChatInv, ChatTypeOK, readVars
  <2>5. datedEarly' \subseteq committed' /\ previewLost' \in BOOLEAN
    BY <1>3 DEF ChatInv, ChatTypeOK
  <2> QED
    BY <2>1, <2>2, <2>3, <2>4, <2>5, <1>3 DEF ChatInv, ChatTypeOK, CallRows
<1>6. InsertsAlone'
  BY <1>1, <1>2, <1>3 DEF ChatInv, InsertsAlone, m
<1>7. CallsAreAbout'
  BY <1>2, <1>3 DEF ChatInv, CallsAreAbout
<1>8. FreshCopies'
  BY <1>2, <1>3 DEF ChatInv, FreshCopies, Fresh
<1>9. PreviewFollows'
  <2> SUFFICES ASSUME ~previewLost, ~(Latest > m), At({"latest"}) = {} PROVE PreviewFollows'
    BY <1>3 DEF PreviewFollows
  <2>1. Latest' = m /\ preview'.msg = m /\ preview'.text = "original"
    BY <1>3, <1>4
  <2>2. At({"latest"})' = {} /\ \A q \in Calls : call'[q].at \in {"saved", "latest"} =>
            call'[q] = call[q] /\ q \in Refreshers
    BY <1>2 DEF At, Refreshers
  <2>3. \A q \in Refreshers' : call'[q] = call[q] /\ q \in Refreshers
    BY <2>2 DEF At, Refreshers
  <2>4. \A q \in Refreshers' : call'[q].copy = row'[call'[q].msg]
    BY <2>3, <1>3 DEF ChatInv, PreviewFollows
  <2>5. PreviewText(row'[m]) = "original"
    BY <1>1, <1>3 DEF PreviewText, m
  <2> QED
    BY <2>1, <2>2, <2>4, <2>5 DEF PreviewFollows, PreviewText
<1>10. MarksInOrder'
  <2> SUFFICES ASSUME NEW a \in Members, NEW n \in committed',
                      n \notin shown[a] \cup skipped[a] \cup datedEarly',
                      NEW k \in toMarkRead[a] \cup {lastRead[a]}
               PROVE  k < n
    BY <1>3 DEF MarksInOrder, readVars
  <2>1. n \notin datedEarly
    BY <1>3
  <2>2. CASE n = m
    <3>1. ~(Latest > m) /\ k \in committed \cup {0}
      BY <2>2, <1>3 DEF ChatInv, ChatTypeOK, NoMessage
    <3> QED
      BY <3>1, <2>2, <1>1, <1>4, <1>0
  <2>3. CASE n # m
    BY <2>1, <2>3, <1>3 DEF ChatInv, MarksInOrder
  <2> QED
    BY <2>2, <2>3
<1>11. ListsInOrder'
  <2> SUFFICES ASSUME NEW a \in Members, NEW list \in listed[a],
                      NEW k \in committed' \ (list \cup datedEarly')
               PROVE  list # {} /\ ((\A n \in list : k < n) \/ (\A n \in list : n < k))
    <3>1. \A a \in Members : \A list \in listed[a] : list # {}
      BY DEF ChatInv, ListsInOrder
    <3> QED
      BY <3>1, <1>3 DEF ListsInOrder, Consecutive, readVars
  <2>1. list # {} /\ list \subseteq committed /\ Consecutive(list) /\ k \notin datedEarly
    BY <1>3 DEF ChatInv, ListsInOrder, ChatTypeOK
  <2>2. CASE k = m
    <3>1. ~(Latest > m)
      BY <2>2, <1>3
    <3> QED
      BY <3>1, <2>1, <2>2, <1>4
  <2>3. CASE k # m
    BY <2>1, <2>3, <1>3 DEF Consecutive
  <2> QED
    BY <2>1, <2>2, <2>3
<1> QED
  BY <1>5, <1>6, <1>7, <1>8, <1>9, <1>10, <1>11 DEF ChatInv

LEMMA NotifyPeersStep ==
    ASSUME ChatInv, NEW r \in Calls, NotifyPeers(r)
    PROVE  ChatInv'
<1>0. call \in [Calls -> {NoCall} \cup CallRows]
  BY DEF ChatInv, ChatTypeOK, CallRows
<1>1. /\ call' = [call EXCEPT ![r] = NoCall] /\ outdated' = outdated \ {r}
      /\ call[r].at = "notifying" /\ call'[r].at = "idle"
      /\ \A q \in Calls : q # r => call'[q] = call[q]
      /\ UNCHANGED <<rowsVars, readVars, calls, datedEarly, previewLost>>
  BY <1>0 DEF NotifyPeers, EndCall, NoCall
<1>2. ChatTypeOK'
  BY <1>0, <1>1 DEF ChatInv, ChatTypeOK, CallRows, rowsVars, readVars
<1>3. InsertsAlone' /\ CallsAreAbout'
  BY <1>1 DEF ChatInv, InsertsAlone, CallsAreAbout, rowsVars
<1>4. RowsStay /\ HandlersStay({"saved", "latest"})
  BY <1>1 DEF RowsStay, HandlersStay, Works, rowsVars
<1>5. FreshCopies'
  BY <1>1 DEF ChatInv, FreshCopies, Fresh, rowsVars
<1> QED
  BY <1>1, <1>2, <1>3, <1>4, <1>5, PreviewStays, MarksStay DEF ChatInv, rowsVars

LEMMA ReadMessageStep ==
    ASSUME ChatInv, NEW r \in Calls, NEW a \in Members, NEW m, NEW copy \in MessageRows,
           NEW op \in {"edit", "delete", "react"}, ReadMessage(r, op, a, m, copy),
           row[m].deleted => copy.deleted,
           op # "react" => copy.reactions = row[m].reactions,
           op = "react" => copy.text = row[m].text /\ copy.deleted = row[m].deleted,
           \A x \in row[m].reactions \ copy.reactions : x[1] = a
    PROVE  ChatInv'
<1>0. /\ call \in [Calls -> {NoCall} \cup CallRows] /\ calls \in 0 .. MaxCalls
      /\ committed \subseteq Messages
  BY ChatAssumption DEF ChatInv, ChatTypeOK, CallRows, Messages
<1>1. /\ call[r].at = "idle" /\ call' = [call EXCEPT ![r] = Handling("read", op, a, m, copy)]
      /\ call'[r] = Handling("read", op, a, m, copy)
      /\ \A q \in Calls : q # r => call'[q] = call[q]
      /\ UNCHANGED <<rowsVars, readVars, chatHistory>>
      /\ calls < MaxCalls /\ calls' = calls + 1 /\ m \in committed
  BY <1>0 DEF ReadMessage, NoCall
<1>2. /\ call'[r].at = "read" /\ call'[r].op = op /\ call'[r].who = a /\ call'[r].msg = m
      /\ call'[r].copy = copy /\ call'[r] \in CallRows
  BY <1>0, <1>1 DEF Handling, CallRows
<1>3. ChatTypeOK'
  <2>1. call' \in [Calls -> {NoCall} \cup CallRows] /\ calls' \in 0 .. MaxCalls
    BY <1>0, <1>1, <1>2, ChatAssumption
  <2> QED
    BY <2>1, <1>1 DEF ChatInv, ChatTypeOK, CallRows, rowsVars, readVars, chatHistory
<1>4. InsertsAlone' /\ CallsAreAbout'
  BY <1>1, <1>2 DEF ChatInv, InsertsAlone, CallsAreAbout, rowsVars
<1>5. RowsStay /\ HandlersStay({"saved", "latest"})
  BY <1>1, <1>2 DEF RowsStay, HandlersStay, Works, rowsVars
<1>6. FreshCopies'
  <2> SUFFICES ASSUME NEW q \in Calls \ outdated, call'[q].at = "read" PROVE Fresh(q)'
    BY <1>1 DEF FreshCopies, chatHistory
  <2>1. CASE q = r
    BY <2>1, <1>1, <1>2 DEF Fresh, rowsVars
  <2>2. CASE q # r
    BY <2>2, <1>1 DEF Fresh, ChatInv, FreshCopies, rowsVars
  <2> QED
    BY <2>1, <2>2
<1> QED
  BY <1>1, <1>3, <1>4, <1>5, <1>6, PreviewStays, MarksStay DEF ChatInv, rowsVars, chatHistory

LEMMA EditMessageStep ==
    ASSUME ChatInv, NEW r \in Calls, NEW m \in Messages, EditMessage(r, m) \/ DeleteMessage(r, m)
    PROVE  ChatInv'
<1>1. row[m] \in MessageRows
  BY DEF ChatInv, ChatTypeOK
<1>2. CASE EditMessage(r, m)
  <2> DEFINE copy == [row[m] EXCEPT !.text = "edited"]
  <2>1. copy \in MessageRows /\ copy.deleted = row[m].deleted /\ copy.reactions = row[m].reactions
        /\ row[m].sender \in Members
    BY <1>1 DEF MessageRows
  <2>2. ReadMessage(r, "edit", row[m].sender, m, copy)
    BY <1>2 DEF EditMessage
  <2> HIDE DEF copy
  <2> QED
    BY <2>1, <2>2, ReadMessageStep
<1>3. CASE DeleteMessage(r, m)
  <2> DEFINE copy == [row[m] EXCEPT !.deleted = TRUE]
  <2>1. copy \in MessageRows /\ copy.deleted /\ copy.reactions = row[m].reactions
        /\ row[m].sender \in Members
    BY <1>1 DEF MessageRows
  <2>2. ReadMessage(r, "delete", row[m].sender, m, copy)
    BY <1>3 DEF DeleteMessage
  <2> HIDE DEF copy
  <2> QED
    BY <2>1, <2>2, ReadMessageStep
<1> QED
  BY <1>2, <1>3

LEMMA ReactToMessageStep ==
    ASSUME ChatInv, NEW r \in Calls, NEW a \in Members, NEW m \in Messages, NEW e \in Emojis,
           ReactToMessage(r, a, m, e)
    PROVE  ChatInv'
<1> DEFINE old == row[m].reactions
           new == Toggled(old, a, e)
           copy == [row[m] EXCEPT !.reactions = new]
<1>1. row[m] \in MessageRows /\ old \subseteq Members \X Emojis
  BY DEF ChatInv, ChatTypeOK, MessageRows
<1>2. new \subseteq Members \X Emojis /\ \A x \in old \ new : x[1] = a
  BY <1>1 DEF Toggled
<1>3. ReadMessage(r, "react", a, m, copy)
  BY DEF ReactToMessage
<1> HIDE DEF new
<1>4. /\ copy \in MessageRows /\ copy.deleted = row[m].deleted /\ copy.text = row[m].text
      /\ copy.reactions = new
  BY <1>1, <1>2 DEF MessageRows
<1> HIDE DEF copy
<1> QED
  BY <1>2, <1>3, <1>4, ReadMessageStep

LEMMA SaveMessageStep ==
    ASSUME ChatInv, NEW r \in Calls, SaveMessage(r)
    PROVE  ChatInv'
<1> DEFINE m == call[r].msg
           copy == call[r].copy
<1>0. /\ call \in [Calls -> {NoCall} \cup CallRows] /\ row \in [Messages -> MessageRows]
      /\ committed \subseteq Messages
  BY ChatAssumption DEF ChatInv, ChatTypeOK, CallRows, Messages
<1>1. /\ call[r].at = "read" /\ call[r] \in CallRows /\ m \in committed /\ m \in Messages
      /\ copy \in MessageRows
  BY <1>0 DEF SaveMessage, CallRows, NoCall, ChatInv, CallsAreAbout
<1>2. /\ row' = [row EXCEPT ![m] = copy] /\ row'[m] = copy
      /\ \A k \in Messages : k # m => row'[k] = row[k]
      /\ outdated' = (outdated \ {r}) \cup Copies(r, m)
      /\ previewLost' = (previewLost \/ r \in outdated \/ Refreshing(r, m) # {})
      /\ UNCHANGED <<dated, committed, preview, readVars, calls, datedEarly>>
  BY <1>0, <1>1 DEF SaveMessage
<1>3. /\ \A q \in Calls : q # r => call'[q] = call[q]
      /\ call[r].op = "react" => call'[r] = NoCall
      /\ call[r].op # "react" => call'[r] = [call[r] EXCEPT !.at = "saved"]
  BY <1>0, <1>1 DEF SaveMessage
<1>4. /\ call'[r] \in {NoCall} \cup CallRows
      /\ call[r].op = "react" => call'[r].at = "idle"
      /\ call[r].op # "react" => call'[r].at = "saved" /\ call'[r].msg = m /\ call'[r].copy = copy
  BY <1>1, <1>3 DEF CallRows, NoCall
<1> HIDE DEF m, copy
<1>5. ChatTypeOK'
  <2>1. call' \in [Calls -> {NoCall} \cup CallRows]
    BY <1>0, <1>1, <1>4 DEF SaveMessage
  <2>2. row' \in [Messages -> MessageRows] /\ outdated' \subseteq Calls /\ previewLost' \in BOOLEAN
    BY <1>0, <1>1, <1>2 DEF ChatInv, ChatTypeOK, Copies, At
  <2> QED
    BY <2>1, <2>2, <1>2 DEF ChatInv, ChatTypeOK, CallRows, readVars
<1>6. InsertsAlone'
  <2>1. \A q \in Calls : call'[q].at = "inserting" => call'[q] = call[q]
    BY <1>3, <1>4
  <2>2. \A q \in Calls : call[q].at = "inserting" => call[q].msg # m /\ call[q].msg \in Messages
    BY <1>0, <1>1 DEF ChatInv, InsertsAlone, CallRows, NoCall
  <2> QED
    BY <2>1, <2>2, <1>2 DEF ChatInv, InsertsAlone
<1>7. CallsAreAbout'
  BY <1>1, <1>2, <1>3, <1>4 DEF ChatInv, CallsAreAbout
<1>8. FreshCopies'
  <2> SUFFICES ASSUME NEW q \in Calls, q \notin outdated', call'[q].at = "read" PROVE Fresh(q)'
    BY DEF FreshCopies
  <2>1. q # r /\ call'[q] = call[q] /\ q \notin outdated
    BY <1>2, <1>3, <1>4
  <2>2. call[q].msg # m /\ call[q].msg \in Messages
    BY <2>1, <1>0, <1>2 DEF Copies, At, CallRows, NoCall
  <2> QED
    BY <2>1, <2>2, <1>2 DEF ChatInv, FreshCopies, Fresh
<1>9. PreviewFollows'
  <2> SUFFICES ASSUME ~previewLost, r \notin outdated, Refreshing(r, m) = {}
               PROVE  PreviewFollows'
    BY <1>2 DEF PreviewFollows
  <2>1. /\ Latest' = Latest /\ Latest \in committed /\ Latest \in Messages
        /\ preview.msg = Latest /\ preview' = preview
    BY <1>0, <1>1, <1>2, LatestIs DEF Latest, ChatInv, PreviewFollows
  <2>2. \A q \in Refreshers' : q # r => call'[q] = call[q] /\ q \in Refreshers /\ call[q].msg # m
                                          /\ call[q].msg \in Messages
    BY <1>0, <1>3 DEF At, Refreshers, Refreshing, CallRows, NoCall
  <2>3. r \in Refreshers' => call'[r].copy = copy /\ call'[r].msg = m /\ call[r].op # "react"
    BY <1>4 DEF At, Refreshers
  <2>4. \A q \in Refreshers' : call'[q].copy = row'[call'[q].msg]
    <3> SUFFICES ASSUME NEW q \in Refreshers' PROVE call'[q].copy = row'[call'[q].msg]
      OBVIOUS
    <3>1. CASE q = r
      BY <3>1, <2>3, <1>2
    <3>2. CASE q # r
      BY <3>2, <2>2, <1>2 DEF ChatInv, PreviewFollows
    <3> QED
      BY <3>1, <3>2
  <2>5. \A q \in At({"latest"})' : call'[q].msg = Latest
    BY <1>3, <1>4 DEF At, ChatInv, PreviewFollows
  <2>6. (\A q \in Refreshers' : call'[q].msg # Latest) => preview.text = PreviewText(row'[Latest])
    <3> SUFFICES ASSUME \A q \in Refreshers' : call'[q].msg # Latest
                 PROVE  preview.text = PreviewText(row'[Latest])
      OBVIOUS
    <3>1. \A q \in Refreshers : call[q].msg # Latest
      <4> SUFFICES ASSUME NEW q \in Refreshers, call[q].msg = Latest PROVE FALSE
        OBVIOUS
      <4>1. q # r /\ call'[q] = call[q]
        BY <1>1, <1>3 DEF Refreshers, At
      <4>2. q \in Refreshers'
        BY <4>1 DEF Refreshers, At
      <4> QED
        BY <4>1, <4>2
    <3>2. preview.text = PreviewText(row[Latest])
      BY <3>1, <1>1 DEF ChatInv, PreviewFollows
    <3>3. CASE m = Latest
      <4>1. call[r].op = "react"
        <5>1. r \in Refreshers' => FALSE
          BY <2>3, <3>3
        <5> QED
          BY <5>1, <1>4 DEF Refreshers, At
      <4>2. copy.text = row[m].text /\ copy.deleted = row[m].deleted
        BY <4>1, <1>1 DEF ChatInv, FreshCopies, Fresh, m, copy
      <4> QED
        BY <3>2, <3>3, <4>2, <1>2 DEF PreviewText
    <3>4. CASE m # Latest
      BY <3>2, <3>4, <2>1, <1>2
    <3> QED
      BY <3>3, <3>4
  <2> QED
    BY <2>1, <2>4, <2>5, <2>6, <1>2 DEF PreviewFollows, PreviewText
<1> QED
  BY <1>2, <1>5, <1>6, <1>7, <1>8, <1>9, MarksStay DEF ChatInv

LEMMA FindLatestStep ==
    ASSUME ChatInv, NEW r \in Calls, FindLatest(r)
    PROVE  ChatInv'
<1>0. call \in [Calls -> {NoCall} \cup CallRows]
  BY DEF ChatInv, ChatTypeOK, CallRows
<1>1. /\ call[r].at = "saved" /\ call[r] \in CallRows /\ call[r].msg \in committed
      /\ UNCHANGED <<rowsVars, readVars, calls, datedEarly, previewLost>>
      /\ \A q \in Calls : q # r => call'[q] = call[q]
      /\ outdated \ {r} \subseteq outdated' /\ outdated' \subseteq outdated
      /\ Latest' = Latest
  BY <1>0 DEF FindLatest, EndCall, CallRows, NoCall, rowsVars, Latest, ChatInv, CallsAreAbout
<1>2. /\ call[r].msg = Latest =>
            call'[r].at = "latest" /\ call'[r].msg = call[r].msg /\ call'[r].copy = call[r].copy
      /\ call[r].msg # Latest => call'[r].at = "idle"
      /\ call'[r] \in {NoCall} \cup CallRows
  <2>1. CASE call[r].msg = Latest
    <3>1. call'[r] = [call[r] EXCEPT !.at = "latest"]
      BY <1>0, <2>1 DEF FindLatest
    <3> QED
      BY <1>1, <2>1, <3>1 DEF CallRows
  <2>2. CASE call[r].msg # Latest
    BY <1>0, <2>2 DEF FindLatest, EndCall, NoCall
  <2> QED
    BY <2>1, <2>2
<1>3. ChatTypeOK'
  <2>1. call' \in [Calls -> {NoCall} \cup CallRows]
    BY <1>0, <1>1, <1>2 DEF FindLatest, EndCall
  <2> QED
    BY <2>1, <1>1 DEF ChatInv, ChatTypeOK, CallRows, rowsVars, readVars
<1>4. InsertsAlone' /\ CallsAreAbout'
  BY <1>1, <1>2 DEF ChatInv, InsertsAlone, CallsAreAbout, rowsVars
<1>5. FreshCopies'
  BY <1>1, <1>2 DEF ChatInv, FreshCopies, Fresh, rowsVars
<1>6. PreviewFollows'
  <2> SUFFICES ASSUME ~previewLost PROVE PreviewFollows'
    BY <1>1 DEF PreviewFollows
  <2>1. \A q \in Refreshers' : q \in Refreshers /\ call'[q].msg = call[q].msg
                                  /\ call'[q].copy = call[q].copy
    BY <1>1, <1>2 DEF Refreshers, At
  <2>2. \A q \in At({"latest"})' : call'[q].msg = Latest
    BY <1>1, <1>2 DEF At, ChatInv, PreviewFollows
  <2>3. \A q \in Refreshers : call[q].msg = Latest => q \in Refreshers' /\ call'[q].msg = Latest
    BY <1>1, <1>2 DEF Refreshers, At
  <2>4. /\ committed # {} => preview.msg = Latest
        /\ \A q \in Refreshers : call[q].copy = row[call[q].msg]
        /\ committed # {} /\ (\A q \in Refreshers : call[q].msg # Latest)
              => preview.text = PreviewText(row[Latest])
    BY DEF ChatInv, PreviewFollows
  <2>5. committed # {} /\ (\A q \in Refreshers' : call'[q].msg # Latest)
           => preview.text = PreviewText(row[Latest])
    BY <2>3, <2>4
  <2>6. \A q \in Refreshers' : call'[q].copy = row[call'[q].msg]
    BY <2>1, <2>4
  <2> QED
    BY <2>2, <2>4, <2>5, <2>6, <1>1 DEF PreviewFollows, PreviewText, rowsVars
<1> QED
  BY <1>1, <1>3, <1>4, <1>5, <1>6, MarksStay DEF ChatInv, rowsVars

LEMMA WritePreviewStep ==
    ASSUME ChatInv, NEW r \in Calls, WritePreview(r)
    PROVE  ChatInv'
<1>0. call \in [Calls -> {NoCall} \cup CallRows]
  BY DEF ChatInv, ChatTypeOK, CallRows
<1>1. /\ call[r].at = "latest" /\ call[r] \in CallRows /\ call[r].msg \in committed
      /\ preview' = [msg |-> call[r].msg, text |-> PreviewText(call[r].copy)]
      /\ UNCHANGED <<dated, committed, row, readVars, calls, datedEarly, previewLost>>
      /\ call' = [call EXCEPT ![r] = NoCall] /\ outdated' = outdated \ {r}
      /\ \A q \in Calls : q # r => call'[q] = call[q]
      /\ call'[r].at = "idle" /\ Latest' = Latest
  BY <1>0 DEF WritePreview, EndCall, CallRows, NoCall, Latest, ChatInv, CallsAreAbout
<1>2. ChatTypeOK'
  <2>1. call' \in [Calls -> {NoCall} \cup CallRows] /\ outdated' \subseteq Calls
    BY <1>0, <1>1 DEF ChatInv, ChatTypeOK
  <2>2. PreviewText(call[r].copy) \in {"original", "edited", "deleted"} /\ call[r].msg \in Messages
    BY <1>1 DEF PreviewText, CallRows, MessageRows
  <2>3. /\ preview' \in [msg : Messages \cup {NoMessage}, text : {"original", "edited", "deleted"}]
        /\ preview'.msg \in committed' \cup {NoMessage}
    BY <2>2, <1>1
  <2> QED
    BY <2>1, <2>3, <1>1 DEF ChatInv, ChatTypeOK, CallRows, readVars
<1>3. InsertsAlone' /\ CallsAreAbout'
  BY <1>1 DEF ChatInv, InsertsAlone, CallsAreAbout
<1>4. FreshCopies'
  BY <1>1 DEF ChatInv, FreshCopies, Fresh
<1>5. PreviewFollows'
  <2> SUFFICES ASSUME ~previewLost PROVE PreviewFollows'
    BY <1>1 DEF PreviewFollows
  <2>1. r \in Refreshers /\ call[r].msg = Latest /\ call[r].copy = row[Latest]
    BY <1>1 DEF ChatInv, PreviewFollows, Refreshers, At
  <2>2. preview'.msg = Latest /\ preview'.text = PreviewText(row[Latest])
    BY <2>1, <1>1
  <2>3. \A q \in Refreshers' : q \in Refreshers /\ call'[q] = call[q]
    BY <1>1 DEF Refreshers, At
  <2>4. \A q \in At({"latest"})' : call'[q].msg = Latest
    BY <1>1 DEF At, ChatInv, PreviewFollows
  <2>5. \A q \in Refreshers' : call'[q].copy = row[call'[q].msg]
    BY <2>3 DEF ChatInv, PreviewFollows
  <2> QED
    BY <2>2, <2>4, <2>5, <1>1 DEF PreviewFollows, PreviewText
<1> QED
  BY <1>1, <1>2, <1>3, <1>4, <1>5, MarksStay DEF ChatInv

LEMMA LoseCallsStep == ChatInv /\ LoseCalls => ChatInv'
<1> SUFFICES ASSUME ChatInv, LoseCalls PROVE ChatInv'
  OBVIOUS
<1>1. /\ call' = [r \in Calls |-> NoCall] /\ outdated' = {} /\ previewLost' = TRUE
      /\ UNCHANGED <<rowsVars, readVars, calls, datedEarly>>
      /\ \A r \in Calls : call'[r].at = "idle"
  BY DEF LoseCalls, NoCall
<1>2. ChatTypeOK'
  BY <1>1 DEF ChatInv, ChatTypeOK, rowsVars, readVars
<1>3. InsertsAlone' /\ CallsAreAbout' /\ FreshCopies' /\ PreviewFollows'
  BY <1>1 DEF InsertsAlone, CallsAreAbout, FreshCopies, PreviewFollows
<1> QED
  BY <1>1, <1>2, <1>3, MarksStay DEF ChatInv, rowsVars

\* What readers do is of no concern to the handlers.
LEMMA ReadersStep ==
    ASSUME ChatInv, UNCHANGED <<rowsVars, call, calls, chatHistory>>, ChatTypeOK',
           MarksInOrder', ListsInOrder'
    PROVE  ChatInv'
<1>1. RowsStay /\ HandlersStay({"saved", "latest"}) /\ HandlersStay({"read"})
  BY DEF RowsStay, HandlersStay, rowsVars
<1>2. InsertsAlone' /\ CallsAreAbout'
  BY DEF ChatInv, InsertsAlone, CallsAreAbout, rowsVars
<1>3. outdated' = outdated /\ previewLost' = previewLost /\ preview' = preview
  BY DEF chatHistory, rowsVars
<1> QED
  BY <1>1, <1>2, <1>3, PreviewStays, CopiesStayFresh DEF ChatInv

\* What is in the list of the newest is newer than what is not.
LEMMA NewestOnTop ==
    ASSUME NEW S, S \subseteq Nat, IsFiniteSet(S), NEW n \in Nat,
           NEW m \in NewestOf(S, n), NEW k \in S, k \notin NewestOf(S, n)
    PROVE  k < m
<1> DEFINE Above(x) == {j \in S : j > x}
<1>1. m \in S /\ Cardinality(Above(m)) < n /\ ~(Cardinality(Above(k)) < n)
  BY DEF NewestOf
<1>2. CASE k > m
  <2>1. Above(k) \subseteq Above(m)
    <3> SUFFICES ASSUME NEW j \in S, j > k PROVE j > m
      OBVIOUS
    <3>1. j \in Nat /\ k \in Nat /\ m \in Nat
      BY <1>1
    <3> QED
      BY <3>1, <1>2
  <2>2. IsFiniteSet(Above(m)) /\ IsFiniteSet(Above(k))
    BY FS_Subset
  <2>3. Cardinality(Above(k)) <= Cardinality(Above(m))
    BY <2>1, <2>2, FS_Subset
  <2>4. Cardinality(Above(k)) \in Nat /\ Cardinality(Above(m)) \in Nat
    BY <2>2, FS_CardinalityType
  <2> QED
    BY <1>1, <2>3, <2>4
<1>3. k # m
  OBVIOUS
<1> QED
  BY <1>1, <1>2, <1>3

\* The list of the newest is empty only if there is nothing to list.
LEMMA NewestHasLatest ==
    ASSUME NEW S, NEW l \in S, \A j \in S : ~(j > l), NEW n \in Nat \ {0}
    PROVE  l \in NewestOf(S, n)
<1>1. {j \in S : j > l} = {}
  OBVIOUS
<1>2. Cardinality({j \in S : j > l}) = 0
  BY <1>1, FS_EmptySet
<1> QED
  BY <1>2 DEF NewestOf

LEMMA ListMessagesStep ==
    ASSUME ChatInv, NEW a \in Members, ListMessages(a)
    PROVE  ChatInv'
<1> DEFINE new == NewestOf(committed, PageLimit)
<1>1. /\ UNCHANGED <<rowsVars, lastRead, heard, toMarkRead, shown, skipped, call, calls,
                     chatHistory>>
      /\ listed' = [listed EXCEPT ![a] = @ \cup {new}]
      /\ listed \in [Members -> SUBSET SUBSET committed]
      /\ committed # {} /\ committed \subseteq 1 .. dated /\ dated \in 0 .. MaxMessages
  BY DEF ListMessages, ChatInv, ChatTypeOK
<1>2. new \subseteq committed
  BY DEF NewestOf
<1>3. new # {}
  <2>1. Latest \in committed /\ Latest \in Nat /\ \A j \in committed : j <= Latest /\ j \in Nat
    BY <1>1, LatestIs DEF ChatInv
  <2>2. \A j \in committed : ~(j > Latest)
    BY <2>1
  <2>3. Latest \in NewestOf(committed, PageLimit)
    BY <2>1, <2>2, NewestHasLatest, ChatAssumption
  <2> QED
    BY <2>3
<1>4. \A k \in committed \ new : \A m \in new : k < m
  <2>1. committed \subseteq Nat /\ IsFiniteSet(committed)
    <3>1. IsFiniteSet(1 .. dated) /\ committed \in SUBSET (1 .. dated)
      BY <1>1, FS_Interval
    <3>2. IsFiniteSet(committed)
      BY <3>1, FS_Subset
    <3> QED
      BY <1>1, <3>2
  <2> QED
    BY <2>1, NewestOnTop, ChatAssumption
<1> HIDE DEF new
<1>5. ChatTypeOK'
  <2>1. listed' \in [Members -> SUBSET SUBSET committed]
    BY <1>1, <1>2
  <2> QED
    BY <2>1, <1>1 DEF ChatInv, ChatTypeOK, rowsVars, chatHistory
<1>6. ListsInOrder'
  <2> SUFFICES ASSUME NEW b \in Members, NEW list \in listed'[b]
               PROVE  list # {} /\ Consecutive(list)
    BY <1>1 DEF ListsInOrder, Consecutive, rowsVars, chatHistory
  <2>1. CASE list = new
    BY <2>1, <1>3, <1>4 DEF Consecutive
  <2>2. CASE list # new
    BY <2>2, <1>1 DEF ChatInv, ListsInOrder
  <2> QED
    BY <2>1, <2>2
<1>7. MarksInOrder'
  BY <1>1 DEF ChatInv, MarksInOrder, rowsVars, chatHistory
<1> QED
  BY <1>1, <1>5, <1>6, <1>7, ReadersStep

LEMMA ShowMessagesStep ==
    ASSUME ChatInv, NEW a \in Members, NEW list \in listed[a], ShowMessages(a, list)
    PROVE  ChatInv'
<1> DEFINE last == Max(list)
           missed == {k \in committed \ shown[a] : \A m \in list : k < m}
<1>1. /\ UNCHANGED <<rowsVars, lastRead, heard, call, calls, chatHistory>>
      /\ listed' = [listed EXCEPT ![a] = @ \ {list}]
      /\ shown' = [shown EXCEPT ![a] = @ \cup list]
      /\ toMarkRead' = [toMarkRead EXCEPT ![a] = @ \cup {last}]
      /\ skipped' = [skipped EXCEPT ![a] = @ \cup missed]
      /\ listed \in [Members -> SUBSET SUBSET committed]
      /\ shown \in [Members -> SUBSET committed] /\ toMarkRead \in [Members -> SUBSET committed]
      /\ skipped \in [Members -> SUBSET committed] /\ list \subseteq committed
      /\ list # {} /\ Consecutive(list)
  BY DEF ShowMessages, ChatInv, ChatTypeOK, ListsInOrder
<1>2. last \in list
  <2>1. list \subseteq 1 .. MaxMessages /\ MaxMessages \in Nat
    BY <1>1, ChatAssumption DEF ChatInv, ChatTypeOK
  <2>2. list \subseteq Nat /\ \A x \in list : x <= MaxMessages
    BY <2>1
  <2> QED
    BY <1>1, <2>1, <2>2, MaxOfBounded
<1> HIDE DEF last
<1>3. ChatTypeOK'
  <2>1. /\ listed' \in [Members -> SUBSET SUBSET committed]
        /\ shown' \in [Members -> SUBSET committed] /\ skipped' \in [Members -> SUBSET committed]
        /\ toMarkRead' \in [Members -> SUBSET committed]
    BY <1>1, <1>2
  <2> QED
    BY <2>1, <1>1 DEF ChatInv, ChatTypeOK, rowsVars, chatHistory
<1>4. MarksInOrder'
  <2> SUFFICES ASSUME NEW b \in Members,
                      NEW m \in committed \ (shown'[b] \cup skipped'[b] \cup datedEarly),
                      NEW k \in toMarkRead'[b] \cup {lastRead[b]}
               PROVE  k < m
    BY <1>1 DEF MarksInOrder, rowsVars, chatHistory
  <2>1. shown[b] \subseteq shown'[b] /\ skipped[b] \subseteq skipped'[b]
    BY <1>1
  <2>2. \A j \in toMarkRead[b] \cup {lastRead[b]} : j < m
    BY <2>1 DEF ChatInv, MarksInOrder
  <2>3. CASE b = a /\ k = last
    <3>1. m \notin list /\ m \notin missed /\ m \notin shown[a]
      BY <2>1, <2>3, <1>1
    <3>2. ~(\A j \in list : m < j)
      BY <3>1
    <3>3. \A j \in list : j < m
      BY <3>1, <3>2, <1>1 DEF Consecutive
    <3> QED
      BY <3>3, <2>3, <1>2
  <2>4. CASE ~(b = a /\ k = last)
    BY <2>2, <2>4, <1>1
  <2> QED
    BY <2>3, <2>4
<1>5. ListsInOrder'
  <2>1. \A b \in Members : listed'[b] \subseteq listed[b]
    BY <1>1
  <2> QED
    BY <2>1, <1>1 DEF ChatInv, ListsInOrder, Consecutive, rowsVars, chatHistory
<1> QED
  BY <1>1, <1>3, <1>4, <1>5, ReadersStep

LEMMA ReceiveMessageStep ==
    ASSUME ChatInv, NEW a \in Members, NEW n \in Messages, ReceiveMessage(a, n)
    PROVE  ChatInv'
<1>1. /\ UNCHANGED <<rowsVars, lastRead, listed, call, calls, chatHistory>>
      /\ heard' = [heard EXCEPT ![a] = @ \cup {n}]
      /\ heard \in [Members -> SUBSET committed]
      /\ shown' = [shown EXCEPT ![a] = @ \cup {n}]
      /\ toMarkRead' = [toMarkRead EXCEPT ![a] = @ \cup {n}]
      /\ skipped' = [skipped EXCEPT ![a] = @ \cup {k \in committed \ shown[a] : k < n}]
      /\ shown \in [Members -> SUBSET committed] /\ toMarkRead \in [Members -> SUBSET committed]
      /\ skipped \in [Members -> SUBSET committed] /\ n \in committed
  BY DEF ReceiveMessage, ChatInv, ChatTypeOK
<1>2. ChatTypeOK'
  <2>1. /\ shown' \in [Members -> SUBSET committed] /\ skipped' \in [Members -> SUBSET committed]
        /\ toMarkRead' \in [Members -> SUBSET committed] /\ heard' \in [Members -> SUBSET committed]
    BY <1>1
  <2> QED
    BY <2>1, <1>1 DEF ChatInv, ChatTypeOK, rowsVars, chatHistory
<1>3. MarksInOrder'
  <2> SUFFICES ASSUME NEW b \in Members,
                      NEW m \in committed \ (shown'[b] \cup skipped'[b] \cup datedEarly),
                      NEW k \in toMarkRead'[b] \cup {lastRead[b]}
               PROVE  k < m
    BY <1>1 DEF MarksInOrder, rowsVars, chatHistory
  <2>1. shown[b] \subseteq shown'[b] /\ skipped[b] \subseteq skipped'[b]
    BY <1>1
  <2>2. \A j \in toMarkRead[b] \cup {lastRead[b]} : j < m
    BY <2>1 DEF ChatInv, MarksInOrder
  <2>3. CASE b = a /\ k = n
    <3>1. m # n /\ ~(m < n)
      BY <2>1, <2>3, <1>1
    <3>2. m \in Nat /\ n \in Nat
      BY <1>1, LatestIs DEF ChatInv
    <3> QED
      BY <3>1, <3>2, <2>3
  <2>4. CASE ~(b = a /\ k = n)
    BY <2>2, <2>4, <1>1
  <2> QED
    BY <2>3, <2>4
<1>4. ListsInOrder'
  BY <1>1 DEF ChatInv, ListsInOrder, Consecutive, rowsVars, chatHistory
<1> QED
  BY <1>1, <1>2, <1>3, <1>4, ReadersStep

LEMMA MarkReadStep ==
    ASSUME ChatInv, NEW a \in Members, NEW n \in Messages, MarkRead(a, n)
    PROVE  ChatInv'
<1>1. /\ UNCHANGED <<rowsVars, heard, listed, shown, skipped, call, calls, chatHistory>>
      /\ n \in toMarkRead[a]
      /\ lastRead' = [lastRead EXCEPT ![a] = n]
      /\ toMarkRead' = [toMarkRead EXCEPT ![a] = @ \ {n}]
      /\ lastRead \in [Members -> committed \cup {NoMessage}]
      /\ toMarkRead \in [Members -> SUBSET committed]
  BY DEF MarkRead, ChatInv, ChatTypeOK
<1>2. ChatTypeOK'
  <2>1. /\ lastRead' \in [Members -> committed \cup {NoMessage}]
        /\ toMarkRead' \in [Members -> SUBSET committed]
    BY <1>1
  <2> QED
    BY <2>1, <1>1 DEF ChatInv, ChatTypeOK, rowsVars, chatHistory
<1>3. MarksInOrder'
  <2>1. \A b \in Members : toMarkRead'[b] \cup {lastRead'[b]} \subseteq toMarkRead[b] \cup {lastRead[b]}
    BY <1>1
  <2> QED
    BY <2>1, <1>1 DEF ChatInv, MarksInOrder, rowsVars, chatHistory
<1>4. ListsInOrder'
  BY <1>1 DEF ChatInv, ListsInOrder, Consecutive, rowsVars, chatHistory
<1> QED
  BY <1>1, <1>2, <1>3, <1>4, ReadersStep

LEMMA ChatStep == ChatInv /\ [NextChat]_chatVars => ChatInv'
<1> SUFFICES ASSUME ChatInv, [NextChat]_chatVars PROVE ChatInv'
  OBVIOUS
<1>1. ASSUME NEW r \in Calls, NEW a \in Members, BeginSend(r, a) PROVE ChatInv'
  BY <1>1, BeginSendStep
<1>2. ASSUME NEW r \in Calls, CommitSend(r) \/ NotifyPeers(r) PROVE ChatInv'
  BY <1>2, CommitSendStep, NotifyPeersStep
<1>3. ASSUME NEW r \in Calls, NEW m \in Messages, EditMessage(r, m) \/ DeleteMessage(r, m)
      PROVE  ChatInv'
  BY <1>3, EditMessageStep
<1>4. ASSUME NEW r \in Calls, NEW a \in Members, NEW m \in Messages, NEW e \in Emojis,
             ReactToMessage(r, a, m, e)
      PROVE  ChatInv'
  BY <1>4, ReactToMessageStep
<1>5. ASSUME NEW r \in Calls, SaveMessage(r) \/ FindLatest(r) \/ WritePreview(r) PROVE ChatInv'
  BY <1>5, SaveMessageStep, FindLatestStep, WritePreviewStep
<1>6. CASE LoseCalls
  BY <1>6, LoseCallsStep
<1>7. ASSUME NEW a \in Members,
             ListMessages(a) \/ \E list \in listed[a] : ShowMessages(a, list)
      PROVE  ChatInv'
  BY <1>7, ListMessagesStep, ShowMessagesStep
<1>8. ASSUME NEW a \in Members, NEW m \in Messages, ReceiveMessage(a, m) \/ MarkRead(a, m)
      PROVE  ChatInv'
  BY <1>8, ReceiveMessageStep, MarkReadStep
<1>9. CASE UNCHANGED chatVars
  <2>1. ChatTypeOK' /\ MarksInOrder' /\ ListsInOrder'
    <3> HIDE DEF ChatInv
    <3>1. ChatTypeOK /\ MarksInOrder
      BY DEF ChatInv
    <3>3. /\ UNCHANGED <<dated, committed, row, preview, lastRead, heard, listed, toMarkRead>>
          /\ UNCHANGED <<shown, skipped>>
      BY <1>9 DEF chatVars, rowsVars, readVars
    <3>4. UNCHANGED <<call, calls, datedEarly, outdated, previewLost>>
      BY <1>9 DEF chatVars, chatHistory
    <3>2. ChatTypeOK'
      BY <3>1, <3>3, <3>4 DEF ChatTypeOK
    <3> QED
      BY <1>9, <3>2, MarksStay DEF chatVars, rowsVars, chatHistory
  <2> QED
    BY <1>9, <2>1, ReadersStep DEF chatVars
<1> QED
  BY <1>1, <1>2, <1>3, <1>4, <1>5, <1>6, <1>7, <1>8, <1>9 DEF NextChat

LEMMA ChatInvariant == SpecChat => []ChatInv
BY ChatInit, ChatStep, PTL DEF SpecChat

\* The rows, marks and handlers of a conversation have the values they may
\* have: among others, nobody has read a message that is not committed.
THEOREM ChatTypeCorrect == SpecChat => []ChatTypeOK
BY ChatInvariant, PTL DEF ChatInv

\* However sends, edits, deletions and reactions interleave: at rest the
\* preview shows the latest message, unless sends, or two changes of that
\* message, met on the way.
THEOREM PreviewCorrect == SpecChat => []PreviewShowsLatest
<1>1. ChatInv => PreviewShowsLatest
  <2> SUFFICES ASSUME ChatInv, ~previewLost, Refreshers = {}, committed # {}
               PROVE  preview = [msg |-> Latest, text |-> PreviewText(row[Latest])]
    BY DEF PreviewShowsLatest, Refreshers
  <2>1. preview.msg = Latest /\ preview.text = PreviewText(row[Latest])
    BY DEF ChatInv, PreviewFollows
  <2>2. preview = [msg |-> preview.msg, text |-> preview.text]
    BY DEF ChatInv, ChatTypeOK
  <2> QED
    BY <2>1, <2>2
<1> QED
  BY <1>1, ChatInvariant, PTL

\* Marks that overtake each other, and lists that arrive late, never hide a
\* message that was not shown and was not passed over: by the limit of a list,
\* or because the event of a later one arrived first.
THEOREM UnshownCorrect == SpecChat => []UnshownIsUnread
<1>1. ChatInv => UnshownIsUnread
  <2> SUFFICES ASSUME ChatInv, NEW a \in Members,
                      NEW m \in committed \ (shown[a] \cup skipped[a] \cup datedEarly),
                      row[m].sender # a
               PROVE  m \in Unread(a)
    BY DEF UnshownIsUnread
  <2>1. lastRead[a] < m
    BY DEF ChatInv, MarksInOrder
  <2>2. m \in Nat /\ lastRead[a] \in Nat
    <3>1. ChatTypeOK /\ \A n \in committed : n \in Nat
      BY LatestIs DEF ChatInv
    <3>2. lastRead[a] \in committed \cup {0}
      BY <3>1 DEF ChatTypeOK, NoMessage
    <3> QED
      BY <3>1, <3>2
  <2> QED
    BY <2>1, <2>2 DEF Unread
<1> QED
  BY <1>1, ChatInvariant, PTL

\* What a call saves keeps the work of others, if its copy was fresh.
THEOREM OthersWorkKept == SpecChat => CallsKeepOthersWork
<1>1. ChatInv /\ [NextChat]_chatVars => [SavesKeepOthersWork]_chatVars
  <2> SUFFICES ASSUME ChatInv, NextChat, NEW r \in Calls, r \notin outdated,
                      call[r].at = "read", call'[r].at # "read"
               PROVE  KeepsOthersWork(r)
    BY DEF SavesKeepOthersWork
  <2> DEFINE m == call[r].msg
  <2>0. /\ call \in [Calls -> {NoCall} \cup CallRows] /\ row \in [Messages -> MessageRows]
        /\ m \in Messages
    BY DEF ChatInv, ChatTypeOK, CallRows, NoCall
  <2>1. ASSUME row'[m] = row[m] PROVE KeepsOthersWork(r)
    BY <2>1 DEF KeepsOthersWork
  <2>2. CASE SaveMessage(r)
    <3>1. row'[m] = call[r].copy
      BY <2>0, <2>2 DEF SaveMessage
    <3>2. Fresh(r)
      BY DEF ChatInv, FreshCopies
    <3> QED
      BY <3>1, <3>2 DEF Fresh, KeepsOthersWork
  <2>3. CASE LoseCalls
    BY <2>1, <2>3 DEF LoseCalls, rowsVars
  <2>5. ASSUME NEW q \in Calls, NEW a \in Members, BeginSend(q, a) PROVE FALSE
    BY <2>0, <2>5 DEF BeginSend, NoCall
  <2>6. ASSUME NEW q \in Calls, CommitSend(q) \/ NotifyPeers(q) PROVE FALSE
    BY <2>0, <2>6 DEF CommitSend, NotifyPeers, EndCall
  <2>7. ASSUME NEW q \in Calls, NEW op, NEW a, NEW n, NEW copy, ReadMessage(q, op, a, n, copy)
        PROVE  FALSE
    BY <2>0, <2>7 DEF ReadMessage, NoCall
  <2>8. ASSUME NEW q \in Calls, q # r, SaveMessage(q) PROVE FALSE
    BY <2>0, <2>8 DEF SaveMessage
  <2>9. ASSUME NEW q \in Calls, FindLatest(q) \/ WritePreview(q) PROVE FALSE
    BY <2>0, <2>9 DEF FindLatest, WritePreview, EndCall
  <2>10. ASSUME NEW a \in Members,
                ListMessages(a) \/ \E list \in listed[a] : ShowMessages(a, list)
         PROVE  FALSE
    BY <2>10 DEF ListMessages, ShowMessages
  <2>11. ASSUME NEW a \in Members, NEW n \in Messages, ReceiveMessage(a, n) \/ MarkRead(a, n)
         PROVE  FALSE
    BY <2>11 DEF ReceiveMessage, MarkRead
  <2> QED
    BY <2>2, <2>3, <2>5, <2>6, <2>7, <2>8, <2>9, <2>10, <2>11
    DEF NextChat, EditMessage, DeleteMessage, ReactToMessage
<1> QED
  BY <1>1, ChatInvariant, PTL DEF SpecChat, CallsKeepOthersWork

-----------------------------------------------------------------------------
(* The chat page.                                                          *)

\* Messages are numbered in the order of their insertion, and have one row.
RowsOnce ==
    \A c \in Conversations :
        /\ IsFiniteSet(content[c])
        /\ Cardinality(content[c]) <= changesMade
        /\ \A x \in content[c] :
              x.conv = c /\ x.num <= Cardinality(content[c]) /\ x.version <= changesMade
        /\ \A x, y \in content[c] : x.num = y.num => x = y

\* What was copied is in the database still, or has been edited since.
InDatabase(z) == \E x \in content[z.conv] : Same(z, x) /\ z.version <= x.version
CopiesOfRows ==
    /\ \A z \in answers \cup pending : InDatabase(z)
    /\ \A i \in DOMAIN events : InDatabase(events[i])

\* Before the first conversation is opened the page is empty.
NothingOpened ==
    activeConvId = NoneOpen =>
        messages = {} /\ answers = {} /\ \A i \in Slots : loads[i] = NoLoad

\* A list holds a message once.
OneOfEach(list) == \A x, y \in list : Same(x, y) => x = y

\* A message is shown, in some version; it was sent, and the event of that is
\* yet to be emitted, or to be handled.
Shown(x) == \E z \in messages : Same(z, x)
FirstOf(x) == [x EXCEPT !.version = 0]
SentOff(x) == FirstOf(x) \in pending
UnderWay(x) == \E i \in DOMAIN events : events[i] = FirstOf(x)

\* What the page shows or is about to show, and how it comes to show it as it
\* is: by an event, or it does already and no event will change it.
Due(x) == x \in NewestItems(x.conv) \/ Shown(x) \/ UnderWay(x)
Settled(x) == x \in messages /\ \A i \in DOMAIN events : ~Same(events[i], x)
Brought(x) == Coming(x) \/ SentOff(x) \/ Settled(x)

\* Nothing keeps the page from showing what is stored but events to come.
ShowsOpen ==
    /\ \A z \in messages : z.conv = activeConvId /\ InDatabase(z)
    /\ OneOfEach(messages)
    /\ \A x \in content[activeConvId] : Due(x) => Brought(x)
    /\ \A x \in NewestItems(activeConvId) : Shown(x) \/ SentOff(x) \/ UnderWay(x)
CatchesUp == current /\ activeConvId # NoneOpen => ShowsOpen

PageInv == ChatPageTypeOK /\ RowsOnce /\ CopiesOfRows /\ NothingOpened /\ CatchesUp

LEMMA PageInit == InitChatPage => PageInv
<1> SUFFICES ASSUME InitChatPage PROVE PageInv
  OBVIOUS
<1>1. \A c \in Conversations : content[c] = {}
  BY DEF InitChatPage
<1>2. IsFiniteSet({}) /\ Cardinality({}) = 0
  BY FS_EmptySet
<1>3. changesMade = 0 /\ switches = 0 /\ drops = 0 /\ 0 \in 0 .. MaxChanges
      /\ 0 \in 0 .. MaxSwitches /\ 0 \in 0 .. MaxDrops
  BY ChatPageAssumption DEF InitChatPage
<1>4. ChatPageTypeOK
  <2>1. loads \in [Slots -> Loads]
    BY DEF InitChatPage, Loads
  <2>2. content \in [Conversations -> SUBSET Items] /\ events \in Seq(Items)
    BY DEF InitChatPage
  <2> QED
    BY <1>1, <1>3, <2>1, <2>2 DEF InitChatPage, ChatPageTypeOK
<1>5. RowsOnce
  <2>1. \A c \in Conversations : IsFiniteSet(content[c]) /\ Cardinality(content[c]) <= changesMade
    BY <1>1, <1>2, <1>3
  <2> QED
    BY <1>1, <2>1 DEF RowsOnce
<1>6. CopiesOfRows
  BY DEF InitChatPage, CopiesOfRows
<1>7. NothingOpened /\ CatchesUp
  BY DEF InitChatPage, NothingOpened, CatchesUp
<1> QED
  BY <1>4, <1>5, <1>6, <1>7 DEF PageInv

LEMMA FirstOfSame ==
    ASSUME NEW x \in Items, NEW y \in Items
    PROVE  /\ Same(FirstOf(x), x) /\ FirstOf(x).version = 0 /\ FirstOf(x).conv = x.conv
           /\ Same(x, y) => FirstOf(x) = FirstOf(y)
           /\ Same(x, y) /\ x.version = 0 => x = FirstOf(y)
           /\ Same(x, y) /\ x.version = y.version => x = y
BY DEF FirstOf, Same, Items

\* What a change of one row does to the database, and to its newest rows.
Puts(y) ==
    /\ y \in Items /\ y \in content'[y.conv]
    /\ \A c \in Conversations :
          /\ \A w \in content'[c] :
                w.conv = c /\ (w = y \/ (w \in content[c] /\ ~ Same(w, y)))
          /\ \A w \in content[c] : Same(w, y) \/ w \in content'[c]
          /\ \A w \in NewestItems(c)' : w # y => w \in NewestItems(c)
    /\ \A x \in content[y.conv] : Same(x, y) => x.version <= y.version
    /\ y.version = 0 \/ (y \in NewestItems(y.conv)' =>
                             \E x \in NewestItems(y.conv) : Same(x, y))

LEMMA KnownStays ==
    ASSUME ChatPageTypeOK, NEW y, Puts(y), NEW z \in Items, InDatabase(z)
    PROVE  InDatabase(z)'
<1>1. PICK x \in content[z.conv] : Same(z, x) /\ z.version <= x.version
  BY DEF InDatabase
<1>2. z.conv \in Conversations /\ z.version \in Nat
  BY DEF Items
<1>3. x \in Items
  BY <1>1, <1>2 DEF ChatPageTypeOK
<1>4. CASE Same(x, y)
  <2>1. x.conv = y.conv /\ x.conv = z.conv /\ x.num = y.num /\ z.num = x.num
    BY <1>1, <1>4 DEF Same
  <2>2. x.version <= y.version /\ x.version \in Nat /\ y.version \in Nat
    BY <1>1, <1>3, <1>4, <2>1 DEF Puts, Items
  <2>3. y \in content'[z.conv] /\ Same(z, y) /\ z.version <= y.version
    BY <1>1, <1>2, <2>1, <2>2 DEF Puts, Same
  <2> QED
    BY <2>3 DEF InDatabase, Same
<1>5. CASE ~ Same(x, y)
  BY <1>1, <1>2, <1>5 DEF Puts, InDatabase, Same
<1> QED
  BY <1>4, <1>5

LEMMA NewRow ==
    ASSUME PageInv, NEW c \in Conversations, changesMade < MaxChanges,
           changesMade' = changesMade + 1,
           content' = [content EXCEPT ![c] = @ \cup {NewItem(c)}]
    PROVE  Puts(NewItem(c)) /\ RowsOnce' /\ content' \in [Conversations -> SUBSET Items]
           /\ NewItem(c).version = 0
<1> DEFINE y == NewItem(c)
<1>0. /\ content \in [Conversations -> SUBSET Items] /\ changesMade \in 0 .. MaxChanges
      /\ MaxChanges \in Nat /\ RowsOnce
  BY ChatPageAssumption DEF PageInv, ChatPageTypeOK
<1>1. /\ IsFiniteSet(content[c]) /\ Cardinality(content[c]) \in Nat
      /\ Cardinality(content[c]) <= changesMade
      /\ \A x \in content[c] : x.num <= Cardinality(content[c])
  BY <1>0, FS_CardinalityType DEF RowsOnce
<1>2. /\ y \in Items /\ y.conv = c /\ y.version = 0 /\ y.num = Cardinality(content[c]) + 1
  BY <1>0, <1>1 DEF NewItem, Items
<1>3. content'[c] = content[c] \cup {y} /\ \A d \in Conversations \ {c} : content'[d] = content[d]
  BY <1>0
<1> HIDE DEF y
<1>4. \A x \in content[c] : x.num \in Nat /\ x.num # y.num
  BY <1>0, <1>1, <1>2 DEF Items
<1>5. y \notin content[c]
  BY <1>4
<1>6. IsFiniteSet(content'[c]) /\ Cardinality(content'[c]) = Cardinality(content[c]) + 1
  BY <1>1, <1>3, <1>5, OneMore
<1>7. \A d \in Conversations : \A x \in content[d] :
         x.conv = d /\ x.version \in Nat /\ x.version <= changesMade
  BY <1>0 DEF RowsOnce, Items
<1>8. Puts(y)
  <2>1. \A x \in content[c] : ~ Same(x, y)
    BY <1>4 DEF Same
  <2>2. ASSUME NEW d \in Conversations
        PROVE  /\ \A w \in content'[d] : w.conv = d /\ (w = y \/ (w \in content[d] /\ ~ Same(w, y)))
               /\ \A w \in content[d] : Same(w, y) \/ w \in content'[d]
    <3>1. CASE d = c
      <4>1. \A w \in content[c] : w.conv = c /\ ~ Same(w, y)
        BY <1>7, <2>1
      <4>2. \A w \in content'[c] : w = y \/ w \in content[c]
        BY <1>3
      <4> QED
        BY <1>2, <1>3, <3>1, <4>1, <4>2
    <3>2. CASE d # c
      <4>1. \A w \in content[d] : w.conv = d /\ ~ Same(w, y)
        BY <1>2, <1>7, <3>2 DEF Same
      <4> QED
        BY <1>3, <3>2, <4>1
    <3> QED
      BY <3>1, <3>2
  <2>3. y \in content'[y.conv]
    BY <1>2, <1>3
  <2>4. ASSUME NEW d \in Conversations, NEW w \in NewestItems(d)', w # y PROVE w \in NewestItems(d)
    <3>1. w \in content'[d] /\ w.num + ListLimit > Cardinality(content'[d])
      BY <2>4 DEF NewestItems
    <3>2. CASE d = c
      <4>1. w \in content[c] /\ w.num \in Nat /\ ListLimit \in Nat
        BY <1>3, <1>4, <2>4, <3>1, <3>2, ChatPageAssumption
      <4> QED
        BY <1>1, <1>6, <3>1, <3>2, <4>1 DEF NewestItems
    <3>3. CASE d # c
      BY <1>3, <3>1, <3>3 DEF NewestItems
    <3> QED
      BY <3>2, <3>3
  <2> QED
    BY <1>2, <2>1, <2>2, <2>3, <2>4 DEF Puts
<1>9. RowsOnce'
  <2> SUFFICES ASSUME NEW d \in Conversations
               PROVE  /\ IsFiniteSet(content'[d])
                      /\ Cardinality(content'[d]) <= changesMade'
                      /\ \A x \in content'[d] : x.conv = d /\ x.num <= Cardinality(content'[d])
                                                  /\ x.version <= changesMade'
                      /\ \A x, z \in content'[d] : x.num = z.num => x = z
    BY DEF RowsOnce
  <2>1. changesMade \in Nat
    BY <1>0
  <2>2. CASE d = c
    <3>1. \A x \in content[c] : x.conv = c /\ x.num <= Cardinality(content[c])
                                 /\ x.version <= changesMade
      BY <1>0 DEF RowsOnce
    <3>2. \A x \in content'[c] : x.conv = c /\ x.num <= Cardinality(content'[c])
                                   /\ x.version <= changesMade'
      BY <1>1, <1>2, <1>3, <1>4, <1>6, <1>7, <2>1, <3>1
    <3>3. \A x, z \in content'[c] : x.num = z.num => x = z
      BY <1>0, <1>3, <1>4 DEF RowsOnce
    <3> QED
      BY <1>1, <1>6, <2>1, <2>2, <3>2, <3>3
  <2>3. CASE d # c
    <3>1. content'[d] = content[d]
      BY <1>3, <2>3
    <3>2. /\ IsFiniteSet(content[d]) /\ Cardinality(content[d]) <= changesMade
          /\ \A x \in content[d] : x.conv = d /\ x.num <= Cardinality(content[d])
          /\ \A x, z \in content[d] : x.num = z.num => x = z
      BY <1>0 DEF RowsOnce
    <3>3. Cardinality(content[d]) \in Nat
      BY <3>2, FS_CardinalityType
    <3> QED
      BY <1>7, <2>1, <3>1, <3>2, <3>3
  <2> QED
    BY <2>2, <2>3
<1> QED
  BY <1>0, <1>2, <1>8, <1>9 DEF y

Edited(x) == [x EXCEPT !.version = @ + 1]
LEMMA EditedRow ==
    ASSUME PageInv, NEW c \in Conversations, NEW x \in content[c], changesMade < MaxChanges,
           changesMade' = changesMade + 1,
           content' = [content EXCEPT ![x.conv] = Replaced(@, Edited(x))]
    PROVE  Puts(Edited(x)) /\ RowsOnce' /\ content' \in [Conversations -> SUBSET Items]
<1> DEFINE y == Edited(x)
<1>0. /\ content \in [Conversations -> SUBSET Items] /\ changesMade \in 0 .. MaxChanges
      /\ MaxChanges \in Nat /\ RowsOnce
  BY ChatPageAssumption DEF PageInv, ChatPageTypeOK
<1>1. x \in Items /\ x.conv = c /\ x.version <= changesMade
  BY <1>0 DEF RowsOnce
<1>2. /\ y \in Items /\ y.conv = c /\ y.version = x.version + 1 /\ y.num = x.num
  BY <1>0, <1>1 DEF Edited, Items
<1> HIDE DEF y
<1>3. \A d \in Conversations : \A w \in content[d] :
         w.conv = d /\ w.version \in Nat /\ w.version <= changesMade
  BY <1>0 DEF RowsOnce, Items
<1>4. \A w \in content[c] : Same(w, y) <=> w = x
  BY <1>0, <1>1, <1>2, <1>3 DEF RowsOnce, Same
<1>5. content'[c] = (content[c] \ {x}) \cup {y}
      /\ \A d \in Conversations \ {c} : content'[d] = content[d]
  <2>1. content'[c] = Replaced(content[c], y)
    BY <1>0, <1>1 DEF y
  <2>2. Replaced(content[c], y) = (content[c] \ {x}) \cup {y}
    <3>1. \A w \in content[c] : (IF Same(y, w) THEN y ELSE w) = IF w = x THEN y ELSE w
      BY <1>4 DEF Same
    <3>2. Replaced(content[c], y) = {IF w = x THEN y ELSE w : w \in content[c]}
      BY <3>1 DEF Replaced, Same
    <3> QED
      BY <3>2
  <2> QED
    BY <1>0, <1>1, <2>1, <2>2
<1>6. y \notin content[c]
  BY <1>1, <1>2, <1>3, <1>4 DEF Same
<1>7. IsFiniteSet(content'[c]) /\ Cardinality(content'[c]) = Cardinality(content[c])
  <2> DEFINE S == content[c] \ {x}
  <2>1. IsFiniteSet(content[c])
    BY <1>0 DEF RowsOnce
  <2>2. IsFiniteSet(S) /\ Cardinality(content[c]) = Cardinality(S) + 1
    BY <2>1, OneLess
  <2>3. y \notin S /\ content'[c] = S \cup {y}
    BY <1>5, <1>6
  <2> QED
    BY <2>2, <2>3, OneMore
<1>8. Puts(y)
  <2>1. x \in content[c] /\ Same(x, y) /\ x.version \in Nat /\ x.version <= y.version
    BY <1>1, <1>2, <1>3, <1>4
  <2>2. ASSUME NEW d \in Conversations
        PROVE  /\ \A w \in content'[d] : w.conv = d /\ (w = y \/ (w \in content[d] /\ ~ Same(w, y)))
               /\ \A w \in content[d] : Same(w, y) \/ w \in content'[d]
    <3>1. CASE d = c
      <4>1. \A w \in content[c] : w.conv = c /\ (w # x => ~ Same(w, y))
        BY <1>3, <1>4
      <4>2. \A w \in content'[c] : w = y \/ (w \in content[c] /\ w # x)
        BY <1>5
      <4>3. \A w \in content[c] : w # x => w \in content'[c]
        BY <1>5
      <4> QED
        BY <1>2, <2>1, <3>1, <4>1, <4>2, <4>3
    <3>2. CASE d # c
      <4>1. \A w \in content[d] : w.conv = d /\ ~ Same(w, y)
        BY <1>2, <1>3, <3>2 DEF Same
      <4> QED
        BY <1>5, <3>2, <4>1
    <3> QED
      BY <3>1, <3>2
  <2>3. y \in content'[y.conv]
    BY <1>2, <1>5
  <2>4. \A w \in content[y.conv] : Same(w, y) => w.version <= y.version
    BY <1>2, <1>4, <2>1
  <2>5. ASSUME NEW d \in Conversations, NEW w \in NewestItems(d)', w # y PROVE w \in NewestItems(d)
    <3>1. w \in content'[d] /\ w.num + ListLimit > Cardinality(content'[d])
      BY <2>5 DEF NewestItems
    <3>2. w \in content[d] /\ Cardinality(content'[d]) = Cardinality(content[d])
      BY <1>5, <1>7, <2>5, <3>1
    <3> QED
      BY <3>1, <3>2 DEF NewestItems
  <2>6. y \in NewestItems(c)' => x \in NewestItems(c)
    BY <1>2, <1>7 DEF NewestItems
  <2> QED
    BY <1>2, <2>1, <2>2, <2>3, <2>4, <2>5, <2>6 DEF Puts
<1>9. RowsOnce'
  <2> SUFFICES ASSUME NEW d \in Conversations
               PROVE  /\ IsFiniteSet(content'[d])
                      /\ Cardinality(content'[d]) <= changesMade'
                      /\ \A w \in content'[d] : w.conv = d /\ w.num <= Cardinality(content'[d])
                                                  /\ w.version <= changesMade'
                      /\ \A w, z \in content'[d] : w.num = z.num => w = z
    BY DEF RowsOnce
  <2>1. changesMade \in Nat /\ changesMade' = changesMade + 1
    BY <1>0
  <2>2. /\ IsFiniteSet(content[d]) /\ Cardinality(content[d]) <= changesMade
        /\ \A w \in content[d] : w.conv = d /\ w.num <= Cardinality(content[d])
        /\ \A w, z \in content[d] : w.num = z.num => w = z
    BY <1>0 DEF RowsOnce
  <2>3. Cardinality(content[d]) \in Nat
    BY <2>2, FS_CardinalityType
  <2>4. CASE d = c
    <3>1. \A w \in content'[c] : w.conv = c /\ w.num <= Cardinality(content'[c])
                                   /\ w.version <= changesMade'
      BY <1>1, <1>2, <1>3, <1>5, <1>7, <2>1, <2>2, <2>4
    <3>2. \A w, z \in content'[c] : w.num = z.num => w = z
      BY <1>2, <1>5, <2>2, <2>4
    <3> QED
      BY <1>7, <2>1, <2>2, <2>3, <2>4, <3>1, <3>2
  <2>5. CASE d # c
    <3>1. content'[d] = content[d]
      BY <1>5, <2>5
    <3> QED
      BY <1>3, <2>1, <2>2, <2>3, <3>1
  <2> QED
    BY <2>4, <2>5
<1>10. content' \in [Conversations -> SUBSET Items]
  BY <1>0, <1>2, <1>5
<1> QED
  BY <1>8, <1>9, <1>10 DEF y

\* The actions that change a row: what is saved will be emitted.
LEMMA SaveStep ==
    ASSUME PageInv, NEW y, NEW own, Puts(y), RowsOnce',
           content' \in [Conversations -> SUBSET Items], SaveItem(y, own)
    PROVE  PageInv'
<1>0. /\ ChatPageTypeOK /\ NothingOpened /\ CopiesOfRows /\ CatchesUp
      /\ y \in Items /\ y.conv \in Conversations
  BY DEF PageInv, Puts, Items
<1>1. /\ answers' \subseteq answers \cup {y} /\ pending' = pending \cup {y}
      /\ (y \in answers' => y \in answers \/ y.conv = activeConvId)
      /\ UNCHANGED <<events, joining, rooms, connected, activeConvId, messages, loads,
                     switches, drops, current>>
      /\ changesMade < MaxChanges /\ changesMade' = changesMade + 1
  BY DEF SaveItem
<1>2. ChatPageTypeOK'
  <2>1. changesMade' \in 0 .. MaxChanges
    BY <1>0, <1>1, ChatPageAssumption DEF ChatPageTypeOK
  <2>2. answers' \subseteq Items /\ pending' \subseteq Items
    BY <1>0, <1>1 DEF ChatPageTypeOK
  <2>3. \A c \in Conversations : \A x \in content'[c] : x.conv = c
    BY DEF Puts
  <2> QED
    BY <1>0, <1>1, <2>1, <2>2, <2>3 DEF ChatPageTypeOK
<1>3. \A z \in Items : InDatabase(z) => InDatabase(z)'
  BY <1>0, KnownStays
<1>4. InDatabase(y)'
  BY <1>0 DEF InDatabase, Puts, Same, Items
<1>5. CopiesOfRows'
  <2>1. answers \subseteq Items /\ pending \subseteq Items
        /\ \A i \in DOMAIN events : events[i] \in Items
    BY <1>0 DEF ChatPageTypeOK
  <2>2. \A i \in DOMAIN events : InDatabase(events[i])'
    <3>1. \A z \in Items : InDatabase(z) =>
             \E x \in content'[z.conv] : Same(z, x) /\ z.version <= x.version
      BY <1>3 DEF InDatabase, Same
    <3> QED
      BY <1>0, <1>1, <2>1, <3>1 DEF CopiesOfRows, InDatabase, Same
  <2>3. \A z \in answers' \cup pending' : InDatabase(z)'
    BY <1>0, <1>1, <1>3, <1>4, <2>1 DEF CopiesOfRows
  <2> QED
    BY <1>1, <2>2, <2>3 DEF CopiesOfRows
<1>6. NothingOpened'
  <2>1. activeConvId = NoneOpen => y.conv # activeConvId
    BY <1>0, ChatPageAssumption
  <2> QED
    BY <1>0, <1>1, <2>1 DEF NothingOpened
<1>7. CatchesUp'
  <2> DEFINE c == activeConvId
  <2> SUFFICES ASSUME current, c # NoneOpen PROVE ShowsOpen'
    BY <1>1 DEF CatchesUp
  <2>0. ShowsOpen /\ c \in Conversations /\ messages \subseteq Items
        /\ content \in [Conversations -> SUBSET Items]
        /\ \A w \in content[c] : w.conv = c
    BY <1>0 DEF CatchesUp, ChatPageTypeOK
  <2>1. \A z \in messages : z.conv = c /\ InDatabase(z)'
    BY <1>3, <2>0 DEF ShowsOpen
  <2>2. OneOfEach(messages)
    BY <2>0 DEF ShowsOpen
  <2>3. ASSUME NEW w \in content'[c], Due(w)' PROVE Brought(w)'
    <3>1. CASE w = y
      BY <1>1, <3>1 DEF Brought, Coming
    <3>2. CASE w # y
      <4>1. w \in content[c] /\ w.conv = c
        BY <2>0, <3>2 DEF Puts
      <4>2. Due(w)
        BY <1>1, <2>0, <2>3, <3>2, <4>1 DEF Due, Shown, UnderWay, FirstOf, Puts
      <4>3. Brought(w)
        BY <2>0, <4>1, <4>2 DEF ShowsOpen
      <4> QED
        BY <1>1, <4>3 DEF Brought, Coming, LastEventIs, SentOff, Settled
    <3> QED
      BY <3>1, <3>2
  <2>4. ASSUME NEW w \in NewestItems(c)' PROVE (Shown(w) \/ SentOff(w) \/ UnderWay(w))'
    <3>0. PICK d \in Conversations : d = c
      BY <2>0
    <3>5. w \in NewestItems(d)'
      BY <1>1, <2>4, <3>0 DEF NewestItems
    <3>1. ASSUME Shown(w) \/ SentOff(w) \/ UnderWay(w)
          PROVE  (Shown(w) \/ SentOff(w) \/ UnderWay(w))'
      BY <1>1, <3>1 DEF Shown, SentOff, UnderWay
    <3>2. CASE w # y
      <4>1. w \in NewestItems(c)
        BY <3>0, <3>5, <3>2 DEF Puts
      <4> QED
        BY <2>0, <3>1, <4>1 DEF ShowsOpen
    <3>3. CASE w = y /\ y.version = 0
      <4>1. FirstOf(y) = y
        BY <1>0, <3>3, FirstOfSame DEF Same
      <4> QED
        BY <1>1, <3>3, <4>1 DEF SentOff, FirstOf
    <3>4. CASE w = y /\ y.version # 0
      <4>1. y.conv = d
        BY <3>5, <3>4 DEF Puts, NewestItems
      <4>2. PICK x \in NewestItems(d) : Same(x, y)
        BY <3>5, <3>4, <4>1 DEF Puts
      <4>3. x \in Items
        BY <2>0, <3>0, <4>2 DEF NewestItems
      <4>4. FirstOf(x) = FirstOf(y)
        BY <1>0, <4>2, <4>3, FirstOfSame
      <4>5. Shown(x) => Shown(y)
        BY <4>2 DEF Shown, Same
      <4>6. Shown(x) \/ SentOff(x) \/ UnderWay(x)
        BY <2>0, <3>0, <4>2 DEF ShowsOpen
      <4> QED
        BY <3>1, <3>4, <4>4, <4>5, <4>6 DEF SentOff, UnderWay
    <3> QED
      BY <3>2, <3>3, <3>4
  <2> QED
    BY <1>1, <2>1, <2>2, <2>3, <2>4 DEF ShowsOpen
<1> QED
  BY <1>2, <1>5, <1>6, <1>7 DEF PageInv

LEMMA PageSendStep ==
    ASSUME PageInv, NEW c \in Conversations, NEW own, SendMessage(c, own) PROVE PageInv'
<1>1. /\ changesMade < MaxChanges /\ changesMade' = changesMade + 1
      /\ content' = [content EXCEPT ![c] = @ \cup {NewItem(c)}]
      /\ SaveItem(NewItem(c), own)
  BY DEF SendMessage, SaveItem
<1>2. /\ Puts(NewItem(c)) /\ RowsOnce' /\ content' \in [Conversations -> SUBSET Items]
  BY <1>1, NewRow
<1> QED
  BY <1>1, <1>2, SaveStep

LEMMA ChangeMessageStep ==
    ASSUME PageInv, NEW c \in Conversations, NEW x \in content[c], NEW own,
           ChangeMessage(x, own)
    PROVE  PageInv'
<1>1. /\ changesMade < MaxChanges /\ changesMade' = changesMade + 1
      /\ content' = [content EXCEPT ![x.conv] = Replaced(@, Edited(x))]
      /\ SaveItem(Edited(x), own)
  BY DEF ChangeMessage, Edited, SaveItem
<1>2. /\ Puts(Edited(x)) /\ RowsOnce' /\ content' \in [Conversations -> SUBSET Items]
  BY <1>1, EditedRow
<1> QED
  BY <1>1, <1>2, SaveStep

\* What was emitted is the last event of its message, or the last is yet to be
\* emitted: the page hears of what the message is by now.
LEMMA EmitChangeStep == ASSUME PageInv, NEW x \in pending, EmitChange(x) PROVE PageInv'
<1>0. /\ ChatPageTypeOK /\ RowsOnce /\ NothingOpened /\ CopiesOfRows /\ CatchesUp
      /\ x \in Items /\ events \in Seq(Items)
  BY DEF PageInv, ChatPageTypeOK
<1>1. /\ pending' = pending \ {x}
      /\ events' = IF x.conv \in rooms THEN Append(events, x) ELSE events
      /\ current' => current /\ (x.conv = activeConvId => x.conv \in rooms /\ ~Overtaken(x))
      /\ current' \in BOOLEAN
      /\ UNCHANGED <<content, joining, rooms, connected, activeConvId, messages, loads,
                     answers, changesMade, switches, drops>>
  BY <1>0 DEF EmitChange, pageVars, ChatPageTypeOK
<1> DEFINE n == Len(events) + 1
<1>2. /\ n \in Nat /\ Len(events) \in Nat /\ DOMAIN events = 1 .. Len(events)
      /\ n \in 1 .. n
      /\ x.conv \in rooms => DOMAIN events' = 1 .. n /\ events'[n] = x
      /\ x.conv \notin rooms => DOMAIN events' = DOMAIN events
      /\ \A i \in DOMAIN events : i \in DOMAIN events' /\ events'[i] = events[i]
      /\ events' \in Seq(Items)
  BY <1>0, <1>1
<1>3. \A i \in DOMAIN events' : i \in DOMAIN events \/ (i = n /\ x.conv \in rooms)
  BY <1>2
<1>4. n \notin DOMAIN events /\ \A i \in DOMAIN events : n > i /\ ~(i > n)
  BY <1>2
<1> HIDE DEF n
<1>5. ChatPageTypeOK'
  <2>1. ~ connected' => rooms' = {} /\ events' = << >>
    BY <1>0, <1>1 DEF ChatPageTypeOK
  <2>2. pending' \subseteq Items
    BY <1>0, <1>1 DEF ChatPageTypeOK
  <2> QED
    BY <1>0, <1>1, <1>2, <2>1, <2>2 DEF ChatPageTypeOK
<1>6. RowsOnce' /\ NothingOpened'
  BY <1>0, <1>1 DEF RowsOnce, NothingOpened
<1>7. CopiesOfRows'
  <2>1. InDatabase(x)
    BY <1>0 DEF CopiesOfRows
  <2>2. \A i \in DOMAIN events' : InDatabase(events[i])'
    BY <1>0, <1>1, <1>2, <1>3, <2>1 DEF CopiesOfRows, InDatabase
  <2>3. \A z \in answers' \cup pending' : InDatabase(z)'
    BY <1>0, <1>1 DEF CopiesOfRows, InDatabase
  <2> QED
    BY <2>2, <2>3 DEF CopiesOfRows
<1>8. CatchesUp'
  <2> DEFINE c == activeConvId
  <2> SUFFICES ASSUME current', c # NoneOpen PROVE ShowsOpen'
    BY <1>1 DEF CatchesUp
  <2>0. /\ ShowsOpen /\ c \in Conversations
        /\ x.conv = c => x.conv \in rooms /\ ~Overtaken(x)
        /\ \A w \in content[c] : w \in Items /\ w.conv = c
    BY <1>0, <1>1 DEF CatchesUp, ChatPageTypeOK
  <2>1. (\A z \in messages : z.conv = c /\ InDatabase(z)')  /\ OneOfEach(messages)
    BY <1>1, <2>0 DEF ShowsOpen, InDatabase
  <2>2. ASSUME NEW w \in content[c], Same(w, x) PROVE Coming(w)'
    <3>1. x.conv = c /\ x.conv \in rooms
      BY <2>0, <2>2 DEF Same
    <3>2. CASE w = x
      <4>1. \A j \in DOMAIN events' : ~(j > n)
        BY <1>2, <1>3, <1>4
      <4> QED
        BY <1>2, <3>1, <3>2, <4>1 DEF Coming, LastEventIs
    <3>3. CASE w # x
      BY <1>1, <2>0, <2>2, <3>1, <3>3 DEF Overtaken, Coming
    <3> QED
      BY <3>2, <3>3
  <2>3. ASSUME NEW w \in content[c], ~ Same(w, x), Due(w)' PROVE Brought(w)'
    <3>1. w \in Items /\ w # x /\ FirstOf(w) # x /\ ~ Same(x, w)
      BY <2>0, <2>3, <1>0, FirstOfSame DEF Same
    <3>2. UnderWay(w)' => UnderWay(w)
      BY <1>2, <1>3, <3>1 DEF UnderWay, FirstOf
    <3>3. Due(w)
      BY <1>1, <2>3, <3>2 DEF Due, Shown, NewestItems, Same
    <3>4. CASE w \in pending \/ SentOff(w)
      BY <1>1, <3>1, <3>4 DEF Brought, Coming, SentOff, FirstOf
    <3>5. CASE LastEventIs(w)
      <4>1. PICK i \in DOMAIN events :
                  events[i] = w /\ \A j \in DOMAIN events : j > i => ~Same(events[j], w)
        BY <3>5 DEF LastEventIs
      <4>2. \A j \in DOMAIN events' : j > i => ~Same(events'[j], w)
        BY <1>2, <1>3, <3>1, <4>1
      <4> QED
        BY <1>2, <4>1, <4>2 DEF Brought, Coming, LastEventIs
    <3>6. CASE Settled(w)
      BY <1>1, <1>2, <1>3, <3>1, <3>6 DEF Brought, Settled
    <3>7. Brought(w)
      BY <2>0, <3>3 DEF ShowsOpen
    <3> QED
      BY <3>4, <3>5, <3>6, <3>7 DEF Brought, Coming
  <2>4. ASSUME NEW w \in NewestItems(c) PROVE (Shown(w) \/ SentOff(w) \/ UnderWay(w))'
    <3>1. Shown(w) \/ SentOff(w) \/ UnderWay(w)
      BY <2>0 DEF ShowsOpen
    <3>2. Shown(w) => Shown(w)'
      BY <1>1 DEF Shown, Same
    <3>3. UnderWay(w) => UnderWay(w)'
      BY <1>2 DEF UnderWay, FirstOf
    <3>4. w \in Items /\ w.conv = c
      BY <2>0 DEF NewestItems
    <3>5. FirstOf(w).conv = c
      BY <3>4, FirstOfSame
    <3>6. SentOff(w) /\ FirstOf(w) = x => x.conv \in rooms
      BY <2>0, <3>5
    <3>7. SentOff(w) => SentOff(w)' \/ UnderWay(w)'
      BY <1>1, <1>2, <3>6 DEF SentOff, UnderWay, FirstOf
    <3> QED
      BY <3>1, <3>2, <3>3, <3>7
  <2>5. NewestItems(c)' = NewestItems(c)
    BY <1>1 DEF NewestItems
  <2>6. \A w \in content'[c] : Due(w)' => Brought(w)'
    BY <1>1, <2>2, <2>3 DEF Brought
  <2> QED
    BY <1>1, <2>1, <2>4, <2>5, <2>6 DEF ShowsOpen
<1> QED
  BY <1>5, <1>6, <1>7, <1>8 DEF PageInv

\* Nothing new is shown, and what the page relies on stays, or the page is no
\* longer taken for current.
LEMMA QuietStep ==
    ASSUME PageInv, ChatPageTypeOK', NothingOpened', UNCHANGED <<content, changesMade>>,
           pending' \subseteq pending, answers' \subseteq answers,
           UNCHANGED events \/ events' = << >>,
           current' => current /\ UNCHANGED <<pending, messages, activeConvId, events>>
    PROVE  PageInv'
<1>0. RowsOnce /\ CopiesOfRows /\ CatchesUp
  BY DEF PageInv
<1>1. RowsOnce'
  BY <1>0 DEF RowsOnce
<1>2. CopiesOfRows'
  <2>1. \A i \in DOMAIN events' : i \in DOMAIN events /\ events'[i] = events[i]
    OBVIOUS
  <2> QED
    BY <1>0, <2>1 DEF CopiesOfRows, InDatabase
<1>3. CatchesUp'
  <2> SUFFICES ASSUME current', activeConvId' # NoneOpen PROVE ShowsOpen'
    BY DEF CatchesUp
  <2>1. ShowsOpen /\ UNCHANGED <<pending, messages, activeConvId, events>>
    BY <1>0 DEF CatchesUp
  <2> QED
    BY <2>1 DEF ShowsOpen, InDatabase, Due, Brought, Shown, SentOff, UnderWay, Settled,
                Coming, LastEventIs, NewestItems
<1> QED
  BY <1>1, <1>2, <1>3 DEF PageInv

LEMMA SocketStep ==
    ASSUME PageInv,
           (\E c \in Conversations : OnJoin(c)) \/ Disconnect \/ ServerRestarts \/ Reconnect
    PROVE  PageInv'
<1>0. ChatPageTypeOK /\ NothingOpened
  BY DEF PageInv
<1>1. ASSUME NEW c \in Conversations, OnJoin(c) PROVE PageInv'
  <2>1. ChatPageTypeOK'
    BY <1>0, <1>1 DEF OnJoin, pageVars, ChatPageTypeOK
  <2> QED
    BY <1>0, <1>1, <2>1, QuietStep DEF OnJoin, pageVars, NothingOpened
<1>2. ASSUME drops < MaxDrops, drops' = drops + 1 PROVE drops' \in 0 .. MaxDrops
  BY <1>0, <1>2, ChatPageAssumption DEF ChatPageTypeOK
<1>3. CASE Disconnect
  <2>1. drops' \in 0 .. MaxDrops /\ events' \in Seq(Items) /\ current' \in BOOLEAN
    BY <1>0, <1>2, <1>3 DEF Disconnect, ChatPageTypeOK
  <2>2. ChatPageTypeOK'
    BY <1>0, <1>3, <2>1 DEF Disconnect, pageVars, ChatPageTypeOK
  <2> QED
    BY <1>0, <1>3, <2>2, QuietStep DEF Disconnect, pageVars, NothingOpened
<1>4. CASE ServerRestarts
  <2>1. drops' \in 0 .. MaxDrops /\ events' \in Seq(Items)
    BY <1>0, <1>2, <1>4 DEF ServerRestarts
  <2>2. ChatPageTypeOK'
    BY <1>0, <1>4, <2>1 DEF ServerRestarts, ChatPageTypeOK
  <2> QED
    BY <1>0, <1>4, <2>2, QuietStep DEF ServerRestarts, NothingOpened
<1>5. CASE Reconnect
  <2>1. ChatPageTypeOK'
    BY <1>0, <1>5 DEF Reconnect, pageVars, ChatPageTypeOK
  <2> QED
    BY <1>0, <1>5, <2>1, QuietStep DEF Reconnect, pageVars, NothingOpened
<1> QED
  BY <1>1, <1>3, <1>4, <1>5

LEMMA AskStep ==
    ASSUME PageInv, (\E c \in Conversations : OpenConversation(c)) \/ Tick
                     \/ (\E i \in Slots : ListAnswered(i))
    PROVE  PageInv'
<1>0. /\ ChatPageTypeOK /\ NothingOpened /\ loads \in [Slots -> Loads]
      /\ content \in [Conversations -> SUBSET Items]
  BY DEF PageInv, ChatPageTypeOK
<1>1. ASSUME NEW c \in Conversations, Ask(c) PROVE loads' \in [Slots -> Loads]
  <2>1. PICK i \in Slots : loads' = [loads EXCEPT ![i] = Asked(c)]
    BY <1>1 DEF Ask
  <2>2. Asked(c) \in Loads
    BY DEF Asked, Loads
  <2> QED
    BY <1>0, <2>1, <2>2
<1>2. ASSUME NEW c \in Conversations, OpenConversation(c) PROVE PageInv'
  <2>1. switches' \in 0 .. MaxSwitches
    BY <1>0, <1>2, ChatPageAssumption DEF OpenConversation, ChatPageTypeOK
  <2>2. loads' \in [Slots -> Loads]
    BY <1>1, <1>2 DEF OpenConversation
  <2>3. ChatPageTypeOK'
    BY <1>0, <1>2, <2>1, <2>2 DEF OpenConversation, ChatPageTypeOK
  <2>4. NothingOpened'
    BY <1>2, ChatPageAssumption DEF OpenConversation, NothingOpened
  <2> QED
    BY <1>2, <2>3, <2>4, QuietStep DEF OpenConversation
<1>3. CASE Tick
  <2>1. loads' \in [Slots -> Loads]
    BY <1>0, <1>1, <1>3 DEF Tick, ChatPageTypeOK
  <2>2. ChatPageTypeOK'
    BY <1>0, <1>3, <2>1 DEF Tick, ChatPageTypeOK, serverVars
  <2>3. NothingOpened'
    BY <1>3 DEF Tick, NothingOpened
  <2> QED
    BY <1>3, <2>2, <2>3, QuietStep DEF Tick, serverVars
<1>4. ASSUME NEW i \in Slots, ListAnswered(i) PROVE PageInv'
  <2>1. loads[i].conv \in Conversations
    BY <1>0, <1>4 DEF ListAnswered, Loads, NoLoad
  <2>2. NewestItems(loads[i].conv) \subseteq Items
    BY <1>0, <2>1 DEF NewestItems
  <2>3. loads' \in [Slots -> Loads]
    <3>1. Answered(loads[i].conv, NewestItems(loads[i].conv)) \in Loads
      BY <2>1, <2>2 DEF Answered, Loads
    <3> QED
      BY <1>0, <1>4, <3>1 DEF ListAnswered
  <2>4. ChatPageTypeOK'
    BY <1>0, <1>4, <2>3 DEF ListAnswered, ChatPageTypeOK, serverVars
  <2>5. NothingOpened'
    BY <1>0, <1>4 DEF ListAnswered, NothingOpened, NoLoad, serverVars
  <2> QED
    BY <1>4, <2>4, <2>5, QuietStep DEF ListAnswered, serverVars
<1> QED
  BY <1>2, <1>3, <1>4

\* A reaction is shown before it is saved.
LEMMA ShowGuessStep == ASSUME PageInv, NEW x \in messages, ShowGuess(x) PROVE PageInv'
<1>0. ChatPageTypeOK /\ NothingOpened /\ messages \subseteq Items /\ x \in Items
  BY DEF PageInv, ChatPageTypeOK
<1>1. [x EXCEPT !.version = MaxChanges] \in Items
  BY <1>0, ChatPageAssumption DEF Items
<1>2. messages' \subseteq Items
  BY <1>0, <1>1 DEF ShowGuess, Replaced
<1>3. ChatPageTypeOK'
  BY <1>0, <1>2 DEF ShowGuess, ChatPageTypeOK, serverVars
<1>4. NothingOpened'
  BY <1>0 DEF ShowGuess, NothingOpened
<1> QED
  BY <1>3, <1>4, QuietStep DEF ShowGuess, serverVars

\* What arrives is shown: all but CatchesUp.
LEMMA ShownStep ==
    ASSUME PageInv, messages' \subseteq Items, activeConvId # NoneOpen \/ messages' = messages,
           \/ loads' = loads
           \/ \E i \in Slots : loads' = [loads EXCEPT ![i] = NoLoad],
           answers' \subseteq answers,
           \/ events' = events
           \/ events # << >> /\ events' = Tail(events),
           UNCHANGED <<content, pending, joining, rooms, connected, activeConvId, changesMade,
                       switches, drops>>,
           current' \in BOOLEAN
    PROVE  /\ ChatPageTypeOK' /\ RowsOnce' /\ CopiesOfRows' /\ NothingOpened'
<1>0. /\ RowsOnce /\ CopiesOfRows /\ ChatPageTypeOK /\ NothingOpened /\ events \in Seq(Items)
      /\ loads \in [Slots -> Loads]
  BY DEF PageInv, ChatPageTypeOK
<1>1. /\ loads' \in [Slots -> Loads]
      /\ \A i \in Slots : loads'[i] = loads[i] \/ loads'[i] = NoLoad
  BY <1>0 DEF Loads
<1>2. /\ events' \in Seq(Items)
      /\ \A i \in DOMAIN events' : \E j \in DOMAIN events : events'[i] = events[j]
  <2>1. CASE events' = events
    BY <1>0, <2>1
  <2>2. CASE events # << >> /\ events' = Tail(events)
    <3>1. Len(events) \in Nat /\ Len(events) # 0 /\ Len(events') = Len(events) - 1
          /\ events' \in Seq(Items)
      BY <1>0, <2>2
    <3>2. \A i \in 1 .. Len(events') : i + 1 \in 1 .. Len(events) /\ events'[i] = events[i + 1]
      <4>1. \A i \in 1 .. Len(events') : events'[i] = events[i + 1]
        BY <1>0, <2>2, HeadTailProperties
      <4> QED
        BY <3>1, <4>1
    <3>3. DOMAIN events = 1 .. Len(events) /\ DOMAIN events' = 1 .. Len(events')
      BY <1>0, <3>1
    <3> QED
      BY <3>1, <3>2, <3>3
  <2> QED
    BY <2>1, <2>2
<1>3. ChatPageTypeOK'
  <2>1. ~ connected' => rooms' = {} /\ events' = << >>
    BY <1>0 DEF ChatPageTypeOK
  <2> QED
    BY <1>0, <1>1, <1>2, <2>1 DEF ChatPageTypeOK
<1>4. RowsOnce'
  BY <1>0 DEF RowsOnce
<1>5. CopiesOfRows'
  BY <1>0, <1>2 DEF CopiesOfRows, InDatabase
<1>6. NothingOpened'
  BY <1>0, <1>1 DEF NothingOpened
<1> QED
  BY <1>3, <1>4, <1>5, <1>6

LEMMA AppendedOnce ==
    ASSUME NEW list, list \subseteq Items, NEW x \in Items
    PROVE  /\ Appended(list, x) \subseteq Items /\ Replaced(list, x) \subseteq Items
           /\ \A z \in Appended(list, x) \cup Replaced(list, x) : z \in list \/ z = x
           /\ \A z \in list : ~ Same(z, x) => z \in Appended(list, x) /\ z \in Replaced(list, x)
           /\ \A z \in list : \E w \in Appended(list, x) : Same(w, z)
           /\ \A z \in list : \E w \in Replaced(list, x) : Same(w, z)
           /\ \E w \in Appended(list, x) : Same(w, x)
           /\ (\E z \in list : Same(z, x)) => x \in Replaced(list, x)
           /\ (~ \E z \in list : Same(z, x)) => Replaced(list, x) = list /\ x \in Appended(list, x)
           /\ OneOfEach(list) => OneOfEach(Appended(list, x)) /\ OneOfEach(Replaced(list, x))
<1>1. \A z : Same(x, z) <=> Same(z, x)
  BY DEF Same
<1>2. \A z \in list : (IF Same(x, z) THEN x ELSE z) \in Replaced(list, x)
  BY DEF Replaced
<1>3. \A w \in Replaced(list, x) : (w = x /\ \E z \in list : Same(x, z)) \/ (w \in list /\ ~ Same(x, w))
  BY DEF Replaced
<1>4. \A w \in Appended(list, x) : w \in list \/ (w = x /\ ~ \E y \in list : Same(x, y))
  BY DEF Appended
<1>5. list \subseteq Appended(list, x) /\ \E w \in Appended(list, x) : Same(w, x)
  BY DEF Appended, Same
<1>6. \A z \in list : ~ Same(z, x) => z \in Appended(list, x) /\ z \in Replaced(list, x)
  BY <1>1, <1>2, <1>5
<1>7. /\ \A z \in list : \E w \in Appended(list, x) : Same(w, z)
      /\ \A z \in list : \E w \in Replaced(list, x) : Same(w, z)
  BY <1>2, <1>5 DEF Same
<1>8. (\E z \in list : Same(z, x)) => x \in Replaced(list, x)
  BY <1>1, <1>2
<1>9. (~ \E z \in list : Same(z, x)) => Replaced(list, x) = list /\ x \in Appended(list, x)
  BY <1>1, <1>2, <1>3 DEF Appended
<1>10. OneOfEach(list) => OneOfEach(Appended(list, x)) /\ OneOfEach(Replaced(list, x))
  BY <1>1, <1>3, <1>4 DEF OneOfEach
<1> QED
  BY <1>3, <1>4, <1>5, <1>6, <1>7, <1>8, <1>9, <1>10

LEMMA ListArrivesStep == ASSUME PageInv, NEW i \in Slots, ListArrives(i) PROVE PageInv'
<1>0. /\ ChatPageTypeOK /\ NothingOpened /\ RowsOnce /\ loads[i].at = "answered"
      /\ loads[i] \in Loads /\ content \in [Conversations -> SUBSET Items]
  BY DEF PageInv, ChatPageTypeOK, ListArrives
<1> DEFINE list == loads[i].list
<1>1. /\ list \subseteq Items /\ messages' = list /\ activeConvId # NoneOpen
      /\ activeConvId \in Conversations
  BY <1>0 DEF ListArrives, Loads, NoLoad, NothingOpened, ChatPageTypeOK
<1>2. loads' = [loads EXCEPT ![i] = NoLoad] /\ current' \in BOOLEAN
  BY DEF ListArrives
<1>3. UNCHANGED <<content, pending, joining, rooms, connected, events, answers, activeConvId,
                  changesMade, switches, drops>>
  BY DEF ListArrives, serverVars
<1>4. current' => list = NewestItems(activeConvId) /\ EventsUpToDate(activeConvId)
  BY DEF ListArrives
<1> HIDE DEF list
<1>5. /\ ChatPageTypeOK' /\ RowsOnce' /\ CopiesOfRows' /\ NothingOpened'
  BY <1>1, <1>2, <1>3, ShownStep
<1>6. CatchesUp'
  <2> DEFINE c == activeConvId
  <2> SUFFICES ASSUME current' PROVE ShowsOpen'
    BY DEF CatchesUp
  <2>1. messages' = NewestItems(c) /\ NewestItems(c) \subseteq content[c]
    BY <1>1, <1>4 DEF NewestItems
  <2>2. /\ \A w \in content[c] : w \in Items /\ w.conv = c /\ w.version \in Nat
        /\ \A w, z \in content[c] : Same(w, z) => w = z
    BY <1>0, <1>1 DEF RowsOnce, ChatPageTypeOK, Items, Same
  <2>3. \A z \in messages' : z.conv = c /\ InDatabase(z)'
    <3>1. \A z \in content[c] : z.conv = c /\ \E r \in content[z.conv] : Same(z, r) /\ z.version <= r.version
      BY <2>2 DEF Same
    <3> QED
      BY <1>3, <2>1, <3>1 DEF InDatabase, Same
  <2>4. OneOfEach(messages')
    BY <2>1, <2>2 DEF OneOfEach
  <2>5. ASSUME NEW w \in content[c], Due(w)' PROVE Brought(w)'
    <3>1. CASE Coming(w)
      BY <1>3, <3>1 DEF Brought, Coming, LastEventIs
    <3>2. CASE \A j \in DOMAIN events : ~ Same(events[j], w)
      <4>1. w \in Items /\ w.conv = c
        BY <2>2
      <4>2. ~ UnderWay(w)'
        BY <1>3, <3>2, <4>1, FirstOfSame DEF UnderWay, FirstOf
      <4>3. w \in NewestItems(c)' => w \in NewestItems(c)
        BY <1>3 DEF NewestItems
      <4>4. w \in NewestItems(w.conv)' => w \in NewestItems(c)
        BY <1>3, <4>1 DEF NewestItems
      <4>5. Shown(w)' => w \in messages'
        BY <2>1, <2>2 DEF Shown, Same
      <4>6. w \in messages'
        BY <2>1, <2>5, <4>2, <4>4, <4>5 DEF Due
      <4> QED
        BY <1>3, <3>2, <4>6 DEF Brought, Settled
    <3> QED
      BY <1>4, <3>1, <3>2 DEF EventsUpToDate
  <2>6. \A w \in NewestItems(c) : Shown(w)'
    BY <2>1 DEF Shown, Same
  <2>7. NewestItems(c)' = NewestItems(c)
    BY <1>3 DEF NewestItems
  <2> QED
    BY <1>3, <2>3, <2>4, <2>5, <2>6, <2>7 DEF ShowsOpen
<1> QED
  BY <1>5, <1>6 DEF PageInv

LEMMA AnswerArrivesStep == ASSUME PageInv, NEW x \in answers, AnswerArrives(x) PROVE PageInv'
<1>0. /\ ChatPageTypeOK /\ RowsOnce /\ NothingOpened /\ CopiesOfRows /\ CatchesUp
      /\ messages \subseteq Items /\ x \in Items /\ x.conv \in Conversations
  BY DEF PageInv, ChatPageTypeOK, Items
<1>1. /\ messages' = IF x.version = 0 THEN Appended(messages, x) ELSE Replaced(messages, x)
      /\ answers' = answers \ {x}
      /\ current' => current
      /\ current' /\ messages' # messages =>
            x.conv = activeConvId /\ \E r \in content[x.conv] : Same(r, x) /\ (r = x \/ Coming(r))
      /\ current' \in BOOLEAN
      /\ UNCHANGED <<content, pending, joining, rooms, connected, events, loads, activeConvId,
                     changesMade, switches, drops>>
  BY <1>0 DEF AnswerArrives, serverVars, ChatPageTypeOK
<1>2. activeConvId # NoneOpen
  BY <1>0 DEF NothingOpened
<1>3. messages' \subseteq Items
  BY <1>0, <1>1, AppendedOnce
<1>4. /\ ChatPageTypeOK' /\ RowsOnce' /\ CopiesOfRows' /\ NothingOpened'
  BY <1>1, <1>2, <1>3, ShownStep
<1>5. CASE messages' = messages
  BY <1>1, <1>4, <1>5, QuietStep
<1>6. CASE messages' # messages
  <2> DEFINE c == activeConvId
  <2> SUFFICES ASSUME current' PROVE ShowsOpen'
    BY <1>4 DEF CatchesUp, PageInv
  <2>0. /\ ShowsOpen /\ x.conv = c /\ c \in Conversations
        /\ \A w \in content[c] : w \in Items /\ w.conv = c
    BY <1>0, <1>1, <1>2, <1>6 DEF CatchesUp, ChatPageTypeOK
  <2>1. \A z \in messages' : z \in messages \/ z = x
    BY <1>0, <1>1, AppendedOnce
  <2>2. InDatabase(x) /\ \A z \in messages : z.conv = c /\ InDatabase(z)
    BY <1>0, <2>0 DEF CopiesOfRows, ShowsOpen
  <2>3. \A z \in messages' : z.conv = c /\ InDatabase(z)'
    <3>1. \A z : InDatabase(z)' <=> InDatabase(z)
      BY <1>1 DEF InDatabase, Same
    <3> QED
      BY <2>0, <2>1, <2>2, <3>1
  <2>4. OneOfEach(messages')
    BY <1>0, <1>1, <2>0, AppendedOnce DEF ShowsOpen
  <2>5. ASSUME NEW w \in content[c], Due(w)' PROVE Brought(w)'
    <3>0. w \in Items /\ w.conv = c
      BY <2>0
    <3>1. (w \in NewestItems(w.conv)' => w \in NewestItems(w.conv)) /\ (UnderWay(w)' => UnderWay(w))
      BY <1>1 DEF NewestItems, UnderWay, FirstOf
    <3>2. Due(w) => Brought(w)
      BY <2>0 DEF ShowsOpen
    <3>3. Coming(w) => Coming(w)'
      BY <1>1 DEF Coming, LastEventIs
    <3>4. CASE ~ Same(w, x)
      <4>1. Shown(w)' => Shown(w)
        BY <2>1, <3>4 DEF Shown, Same
      <4>2. Brought(w)
        BY <2>5, <3>1, <3>2, <4>1 DEF Due
      <4>3. w \in messages => w \in messages'
        BY <1>0, <1>1, <3>4, AppendedOnce
      <4> QED
        BY <1>1, <3>3, <4>2, <4>3 DEF Brought, SentOff, Settled
    <3>5. CASE Same(w, x) /\ Coming(w)
      BY <3>3, <3>5 DEF Brought
    <3>6. CASE Same(w, x) /\ ~ Coming(w)
      <4>1. w = x
        <5>1. PICK r \in content[c] : Same(r, x) /\ (r = x \/ Coming(r))
          BY <1>1, <1>6, <2>0
        <5>2. r = w
          BY <1>0, <2>0, <3>6, <5>1 DEF RowsOnce, Same
        <5> QED
          BY <3>6, <5>1, <5>2
      <4>2. w \in messages'
        <5>1. CASE x.version = 0
          <6>1. ~ \E z \in messages : Same(z, x)
            BY <1>1, <1>6, <5>1 DEF Appended, Same
          <6> QED
            BY <1>0, <1>1, <4>1, <5>1, <6>1, AppendedOnce
        <5>2. CASE x.version # 0
          <6>1. \E z \in messages : Same(z, x)
            BY <1>0, <1>1, <1>6, <5>2, AppendedOnce
          <6> QED
            BY <1>0, <1>1, <4>1, <5>2, <6>1, AppendedOnce
        <5> QED
          BY <5>1, <5>2
      <4>3. (\E i \in DOMAIN events : Same(events[i], w)) => Brought(w)
        <5>1. ASSUME NEW i \in DOMAIN events, Same(events[i], w) PROVE Due(w)
          <6>1. CASE x.version # 0
            <7>1. \E z \in messages : Same(z, x)
              BY <1>0, <1>1, <1>6, <6>1, AppendedOnce
            <7> QED
              BY <4>1, <7>1 DEF Due, Shown
          <6>2. CASE x.version = 0
            <7>1. events[i] \in Items /\ InDatabase(events[i])
              BY <1>0, <5>1 DEF ChatPageTypeOK, CopiesOfRows
            <7>2. events[i].conv = c
              BY <3>0, <5>1 DEF Same
            <7>3. PICK r \in content[c] : Same(events[i], r) /\ events[i].version <= r.version
              BY <7>2, <7>1 DEF InDatabase
            <7>4. r = w
              <8>1. r.num = w.num
                BY <5>1, <7>3 DEF Same
              <8> QED
                BY <1>0, <2>0, <7>3, <8>1 DEF RowsOnce
            <7>5. events[i].version = 0
              BY <4>1, <6>2, <7>1, <7>3, <7>4 DEF Items
            <7>6. events[i] = FirstOf(w)
              BY <3>0, <5>1, <7>1, <7>5, FirstOfSame
            <7> QED
              BY <7>6 DEF Due, UnderWay
          <6> QED
            BY <6>1, <6>2
        <5> QED
          BY <3>2, <5>1
      <4>4. CASE \E i \in DOMAIN events : Same(events[i], w)
        <5>1. SentOff(w)
          BY <3>6, <4>3, <4>4 DEF Brought, Settled
        <5> QED
          BY <1>1, <5>1 DEF Brought, SentOff
      <4>5. CASE ~ \E i \in DOMAIN events : Same(events[i], w)
        BY <1>1, <4>2, <4>5 DEF Brought, Settled
      <4> QED
        BY <4>4, <4>5
    <3> QED
      BY <3>4, <3>5, <3>6
  <2>6. ASSUME NEW w \in NewestItems(c) PROVE (Shown(w) \/ SentOff(w) \/ UnderWay(w))'
    <3>1. Shown(w) \/ SentOff(w) \/ UnderWay(w)
      BY <2>0 DEF ShowsOpen
    <3>2. ASSUME NEW z \in messages, Same(z, w) PROVE Shown(w)'
      <4>1. \E v \in messages' : Same(v, z)
        BY <1>0, <1>1, AppendedOnce
      <4> QED
        BY <3>2, <4>1 DEF Shown, Same
    <3> QED
      BY <1>1, <3>1, <3>2 DEF Shown, SentOff, UnderWay
  <2>7. NewestItems(c)' = NewestItems(c)
    BY <1>1 DEF NewestItems
  <2> QED
    BY <1>1, <2>3, <2>4, <2>5, <2>6, <2>7 DEF ShowsOpen
<1> QED
  BY <1>5, <1>6

LEMMA HandleEventStep == ASSUME PageInv, HandleEvent PROVE PageInv'
<1> DEFINE x == events[1]
<1>0. /\ ChatPageTypeOK /\ CopiesOfRows /\ CatchesUp /\ RowsOnce /\ messages \subseteq Items
      /\ events \in Seq(Items) /\ events # << >>
      /\ content \in [Conversations -> SUBSET Items]
  BY DEF PageInv, ChatPageTypeOK, HandleEvent
<1>1. /\ Len(events) \in Nat /\ Len(events) # 0 /\ x \in Items /\ Len(events') = Len(events) - 1
      /\ \A i \in 1 .. Len(events') : events'[i] = events[i + 1]
      /\ x = Head(events) /\ events' = Tail(events) /\ events' \in Seq(Items)
      /\ DOMAIN events = 1 .. Len(events) /\ DOMAIN events' = 1 .. Len(events')
  BY <1>0, HeadTailProperties DEF HandleEvent
<1>2. messages' = IF x.conv # activeConvId THEN messages
                  ELSE IF x.version = 0 THEN Appended(messages, x) ELSE Replaced(messages, x)
  BY <1>1 DEF HandleEvent
<1>3. UNCHANGED <<content, pending, joining, rooms, connected, activeConvId, loads, answers,
                  changesMade, switches, drops, current>>
  BY DEF HandleEvent
\* An event but the first is one place nearer to being handled.
<1>4. /\ 1 \in DOMAIN events
      /\ \A i \in DOMAIN events : i = 1 \/ (i - 1 \in DOMAIN events' /\ events'[i - 1] = events[i])
      /\ \A i \in DOMAIN events' : i + 1 \in DOMAIN events /\ i + 1 # 1 /\ events'[i] = events[i + 1]
      /\ \A i, j \in DOMAIN events' : j > i => j + 1 > i + 1
      /\ \A i \in DOMAIN events : i # 1 => i > 1
  <2>1. \A i \in 2 .. Len(events) : i - 1 \in 1 .. Len(events') /\ (i - 1) + 1 = i
    BY <1>1
  <2> QED
    BY <1>1, <2>1
<1>5. InDatabase(x)
  BY <1>0, <1>4 DEF CopiesOfRows
<1>6. events[1] = x
  OBVIOUS
<1> HIDE DEF x
<1>7. activeConvId = NoneOpen => messages' = messages
  <2>1. x.conv \in Conversations
    BY <1>1 DEF Items
  <2> QED
    BY <1>2, <2>1, ChatPageAssumption
<1>8. messages' \subseteq Items /\ \A z \in messages' : z \in messages \/ (z = x /\ x.conv = activeConvId)
  BY <1>0, <1>1, <1>2, AppendedOnce
<1>9. /\ ChatPageTypeOK' /\ RowsOnce' /\ CopiesOfRows' /\ NothingOpened'
  <2>1. current' \in BOOLEAN
    BY <1>0, <1>3 DEF ChatPageTypeOK
  <2> QED
    BY <1>0, <1>1, <1>3, <1>7, <1>8, <2>1, ShownStep
<1>10. CatchesUp'
  <2> DEFINE c == activeConvId
  <2> SUFFICES ASSUME current, c # NoneOpen PROVE ShowsOpen'
    BY <1>3 DEF CatchesUp
  <2>0. /\ ShowsOpen /\ c \in Conversations
        /\ \A w \in content[c] : w \in Items /\ w.conv = c
    BY <1>0 DEF CatchesUp, ChatPageTypeOK
  <2>1. \A z \in messages' : z.conv = c /\ InDatabase(z)'
    <3>1. \A z : InDatabase(z)' <=> InDatabase(z)
      BY <1>3 DEF InDatabase, Same
    <3> QED
      BY <1>5, <1>8, <2>0, <3>1 DEF ShowsOpen
  <2>2. OneOfEach(messages')
    BY <1>0, <1>1, <1>2, <2>0, AppendedOnce DEF ShowsOpen
  <2>3. ASSUME NEW w \in Items, Shown(w) PROVE Shown(w)'
    <3>1. PICK z \in messages : Same(z, w)
      BY <2>3 DEF Shown
    <3>2. \E v \in messages' : Same(v, z)
      <4>1. Same(z, z)
        BY DEF Same
      <4> QED
        BY <1>0, <1>1, <1>2, <4>1, AppendedOnce
    <3> QED
      BY <3>1, <3>2 DEF Shown, Same
  <2>4. ASSUME NEW w \in Items, UnderWay(w)
        PROVE  UnderWay(w)' \/ (x = FirstOf(w))
    BY <1>4, <1>6, <2>4 DEF UnderWay, FirstOf
  <2>5. ASSUME NEW w \in content[c], x = FirstOf(w) PROVE Shown(w)'
    <3>1. w \in Items /\ Same(x, w) /\ x.version = 0 /\ x.conv = c
      BY <2>0, <2>5, FirstOfSame
    <3>2. \E v \in messages' : Same(v, x)
      BY <1>0, <1>1, <1>2, <3>1, AppendedOnce
    <3> QED
      BY <3>1, <3>2 DEF Shown, Same
  <2>6. ASSUME NEW w \in content[c], UnderWay(w)' PROVE UnderWay(w)
    BY <1>4, <2>6 DEF UnderWay, FirstOf
  <2>7. ASSUME NEW w \in content[c], Coming(w), ~ Coming(w)'
        PROVE  /\ w = x /\ \A i \in DOMAIN events' : ~ Same(events'[i], w)
    <3>1. PICK i \in DOMAIN events :
                events[i] = w /\ \A j \in DOMAIN events : j > i => ~Same(events[j], w)
      BY <1>3, <2>7 DEF Coming, LastEventIs
    <3>2. CASE i = 1
      BY <1>4, <1>6, <3>1, <3>2
    <3>3. CASE i # 1
      <4>1. i - 1 \in DOMAIN events' /\ events'[i - 1] = w
        BY <1>4, <3>1, <3>3
      <4>2. ASSUME NEW j \in DOMAIN events', j > i - 1 PROVE ~ Same(events'[j], w)
        <5>1. j + 1 \in DOMAIN events /\ events'[j] = events[j + 1] /\ j + 1 > i
          BY <1>1, <1>4, <3>1, <4>2
        <5> QED
          BY <3>1, <5>1
      <4> QED
        BY <2>7, <4>1, <4>2 DEF Coming, LastEventIs
    <3> QED
      BY <3>2, <3>3
  <2>8. ASSUME NEW w \in content[c], Due(w)' PROVE Brought(w)'
    <3>0. w \in Items /\ w.conv = c
      BY <2>0
    <3>1. w \in NewestItems(w.conv)' => w \in NewestItems(w.conv)
      BY <1>3 DEF NewestItems
    <3>2. Due(w) => Brought(w)
      BY <2>0 DEF ShowsOpen
    <3>3. Due(w)
      <4>1. ASSUME NEW z \in messages', Same(z, w) PROVE Shown(w) \/ UnderWay(w)
        <5>1. CASE z \in messages
          BY <4>1, <5>1 DEF Shown
        <5>2. CASE z \notin messages
          <6>1. z = x /\ x.conv = c
            BY <1>8, <5>2
          <6>2. CASE x.version = 0
            <7>1. x = FirstOf(w)
              BY <1>1, <3>0, <4>1, <6>1, <6>2, FirstOfSame
            <7> QED
              BY <1>4, <1>6, <7>1 DEF UnderWay
          <6>3. CASE x.version # 0
            <7>1. \E v \in messages : Same(v, x)
              BY <1>0, <1>1, <1>2, <5>2, <6>1, <6>3, AppendedOnce
            <7> QED
              BY <4>1, <6>1, <7>1 DEF Shown, Same
          <6> QED
            BY <6>2, <6>3
        <5> QED
          BY <5>1, <5>2
      <4> QED
        BY <2>6, <2>8, <3>1, <4>1 DEF Due, Shown
    <3>4. CASE SentOff(w)
      BY <1>3, <3>4 DEF Brought, SentOff
    <3>5. CASE Settled(w)
      <4>1. ~ Same(w, x)
        BY <1>4, <1>6, <3>5 DEF Settled, Same
      <4>2. w \in messages'
        BY <1>0, <1>1, <1>2, <3>5, <4>1, AppendedOnce DEF Settled
      <4> QED
        BY <1>4, <3>5, <4>2 DEF Brought, Settled
    <3>6. CASE Coming(w) /\ ~ Coming(w)' /\ ~ SentOff(w)
      <4>1. w = x /\ \A i \in DOMAIN events' : ~ Same(events'[i], w)
        BY <2>7, <3>6
      <4>2. x.version # 0 => \E z \in messages : Same(z, x)
        <5>1. ASSUME x.version # 0 PROVE ~ UnderWay(w)
          <6>1. FirstOf(w) # x /\ Same(FirstOf(w), w)
            BY <3>0, <5>1, FirstOfSame
          <6> QED
            BY <1>4, <1>6, <4>1, <6>1 DEF UnderWay
        <5>2. w \in NewestItems(c) => Shown(w) \/ SentOff(w) \/ UnderWay(w)
          BY <2>0 DEF ShowsOpen
        <5>3. x.version # 0 => Shown(w)
          BY <3>0, <3>3, <3>6, <5>1, <5>2 DEF Due
        <5> QED
          BY <4>1, <5>3 DEF Shown
      <4>3. x.version = 0 => x \in messages'
        <5>1. ASSUME x.version = 0, NEW z \in messages, Same(z, x) PROVE z = x
          <6>1. z \in Items /\ InDatabase(z) /\ z.conv = c
            BY <1>0, <2>0, <5>1 DEF ShowsOpen
          <6>2. PICK r \in content[c] : Same(z, r) /\ z.version <= r.version
            BY <6>1 DEF InDatabase
          <6>3. r = w
            <7>1. r.num = w.num
              BY <4>1, <5>1, <6>2 DEF Same
            <7> QED
              BY <1>0, <2>0, <6>2, <7>1 DEF RowsOnce
          <6>4. z.version = 0
            BY <4>1, <5>1, <6>1, <6>2, <6>3 DEF Items
          <6> QED
            BY <1>1, <5>1, <6>1, <6>4, FirstOfSame
        <5>2. x.version = 0 => x \in Appended(messages, x)
          <6>1. CASE \E z \in messages : Same(z, x)
            <7>1. x.version = 0 => x \in messages
              BY <5>1, <6>1
            <7> QED
              BY <7>1 DEF Appended
          <6>2. CASE ~ \E z \in messages : Same(z, x)
            BY <1>0, <1>1, <6>2, AppendedOnce
          <6> QED
            BY <6>1, <6>2
        <5> QED
          BY <1>2, <3>0, <4>1, <5>2
      <4>4. x.version # 0 => x \in messages'
        BY <1>0, <1>1, <1>2, <3>0, <4>1, <4>2, AppendedOnce
      <4> QED
        BY <4>1, <4>3, <4>4 DEF Brought, Settled
    <3> QED
      BY <3>2, <3>3, <3>4, <3>5, <3>6 DEF Brought
  <2>9. ASSUME NEW w \in NewestItems(c) PROVE (Shown(w) \/ SentOff(w) \/ UnderWay(w))'
    <3>1. w \in content[c] /\ w \in Items
      BY <2>0 DEF NewestItems
    <3>2. Shown(w) \/ SentOff(w) \/ UnderWay(w)
      BY <2>0 DEF ShowsOpen
    <3>3. SentOff(w) => SentOff(w)'
      BY <1>3 DEF SentOff, FirstOf
    <3> QED
      BY <2>3, <2>4, <2>5, <3>1, <3>2, <3>3
  <2>10. NewestItems(c)' = NewestItems(c)
    BY <1>3 DEF NewestItems
  <2> QED
    BY <1>3, <2>1, <2>2, <2>8, <2>9, <2>10 DEF ShowsOpen
<1> QED
  BY <1>9, <1>10 DEF PageInv

LEMMA PageStep == PageInv /\ [NextChatPage]_chatPageVars => PageInv'
<1> SUFFICES ASSUME PageInv, [NextChatPage]_chatPageVars PROVE PageInv'
  OBVIOUS
<1>1. ASSUME NEW c \in Conversations, OnJoin(c) \/ OpenConversation(c) PROVE PageInv'
  BY <1>1, SocketStep, AskStep
<1>2. ASSUME NEW c \in Conversations, NEW own \in BOOLEAN, SendMessage(c, own) PROVE PageInv'
  BY <1>2, PageSendStep
<1>3. ASSUME NEW c \in Conversations, NEW own \in BOOLEAN, NEW x \in content[c],
             ChangeMessage(x, own)
      PROVE  PageInv'
  BY <1>3, ChangeMessageStep
<1>4. ASSUME NEW x \in pending, EmitChange(x) PROVE PageInv'
  BY <1>4, EmitChangeStep
<1>5. ASSUME Disconnect \/ ServerRestarts \/ Reconnect \/ Tick \/ HandleEvent PROVE PageInv'
  BY <1>5, SocketStep, AskStep, HandleEventStep
<1>6. ASSUME NEW i \in Slots, ListAnswered(i) \/ ListArrives(i) PROVE PageInv'
  BY <1>6, AskStep, ListArrivesStep
<1>7. ASSUME NEW x \in messages, ShowGuess(x) PROVE PageInv'
  BY <1>7, ShowGuessStep
<1>8. ASSUME NEW x \in answers, AnswerArrives(x) PROVE PageInv'
  BY <1>8, AnswerArrivesStep
<1>9. CASE UNCHANGED chatPageVars
  <2>1. UNCHANGED <<content, pending, activeConvId, messages, loads, answers, events, joining,
                    rooms>>
    BY <1>9 DEF chatPageVars, serverVars, pageVars
  <2>2. UNCHANGED <<connected, changesMade, switches, drops, current>>
    BY <1>9 DEF chatPageVars, serverVars, pageVars
  <2>3. ChatPageTypeOK /\ NothingOpened
    BY DEF PageInv
  <2>4. ChatPageTypeOK'
    BY <2>1, <2>2, <2>3 DEF ChatPageTypeOK
  <2>5. NothingOpened'
    BY <2>1, <2>3 DEF NothingOpened
  <2> QED
    BY <2>1, <2>2, <2>4, <2>5, QuietStep
<1> QED
  BY <1>1, <1>2, <1>3, <1>4, <1>5, <1>6, <1>7, <1>8, <1>9 DEF NextChatPage

LEMMA PageInvariant == SpecChatPage => []PageInv
BY PageInit, PageStep, PTL DEF SpecChatPage

\* What is shown, asked for, under way and stored are messages, and a socket
\* that is disconnected is in no room.
THEOREM PageTypeCorrect == SpecChatPage => []ChatPageTypeOK
BY PageInvariant, PTL DEF PageInv

\* However the queries, the emissions, the answers and the lists meet: unless
\* an event of the open conversation missed the page or came after a later one
\* of its message, the page shows the newest messages, and all it shows, as
\* they are, once what was saved is emitted and handled.
THEOREM PageCurrent == SpecChatPage => []LivePageIsCurrent
<1>1. PageInv => LivePageIsCurrent
  <2> SUFFICES ASSUME PageInv, current, events = << >>,
                      \A x \in pending : x.conv # activeConvId
               PROVE  IF activeConvId = NoneOpen THEN messages = {}
                      ELSE /\ NewestItems(activeConvId) \subseteq messages
                           /\ messages \subseteq content[activeConvId]
    BY DEF LivePageIsCurrent
  <2>1. CASE activeConvId = NoneOpen
    BY <2>1 DEF PageInv, NothingOpened
  <2>2. CASE activeConvId # NoneOpen
    <3>1. ShowsOpen /\ activeConvId \in Conversations
      BY <2>2 DEF PageInv, CatchesUp, ChatPageTypeOK
    <3>2. ASSUME NEW w \in content[activeConvId], Due(w) PROVE w \in messages
      <4>1. w \in Items /\ w.conv = activeConvId
        BY <3>1 DEF PageInv, ChatPageTypeOK
      <4>2. ~ SentOff(w) /\ ~ Coming(w)
        BY <4>1, FirstOfSame DEF SentOff, Coming, LastEventIs
      <4> QED
        BY <3>1, <3>2, <4>2 DEF ShowsOpen, Brought, Settled
    <3>3. ASSUME NEW w \in NewestItems(activeConvId) PROVE w \in messages
      <4>1. w \in content[activeConvId] /\ w.conv = activeConvId
        BY <3>1 DEF NewestItems, PageInv, ChatPageTypeOK
      <4> QED
        BY <3>2, <4>1 DEF Due
    <3>4. ASSUME NEW z \in messages PROVE z \in content[activeConvId]
      <4>1. PICK x \in content[activeConvId] : Same(z, x)
        BY <3>1 DEF ShowsOpen, InDatabase
      <4>2. x \in messages
        BY <3>2, <4>1 DEF Due, Shown
      <4> QED
        BY <3>1, <4>1, <4>2 DEF ShowsOpen, OneOfEach
    <3> QED
      BY <2>2, <3>3, <3>4
  <2> QED
    BY <2>1, <2>2
<1> QED
  BY <1>1, PageInvariant, PTL
=============================================================================
