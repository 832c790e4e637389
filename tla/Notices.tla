------------------------------ MODULE Notices ------------------------------
(***************************************************************************)
(* The announcements of a school and the notifications they make:          *)
(* announcements.service.ts and notifications.service.ts.  An edit reads   *)
(* the row, changes the copy and saves it; only then is the audience told, *)
(* by one row of notifications whose failure is swallowed.  There is no    *)
(* transaction, so any step of another request may fall in between.        *)
(***************************************************************************)
EXTENDS Naturals, FiniteSets

CONSTANTS
    Announcements,      \* the announcements there may be a row of
    Announcers,         \* requests about announcements that may be in progress
    Readers,            \* requests that mark notifications as read
    MaxAnnouncing,      \* bound: requests about announcements begun
    MaxNotices,         \* bound: rows of notifications ever inserted
    NoAnnouncement      \* what a notification sent for its own sake is about

ASSUME NoticesAssumption ==
    /\ MaxAnnouncing \in Nat
    /\ MaxNotices \in Nat
    /\ NoAnnouncement \notin Announcements

NoticeIds == 1 .. MaxNotices
Written == {"draft", "live"}

VARIABLES
    announcement,    \* per announcement: "none", "draft", "live" or "removed"
    announcing,      \* per request: the copy it is about to save, or to tell of
    announced,       \* number of requests begun
    notice,          \* per notification: "none", "unread", "read" or "removed"
    about,           \* per notification: the announcement it tells of
    marking,         \* per reader: the notifications it is about to save as read
    publications,    \* per announcement: how often it went live (history)
    asked,           \* per announcement: edits of its contents while live, saved,
                     \* that asked to tell its audience again (history)
    staleEdits,      \* announcements edited from a stale copy, maybe (history)
    untold           \* announcements of which a notification was lost (history)

noticeVars ==
    <<announcement, announcing, announced, notice, about, marking,
      publications, asked, staleEdits, untold>>

NotAnnouncing == [at |-> "idle"]
Announcing(at, a, copy, tells, asks) ==
    [at |-> at, of |-> a, copy |-> copy, tells |-> tells, asks |-> asks]

NoticesTypeOK ==
    /\ announcement \in [Announcements -> Written \cup {"none", "removed"}]
    /\ announcing \in [Announcers -> {NotAnnouncing} \cup
          [at : {"saving", "telling"}, of : Announcements, copy : Written,
           tells : BOOLEAN, asks : BOOLEAN]]
    /\ announced \in 0 .. MaxAnnouncing
    /\ notice \in [NoticeIds -> {"none", "unread", "read", "removed"}]
    /\ about \in [NoticeIds -> Announcements \cup {NoAnnouncement}]
    /\ marking \in [Readers -> SUBSET NoticeIds]
    /\ publications \in [Announcements -> 0 .. MaxAnnouncing]
    /\ asked \in [Announcements -> Nat]
    /\ staleEdits \subseteq Announcements
    /\ untold \subseteq Announcements

InitNotices ==
    /\ announcement = [a \in Announcements |-> "none"]
    /\ announcing = [p \in Announcers |-> NotAnnouncing]
    /\ announced = 0
    /\ notice = [n \in NoticeIds |-> "none"]
    /\ about = [n \in NoticeIds |-> NoAnnouncement]
    /\ marking = [r \in Readers |-> {}]
    /\ publications = [a \in Announcements |-> 0]
    /\ asked = [a \in Announcements |-> 0]
    /\ staleEdits = {}
    /\ untold = {}

boardVars == <<notice, about, marking>>

\* Requests at work on an announcement.
RequestsAt(stage, a) ==
    {p \in Announcers : /\ announcing[p].at = stage
                        /\ announcing[p].of = a}

Begin(p) ==
    /\ announcing[p] = NotAnnouncing
    /\ announced < MaxAnnouncing
    /\ announced' = announced + 1

StaleEditsBy(a) == IF RequestsAt("saving", a) = {} THEN staleEdits ELSE staleEdits \cup {a}

Publications(a, copy) ==
    IF copy = "live" /\ announcement[a] # "live"
    THEN [publications EXCEPT ![a] = @ + 1] ELSE publications

\* create: the row is inserted, and its audience told next if it is published.
CreateAnnouncement(p, a, copy) ==
    /\ Begin(p)
    /\ announcement[a] = "none"
    /\ announcement' = [announcement EXCEPT ![a] = copy]
    /\ publications' = Publications(a, copy)
    /\ announcing' = [announcing EXCEPT
          ![p] = IF copy = "live" THEN Announcing("telling", a, copy, TRUE, FALSE) ELSE @]
    /\ UNCHANGED <<boardVars, asked, staleEdits, untold>>

\* findOne, and the change of the copy.
ReadAnnouncement(p, a, copy, tells, asks) ==
    /\ Begin(p)
    /\ announcement[a] \in Written
    /\ announcing' = [announcing EXCEPT ![p] = Announcing("saving", a, copy, tells, asks)]
    /\ staleEdits' = StaleEditsBy(a)
    /\ UNCHANGED <<announcement, boardVars, publications, asked, untold>>

\* update: `publish: true` publishes a draft and leaves a live one as it is.
UpdateAnnouncement(p, a, publish, changes) ==
    ReadAnnouncement(p, a, IF publish THEN "live" ELSE announcement[a],
                     publish /\ announcement[a] = "draft",
                     publish /\ changes /\ announcement[a] = "live")

\* Mutant of PublishAnnouncement: a live one is published, and told of, again.
PublishAnnouncementAgain(p, a) == ReadAnnouncement(p, a, "live", TRUE, FALSE)

\* publish: answers at once if the row is live.
PublishAnnouncement(p, a) ==
    /\ announcement[a] = "draft"
    /\ ReadAnnouncement(p, a, "live", TRUE, FALSE)

\* unpublish: a draft is refused.
UnpublishAnnouncement(p, a) ==
    /\ announcement[a] = "live"
    /\ ReadAnnouncement(p, a, "draft", FALSE, FALSE)

\* save: the row becomes the copy, also if it was removed meanwhile, because
\* the copy has no deleted_at.
SaveAnnouncement(p) ==
    LET v == announcing[p] IN
    /\ v.at = "saving"
    /\ announcement' = [announcement EXCEPT ![v.of] = v.copy]
    /\ publications' = Publications(v.of, v.copy)
    /\ asked' = IF v.asks THEN [asked EXCEPT ![v.of] = @ + 1] ELSE asked
    /\ announcing' = [announcing EXCEPT
          ![p] = IF v.tells THEN [v EXCEPT !.at = "telling"] ELSE NotAnnouncing]
    /\ UNCHANGED <<announced, boardVars, staleEdits, untold>>

\* remove: a soft removal, which touches nothing but deleted_at.
RemoveAnnouncement(a) ==
    /\ announcement[a] \in Written
    /\ announcement' = [announcement EXCEPT ![a] = "removed"]
    /\ staleEdits' = StaleEditsBy(a)
    /\ UNCHANGED <<announcing, announced, boardVars, publications, asked, untold>>

\* send.
SendNotice(n, a) ==
    /\ notice[n] = "none"
    /\ \A m \in NoticeIds : m < n => notice[m] # "none"
    /\ notice' = [notice EXCEPT ![n] = "unread"]
    /\ about' = [about EXCEPT ![n] = a]
    /\ UNCHANGED marking

\* notifyAudience.
NotifyAudience(p, n) ==
    /\ announcing[p].at = "telling"
    /\ SendNotice(n, announcing[p].of)
    /\ announcing' = [announcing EXCEPT ![p] = NotAnnouncing]
    /\ UNCHANGED <<announcement, announced, publications, asked, staleEdits, untold>>

\* notifyAudience swallows the failure of send; or the request is lost.
LoseAnnouncing(p) ==
    /\ announcing[p] # NotAnnouncing
    /\ untold' = IF announcing[p].at = "telling"
                 THEN untold \cup {announcing[p].of} ELSE untold
    /\ announcing' = [announcing EXCEPT ![p] = NotAnnouncing]
    /\ UNCHANGED <<announcement, announced, boardVars, publications, asked, staleEdits>>

announcementVars ==
    <<announcement, announcing, announced, publications, asked, staleEdits, untold>>

\* POST /notifications, and the chat, send notifications of their own.
SendNotification(n) == SendNotice(n, NoAnnouncement) /\ UNCHANGED announcementVars

\* markRead finds one unread row, markAllRead those the user may see.
MarkNoticesRead(r, seen) ==
    /\ marking[r] = {}
    /\ seen # {}
    /\ \A n \in seen : notice[n] = "unread"
    /\ marking' = [marking EXCEPT ![r] = seen]
    /\ UNCHANGED <<announcementVars, notice, about>>

\* save: an UPDATE, or an INSERT of a row that was removed meanwhile.
SaveMarks(r) ==
    /\ marking[r] # {}
    /\ notice' = [n \in NoticeIds |-> IF n \in marking[r] THEN "read" ELSE notice[n]]
    /\ marking' = [marking EXCEPT ![r] = {}]
    /\ UNCHANGED <<announcementVars, about>>

\* remove.
RemoveNotification(n) ==
    /\ notice[n] \in {"unread", "read"}
    /\ notice' = [notice EXCEPT ![n] = "removed"]
    /\ UNCHANGED <<announcementVars, about, marking>>

NextNotices ==
    \/ \E p \in Announcers, a \in Announcements :
          \/ \E copy \in Written : CreateAnnouncement(p, a, copy)
          \/ \E publish, changes \in BOOLEAN : UpdateAnnouncement(p, a, publish, changes)
          \/ PublishAnnouncement(p, a)
          \/ UnpublishAnnouncement(p, a)
    \/ \E p \in Announcers : SaveAnnouncement(p) \/ LoseAnnouncing(p)
    \/ \E p \in Announcers, n \in NoticeIds : NotifyAudience(p, n)
    \/ \E a \in Announcements : RemoveAnnouncement(a)
    \/ \E n \in NoticeIds : SendNotification(n) \/ RemoveNotification(n)
    \/ \E r \in Readers, seen \in SUBSET NoticeIds : MarkNoticesRead(r, seen)
    \/ \E r \in Readers : SaveMarks(r)

SpecNotices == InitNotices /\ [][NextNotices]_noticeVars

-----------------------------------------------------------------------------
(* Properties.                                                             *)

Told(a) == {n \in NoticeIds : about[n] = a}

\* How often an audience was told of an announcement, or is about to be.
Tellings(a) == Cardinality(Told(a)) + Cardinality(RequestsAt("telling", a))

\* No announcement is live without its audience having been told, or being
\* told, except if the notification was lost: also not by an edit that began
\* while it was live and is saved after it was unpublished or removed.
\* And as long as nobody saves a stale copy, the audience is told once per
\* publication, however often it is edited or published again; only edits that
\* ask for it may tell it again: the comment of update, "notifies again only
\* when content changed AND the caller asked for it", says they do, and the
\* code does not.
PublicationIsTold ==
    \A a \in Announcements \ untold :
        /\ announcement[a] = "live" => Told(a) # {} \/ RequestsAt("telling", a) # {}
        /\ a \notin staleEdits =>
              Tellings(a) \in publications[a] .. publications[a] + asked[a]
=============================================================================
