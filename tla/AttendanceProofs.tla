--------------------------- MODULE AttendanceProofs ---------------------------
(***************************************************************************)
(* Theorems about Attendance, for any contacts, requests and agendas:      *)
(* every variable keeps its type, the badges that were handed out scan, a  *)
(* form submission loses nothing, and an answer entered at the dashboard   *)
(* reaches the appointment it is about.                                    *)
(***************************************************************************)
EXTENDS Attendance, FiniteSetTheorems, TLAPS

\* The stages at which a request is about a contact.
About == {"patch", "join", "commit", "look", "answer", "note", "mint"}

Named == \A q \in Request : request[q].at \in About => request[q].contact \in Contact

TypeInv == AttendanceTypeOK /\ Named

\* A badge is the token of a participant.
Scans ==
  \A b \in handed : \/ /\ participant[b[1]].status # "none"
                       /\ participant[b[1]].token = b[2] /\ b[2] # 0
                    \/ contact[b[1]].st = "gone"
                    \/ b[1] \in raced

\* A first badge is made for a participant who has none.
Mints ==
  \A q \in Request : request[q].at = "mint" =>
    LET c == request[q].contact IN
    \/ participant[c].status # "none" /\ participant[c].token = 0
    \/ contact[c].st = "gone"
    \/ c \in raced

\* Two first badges of one contact are a race.
Races ==
  \A q, p \in Request :
    (q # p /\ request[q].at = "mint" /\ request[p].at = "mint" /\ request[q].contact = request[p].contact)
      => request[q].contact \in raced

BadgeInv == Scans /\ Mints /\ Races

\* What a form submission has read of the contacts holds until it is outrun.
ReadOf(q) ==
  /\ request[q].at = "patch" =>
       contact[request[q].contact] = request[q].saw /\ request[q].saw.st = "there"
  /\ request[q].at = "create" => ContactsOf(request[q].phone, request[q].email) = {}
  /\ request[q].at = "join" => contact[request[q].contact].st = "there"

ReadInv == \A q \in Request \ outrun : ReadOf(q)

-----------------------------------------------------------------------------
(* Badges. *)

\* A contact joins: only one that was no participant gets another row.
LEMMA JoinedKeeps ==
  ASSUME AttendanceTypeOK, NEW c \in Contact, Joined(c)
  PROVE  /\ participant' \in [Contact -> Participant]
         /\ minted' \in Nat
         /\ participant'[c].status # "none"
         /\ \A d \in Contact : participant[d].status # "none" => participant'[d] = participant[d]
<1> USE DEF AttendanceTypeOK
<1>1. CASE participant[c].status = "none"
  <2>1. [status |-> "invited", token |-> minted + 1] \in Participant
    BY DEF Participant
  <2> DEFINE p == [status |-> "invited", token |-> minted + 1]
  <2>2. p.status # "none"
    OBVIOUS
  <2>3. participant' = [participant EXCEPT ![c] = p] /\ minted' \in Nat
    BY <1>1 DEF Joined
  <2> HIDE DEF p
  <2> QED BY <1>1, <2>1, <2>2, <2>3 DEF p
<1>2. CASE participant[c].status # "none"
  BY <1>2 DEF Joined
<1> QED BY <1>1, <1>2

\* What a form fills in of a contact leaves a contact.
LEMMA PatchTyped ==
  ASSUME contact \in [Contact -> Row], NEW c \in Contact,
         NEW phone \in PhoneOrBlank, NEW email \in EmailOrBlank
  PROVE  [contact EXCEPT ![c].phone = IF phone # Blank THEN phone ELSE @,
                         ![c].email = IF email # Blank THEN email ELSE @] \in [Contact -> Row]
<1> DEFINE p == IF phone # Blank THEN phone ELSE contact[c].phone
           e == IF email # Blank THEN email ELSE contact[c].email
           r == [contact[c] EXCEPT !.phone = p, !.email = e]
<1>1. r \in Row
  BY DEF Row
<1>2. [contact EXCEPT ![c].phone = IF phone # Blank THEN phone ELSE @,
                      ![c].email = IF email # Blank THEN email ELSE @] = [contact EXCEPT ![c] = r]
  OBVIOUS
<1> HIDE DEF r
<1>3. [contact EXCEPT ![c] = r] \in [Contact -> Row]
  BY <1>1
<1> QED BY <1>2, <1>3

\* How the calls of a request follow each other.
LEMMA Moves ==
  ASSUME request \in [Request -> Call], NEW q \in Request
  PROVE  /\ Closes(q) => /\ request'[q].at = "idle"
                         /\ \A p \in Request \ {q} : request'[p] = request[p]
         /\ \A stage \in Stage : Goes(q, stage) =>
              /\ request'[q] = [request[q] EXCEPT !.at = stage] /\ request'[q].at = stage
              /\ request'[q].contact = request[q].contact
              /\ \A p \in Request \ {q} : request'[p] = request[p]
<1>1. ASSUME Closes(q) PROVE request'[q].at = "idle" /\ \A p \in Request \ {q} : request'[p] = request[p]
  BY <1>1 DEF Closes, NoCall
<1>2. ASSUME NEW stage \in Stage, Goes(q, stage)
      PROVE  /\ request'[q] = [request[q] EXCEPT !.at = stage] /\ request'[q].at = stage
             /\ request'[q].contact = request[q].contact
             /\ \A p \in Request \ {q} : request'[p] = request[p]
  BY <1>2 DEF Goes, Call
<1> QED BY <1>1, <1>2

\* A participant stays one, with its token, until its contact is gone.
Stays ==
  /\ handed' = handed /\ raced' = raced
  /\ \A c \in Contact : participant[c].status # "none" =>
       \/ participant'[c].status # "none" /\ participant'[c].token = participant[c].token
       \/ contact'[c].st = "gone"
  /\ \A c \in Contact : contact[c].st = "gone" => contact'[c].st = "gone"
  /\ \A q \in Request : request'[q].at = "mint" =>
       request[q].at = "mint" /\ request'[q].contact = request[q].contact

LEMMA StaysRight == TypeInv /\ BadgeInv /\ Stays => BadgeInv'
<1> SUFFICES ASSUME TypeInv, BadgeInv, Stays PROVE BadgeInv'
  OBVIOUS
<1> USE DEF TypeInv, Stays
<1>1. Scans'
  BY DEF BadgeInv, Scans, AttendanceTypeOK
<1>2. Mints'
  BY DEF BadgeInv, Mints, Named, About
<1>3. Races'
  BY DEF BadgeInv, Races
<1> QED BY <1>1, <1>2, <1>3 DEF BadgeInv

\* Every step keeps the badges right.
LEMMA BadgeStep == TypeInv /\ BadgeInv /\ [AttendanceNext]_attendanceVars => BadgeInv'
<1> SUFFICES ASSUME TypeInv /\ BadgeInv, [AttendanceNext]_attendanceVars PROVE BadgeInv'
  OBVIOUS
<1> USE DEF TypeInv
<1>0. /\ request \in [Request -> Call] /\ contact \in [Contact -> Row]
      /\ participant \in [Contact -> Participant]
  BY DEF TypeInv, AttendanceTypeOK
<1>1. ASSUME NEW q \in Request, NEW phone \in PhoneOrBlank, NEW email \in EmailOrBlank, SubmitForm(q, phone, email) PROVE BadgeInv'
  <2>1. handed' = handed /\ raced' = raced
    BY <1>1 DEF SubmitForm, tellVars
  <2>2. participant' = participant
    BY <1>1 DEF SubmitForm, eventVars
  <2>3. contact' = contact
    BY <1>1 DEF SubmitForm, peopleVars
  <2>4. \A p \in Request : request'[p].at = "mint" => request[p].at = "mint" /\ request'[p].contact = request[p].contact
    BY ZenonT(60), <1>1, <1>0, Moves DEF SubmitForm, NoCall
  <2> QED BY <2>1, <2>2, <2>3, <2>4, StaysRight DEF Stays
<1>2. ASSUME NEW q \in Request, FormCreates(q) PROVE BadgeInv'
  <2>1. handed' = handed /\ raced' = raced
    BY <1>2 DEF FormCreates, tellVars
  <2>2. participant' = participant
    BY <1>2 DEF FormCreates, eventVars
  <2>3. \A d \in Contact : contact[d].st = "gone" => contact'[d].st = "gone"
    BY <1>2, <1>0 DEF FormCreates, Insert, Fresh
  <2>4. \A p \in Request : request'[p].at = "mint" => request[p].at = "mint" /\ request'[p].contact = request[p].contact
    <3>1. CASE Closed(q)
      BY <1>0, <3>1, Moves DEF Closed
    <3>2. CASE \E c \in Contact : request' = [request EXCEPT ![q].at = "join", ![q].contact = c]
      BY <1>0, <3>2 DEF Call
    <3> QED BY <1>2, <3>1, <3>2 DEF FormCreates
  <2> QED BY <2>1, <2>2, <2>3, <2>4, StaysRight DEF Stays
<1>3. ASSUME NEW q \in Request, FormPatches(q) PROVE BadgeInv'
  <2>1. handed' = handed /\ raced' = raced
    BY <1>3 DEF FormPatches, tellVars
  <2>2. participant' = participant
    BY <1>3 DEF FormPatches, eventVars
  <2>3. \A d \in Contact : contact[d].st = "gone" => contact'[d].st = "gone"
    BY <1>3, <1>0 DEF FormPatches
  <2>4. \A p \in Request : request'[p].at = "mint" => request[p].at = "mint" /\ request'[p].contact = request[p].contact
    BY <1>3, <1>0, Moves DEF FormPatches, Stage
  <2> QED BY <2>1, <2>2, <2>3, <2>4, StaysRight DEF Stays
<1>4. ASSUME NEW q \in Request, FormJoins(q) PROVE BadgeInv'
  <2>1. handed' = handed /\ raced' = raced
    BY <1>4 DEF FormJoins, tellVars
  <2>2. \A d \in Contact : participant[d].status # "none" =>
          \/ participant'[d].status # "none" /\ participant'[d].token = participant[d].token
          \/ contact'[d].st = "gone"
    <3>1. request[q].contact \in Contact
      BY <1>4 DEF FormJoins, Named, About
    <3> QED BY <1>4, <3>1, JoinedKeeps DEF FormJoins
  <2>3. contact' = contact
    BY <1>4 DEF FormJoins, peopleVars
  <2>4. \A p \in Request : request'[p].at = "mint" => request[p].at = "mint" /\ request'[p].contact = request[p].contact
    BY <1>4, <1>0, Moves DEF FormJoins, Closed
  <2> QED BY <2>1, <2>2, <2>3, <2>4, StaysRight DEF Stays
<1>5. ASSUME NEW q \in Request, NEW phone \in PhoneOrBlank, NEW email \in EmailOrBlank, CreateContact(q, phone, email) PROVE BadgeInv'
  <2>1. handed' = handed /\ raced' = raced
    BY <1>5 DEF CreateContact, tellVars
  <2>2. participant' = participant
    BY <1>5 DEF CreateContact, eventVars
  <2>3. contact' = contact
    BY <1>5 DEF CreateContact, peopleVars
  <2>4. \A p \in Request : request'[p].at = "mint" => request[p].at = "mint" /\ request'[p].contact = request[p].contact
    BY <1>5, <1>0, Moves DEF CreateContact, NoCall
  <2> QED BY <2>1, <2>2, <2>3, <2>4, StaysRight DEF Stays
<1>6. ASSUME NEW q \in Request, InsertContact(q) PROVE BadgeInv'
  <2>1. handed' = handed /\ raced' = raced
    BY <1>6 DEF InsertContact, tellVars
  <2>2. participant' = participant
    BY <1>6 DEF InsertContact, eventVars
  <2>3. \A d \in Contact : contact[d].st = "gone" => contact'[d].st = "gone"
    BY <1>6, <1>0 DEF InsertContact, Insert, Fresh
  <2>4. \A p \in Request : request'[p].at = "mint" => request[p].at = "mint" /\ request'[p].contact = request[p].contact
    BY <1>6, <1>0, Moves DEF InsertContact
  <2> QED BY <2>1, <2>2, <2>3, <2>4, StaysRight DEF Stays
<1>7. ASSUME NEW c \in Contact, NEW phone \in PhoneOrBlank, NEW email \in EmailOrBlank, UpdateContact(c, phone, email) PROVE BadgeInv'
  <2>1. handed' = handed /\ raced' = raced
    BY <1>7 DEF UpdateContact, tellVars
  <2>2. participant' = participant
    BY <1>7 DEF UpdateContact, eventVars
  <2>3. \A d \in Contact : contact[d].st = "gone" => contact'[d].st = "gone"
    BY <1>7, <1>0 DEF UpdateContact, Insert
  <2>4. \A p \in Request : request'[p].at = "mint" => request[p].at = "mint" /\ request'[p].contact = request[p].contact
    BY <1>7, <1>0, Moves DEF UpdateContact, NoCall
  <2> QED BY <2>1, <2>2, <2>3, <2>4, StaysRight DEF Stays
<1>8. ASSUME NEW c \in Contact, RemoveContact(c) PROVE BadgeInv'
  <2>1. handed' = handed /\ raced' = raced
    BY <1>8 DEF RemoveContact, tellVars
  <2>2. \A d \in Contact : participant[d].status # "none" =>
          \/ participant'[d].status # "none" /\ participant'[d].token = participant[d].token
          \/ contact'[d].st = "gone"
    <3>1. contact'[c].st = "gone" /\ \A d \in Contact \ {c} : participant'[d] = participant[d]
      BY <1>8, <1>0 DEF RemoveContact
    <3> QED BY <3>1
  <2>3. \A d \in Contact : contact[d].st = "gone" => contact'[d].st = "gone"
    BY <1>8, <1>0 DEF RemoveContact
  <2>4. \A p \in Request : request'[p].at = "mint" => request[p].at = "mint" /\ request'[p].contact = request[p].contact
    BY <1>8, <1>0, Moves DEF RemoveContact, NoCall
  <2> QED BY <2>1, <2>2, <2>3, <2>4, StaysRight DEF Stays
<1>9. ASSUME NEW c \in Contact, NEW phone \in PhoneOrBlank, NEW email \in EmailOrBlank, ImportContact(c, phone, email) PROVE BadgeInv'
  <2>1. handed' = handed /\ raced' = raced
    BY <1>9 DEF ImportContact, tellVars
  <2>2. participant' = participant
    BY <1>9 DEF ImportContact, eventVars
  <2>3. \A d \in Contact : contact[d].st = "gone" => contact'[d].st = "gone"
    BY <1>9, <1>0 DEF ImportContact, Insert, Fresh
  <2>4. \A p \in Request : request'[p].at = "mint" => request[p].at = "mint" /\ request'[p].contact = request[p].contact
    BY <1>9, <1>0, Moves DEF ImportContact, NoCall
  <2> QED BY <2>1, <2>2, <2>3, <2>4, StaysRight DEF Stays
<1>10. ASSUME NEW q \in Request, NEW phone \in PhoneOrBlank, NEW email \in EmailOrBlank, Book(q, phone, email) PROVE BadgeInv'
  <2>1. handed' = handed /\ raced' = raced
    BY <1>10 DEF Book, tellVars
  <2>2. participant' = participant
    BY <1>10 DEF Book, eventVars
  <2>3. contact' = contact
    BY <1>10 DEF Book, peopleVars
  <2>4. \A p \in Request : request'[p].at = "mint" => request[p].at = "mint" /\ request'[p].contact = request[p].contact
    BY <1>10, <1>0, Moves DEF Book, NoCall
  <2> QED BY <2>1, <2>2, <2>3, <2>4, StaysRight DEF Stays
<1>11. ASSUME NEW q \in Request, NEW c \in Contact, Appoint(q, c) PROVE BadgeInv'
  <2>1. handed' = handed /\ raced' = raced
    BY <1>11 DEF Appoint, tellVars
  <2>2. participant' = participant
    BY <1>11 DEF Appoint, eventVars
  <2>3. contact' = contact
    BY <1>11 DEF Appoint, peopleVars
  <2>4. \A p \in Request : request'[p].at = "mint" => request[p].at = "mint" /\ request'[p].contact = request[p].contact
    BY <1>11, <1>0, Moves DEF Appoint, NoCall
  <2> QED BY <2>1, <2>2, <2>3, <2>4, StaysRight DEF Stays
<1>12. ASSUME NEW q \in Request, CreateCustomer(q) PROVE BadgeInv'
  <2>1. handed' = handed /\ raced' = raced
    BY <1>12 DEF CreateCustomer, tellVars
  <2>2. participant' = participant
    BY <1>12 DEF CreateCustomer, eventVars
  <2>3. contact' = contact
    BY <1>12 DEF CreateCustomer, peopleVars
  <2>4. \A p \in Request : request'[p].at = "mint" => request[p].at = "mint" /\ request'[p].contact = request[p].contact
    BY <1>12, <1>0, Moves DEF CreateCustomer, Closed, Stage
  <2> QED BY <2>1, <2>2, <2>3, <2>4, StaysRight DEF Stays
<1>13. ASSUME NEW q \in Request, FindContact(q) PROVE BadgeInv'
  <2>1. handed' = handed /\ raced' = raced
    BY <1>13 DEF FindContact, tellVars
  <2>2. participant' = participant
    BY <1>13 DEF FindContact, eventVars
  <2>3. contact' = contact
    BY <1>13 DEF FindContact, peopleVars
  <2>4. \A p \in Request : request'[p].at = "mint" => request[p].at = "mint" /\ request'[p].contact = request[p].contact
    BY <1>13, <1>0, Moves DEF FindContact, Closed, Stage
  <2> QED BY <2>1, <2>2, <2>3, <2>4, StaysRight DEF Stays
<1>14. ASSUME NEW q \in Request, NEW c \in Contact, Invite(q, c) PROVE BadgeInv'
  <2>1. handed' = handed /\ raced' = raced
    BY <1>14 DEF Invite, tellVars
  <2>2. participant' = participant
    BY <1>14 DEF Invite, eventVars
  <2>3. contact' = contact
    BY <1>14 DEF Invite, peopleVars
  <2>4. \A p \in Request : request'[p].at = "mint" => request[p].at = "mint" /\ request'[p].contact = request[p].contact
    BY <1>14, <1>0, Moves DEF Invite, NoCall
  <2> QED BY <2>1, <2>2, <2>3, <2>4, StaysRight DEF Stays
<1>15. ASSUME NEW q \in Request, InviteCommits(q) PROVE BadgeInv'
  <2>1. handed' = handed /\ raced' = raced
    BY <1>15 DEF InviteCommits, tellVars
  <2>2. \A d \in Contact : participant[d].status # "none" =>
          \/ participant'[d].status # "none" /\ participant'[d].token = participant[d].token
          \/ contact'[d].st = "gone"
    <3>1. request[q].contact \in Contact
      BY <1>15 DEF InviteCommits, Named, About
    <3>2. Joined(request[q].contact) \/ participant' = participant
      BY <1>15 DEF InviteCommits
    <3> QED BY <3>1, <3>2, JoinedKeeps
  <2>3. contact' = contact
    BY <1>15 DEF InviteCommits, peopleVars
  <2>4. \A p \in Request : request'[p].at = "mint" => request[p].at = "mint" /\ request'[p].contact = request[p].contact
    BY <1>15, <1>0, Moves DEF InviteCommits, Closed
  <2> QED BY <2>1, <2>2, <2>3, <2>4, StaysRight DEF Stays
<1>16. ASSUME NEW c \in Contact, InviteAudience(c) PROVE BadgeInv'
  <2>1. handed' = handed /\ raced' = raced
    BY <1>16 DEF InviteAudience, tellVars
  <2>2. \A d \in Contact : participant[d].status # "none" =>
          \/ participant'[d].status # "none" /\ participant'[d].token = participant[d].token
          \/ contact'[d].st = "gone"
    BY <1>16, <1>0, JoinedKeeps DEF InviteAudience, Participant, Word
  <2>3. contact' = contact
    BY <1>16 DEF InviteAudience, peopleVars
  <2>4. \A p \in Request : request'[p].at = "mint" => request[p].at = "mint" /\ request'[p].contact = request[p].contact
    BY <1>16, <1>0, Moves DEF InviteAudience, NoCall
  <2> QED BY <2>1, <2>2, <2>3, <2>4, StaysRight DEF Stays
<1>17. ASSUME NEW q \in Request, NEW c \in Contact, NEW word \in Word, Respond(q, c, word) PROVE BadgeInv'
  <2>1. handed' = handed /\ raced' = raced
    BY <1>17 DEF Respond, tellVars
  <2>2. participant' = participant
    BY <1>17 DEF Respond, eventVars
  <2>3. contact' = contact
    BY <1>17 DEF Respond, peopleVars
  <2>4. \A p \in Request : request'[p].at = "mint" => request[p].at = "mint" /\ request'[p].contact = request[p].contact
    BY <1>17, <1>0, Moves DEF Respond, NoCall
  <2> QED BY <2>1, <2>2, <2>3, <2>4, StaysRight DEF Stays
<1>18. ASSUME NEW q \in Request, RespondLooks(q) PROVE BadgeInv'
  <2>1. handed' = handed /\ raced' = raced
    BY <1>18 DEF RespondLooks, tellVars
  <2>2. participant' = participant
    BY <1>18 DEF RespondLooks, eventVars
  <2>3. contact' = contact
    BY <1>18 DEF RespondLooks, peopleVars
  <2>4. \A p \in Request : request'[p].at = "mint" => request[p].at = "mint" /\ request'[p].contact = request[p].contact
    BY <1>18, <1>0, Moves DEF RespondLooks, NoCall
  <2> QED BY <2>1, <2>2, <2>3, <2>4, StaysRight DEF Stays
<1>19. ASSUME NEW q \in Request, RespondAnswers(q) PROVE BadgeInv'
  <2>1. handed' = handed /\ raced' = raced
    BY <1>19 DEF RespondAnswers, tellVars
  <2>2. participant' = participant
    BY <1>19 DEF RespondAnswers, eventVars
  <2>3. contact' = contact
    BY <1>19 DEF RespondAnswers, peopleVars
  <2>4. \A p \in Request : request'[p].at = "mint" => request[p].at = "mint" /\ request'[p].contact = request[p].contact
    BY <1>19, <1>0, Moves DEF RespondAnswers, Stage
  <2> QED BY <2>1, <2>2, <2>3, <2>4, StaysRight DEF Stays
<1>20. ASSUME NEW q \in Request, RespondNotes(q) PROVE BadgeInv'
  <2>1. handed' = handed /\ raced' = raced
    BY <1>20 DEF RespondNotes, tellVars
  <2>2. \A d \in Contact : participant[d].status # "none" =>
          \/ participant'[d].status # "none" /\ participant'[d].token = participant[d].token
          \/ contact'[d].st = "gone"
    <3>1. \/ participant' = participant
          \/ participant' = [participant EXCEPT ![request[q].contact].status = request[q].word]
      BY <1>20 DEF RespondNotes
    <3>2. request[q].word # "none"
      BY <1>0 DEF Call, Word
    <3> QED BY <1>0, <3>1, <3>2 DEF Participant
  <2>3. contact' = contact
    BY <1>20 DEF RespondNotes, peopleVars
  <2>4. \A p \in Request : request'[p].at = "mint" => request[p].at = "mint" /\ request'[p].contact = request[p].contact
    BY <1>20, <1>0, Moves DEF RespondNotes, Closed
  <2> QED BY <2>1, <2>2, <2>3, <2>4, StaysRight DEF Stays
<1>21. ASSUME NEW c \in Contact, NEW word \in Word, AnswersElsewhere(c, word) PROVE BadgeInv'
  <2>1. handed' = handed /\ raced' = raced
    BY <1>21 DEF AnswersElsewhere, tellVars
  <2>2. \A d \in Contact : participant[d].status # "none" =>
          \/ participant'[d].status # "none" /\ participant'[d].token = participant[d].token
          \/ contact'[d].st = "gone"
    BY <1>21, <1>0 DEF AnswersElsewhere, Participant, Word
  <2>3. contact' = contact
    BY <1>21 DEF AnswersElsewhere, peopleVars
  <2>4. \A p \in Request : request'[p].at = "mint" => request[p].at = "mint" /\ request'[p].contact = request[p].contact
    BY <1>21, <1>0, Moves DEF AnswersElsewhere, NoCall
  <2> QED BY <2>1, <2>2, <2>3, <2>4, StaysRight DEF Stays
<1>22. ASSUME NEW q \in Request, NEW c \in Contact, AskBadge(q, c) PROVE BadgeInv'
  <2>1. contact' = contact /\ participant' = participant
    BY <1>22 DEF AskBadge, peopleVars, eventVars
  <2>2. CASE participant[c].token # 0
    <3>1. handed' = handed \cup {<<c, participant[c].token>>} /\ request' = request /\ raced' = raced
      BY <1>22, <2>2 DEF AskBadge
    <3>2. participant[c].status # "none"
      BY <1>22 DEF AskBadge
    <3>3. Scans'
      BY <2>1, <2>2, <3>1, <3>2 DEF BadgeInv, Scans
    <3> QED BY <2>1, <3>1, <3>3 DEF BadgeInv, Mints, Races
  <2>3. CASE participant[c].token = 0
    <3>1. handed' = handed /\ raced \subseteq raced' /\ participant[c].status # "none"
      BY <1>22, <2>3 DEF AskBadge
    <3>2. request'[q].at = "mint" /\ request'[q].contact = c
      <4>1. request' = [request EXCEPT ![q] = [NoCall EXCEPT !.at = "mint", !.kind = "badge", !.contact = c]]
        BY <1>22, <2>3 DEF AskBadge
      <4> QED BY <1>0, <4>1 DEF NoCall
    <3>3. \A p \in Request \ {q} : request'[p] = request[p]
      BY <1>22, <2>3, <1>0 DEF AskBadge
    <3>4. \A p \in Request \ {q} : (request[p].at = "mint" /\ request[p].contact = c) => c \in raced'
      BY <1>22, <2>3 DEF AskBadge
    <3>5. Scans'
      BY <2>1, <3>1 DEF BadgeInv, Scans
    <3>6. Mints'
      BY <2>1, <2>3, <3>1, <3>2, <3>3 DEF BadgeInv, Mints
    <3>7. Races'
      BY <3>1, <3>2, <3>3, <3>4 DEF BadgeInv, Races
    <3> QED BY <3>5, <3>6, <3>7 DEF BadgeInv
  <2> QED BY <2>2, <2>3
<1>23. ASSUME NEW q \in Request, MintBadge(q) PROVE BadgeInv'
  <2> DEFINE c == request[q].contact
  <2>1. request[q].at = "mint" /\ c \in Contact /\ contact' = contact /\ raced' = raced
    BY <1>23 DEF MintBadge, peopleVars, Named, About
  <2>2. request'[q].at = "idle" /\ \A p \in Request \ {q} : request'[p] = request[p]
    BY <1>23 DEF MintBadge, Closed, Closes, NoCall, AttendanceTypeOK
  <2>3. CASE participant[c].status = "none"
    <3>1. participant' = participant /\ handed' = handed
      BY <1>23, <2>3 DEF MintBadge
    <3> QED BY <2>1, <2>2, <3>1, StaysRight DEF Stays
  <2>4. CASE participant[c].status # "none"
    <3>1. /\ participant' = [participant EXCEPT ![c].token = minted + 1]
          /\ handed' = handed \cup {<<c, minted + 1>>}
      BY <1>23, <2>4 DEF MintBadge
    <3>2. /\ participant'[c].token = minted + 1 /\ minted + 1 # 0
          /\ \A d \in Contact : participant'[d].status = participant[d].status
          /\ \A d \in Contact \ {c} : participant'[d] = participant[d]
      BY <2>1, <3>1 DEF AttendanceTypeOK, Participant
    <3>3. participant[c].token = 0 \/ contact[c].st = "gone" \/ c \in raced
      BY <2>1 DEF BadgeInv, Mints
    <3>4. Scans'
      <4> SUFFICES ASSUME NEW b \in handed'
                   PROVE  \/ participant'[b[1]].status # "none" /\ participant'[b[1]].token = b[2] /\ b[2] # 0
                          \/ contact'[b[1]].st = "gone"
                          \/ b[1] \in raced'
        BY DEF Scans
      <4>1. CASE b = <<c, minted + 1>>
        BY <2>4, <3>2, <4>1, <2>1
      <4>2. CASE b \in handed /\ b[1] = c
        BY <2>1, <3>3, <4>2 DEF BadgeInv, Scans
      <4>3. CASE b \in handed /\ b[1] # c
        BY <2>1, <3>2, <4>3 DEF BadgeInv, Scans, AttendanceTypeOK
      <4> QED BY <3>1, <4>1, <4>2, <4>3
    <3>5. Mints'
      <4> SUFFICES ASSUME NEW p \in Request, request'[p].at = "mint"
                   PROVE  LET d == request'[p].contact IN
                          \/ participant'[d].status # "none" /\ participant'[d].token = 0
                          \/ contact'[d].st = "gone"
                          \/ d \in raced'
        BY DEF Mints
      <4>1. p # q /\ request'[p] = request[p] /\ request[p].at = "mint" /\ request[p].contact \in Contact
        BY <2>2 DEF Named, About
      <4>2. CASE request[p].contact = c
        BY <2>1, <4>1, <4>2 DEF BadgeInv, Races
      <4>3. CASE request[p].contact # c
        BY <2>1, <3>2, <4>1, <4>3 DEF BadgeInv, Mints
      <4> QED BY <4>2, <4>3
    <3>6. Races'
      BY <2>1, <2>2 DEF BadgeInv, Races
    <3> QED BY <3>4, <3>5, <3>6 DEF BadgeInv
  <2> QED BY <2>3, <2>4
<1>24. CASE UNCHANGED attendanceVars
  BY <1>24 DEF attendanceVars, AttendanceTypeOK, BadgeInv, Scans, Mints, Races
<1> QED
  BY <1>1, <1>2, <1>3, <1>4, <1>5, <1>6, <1>7, <1>8, <1>9, <1>10, <1>11, <1>12, <1>13, <1>14, <1>15, <1>16, <1>17, <1>18, <1>19, <1>20, <1>21, <1>22, <1>23, <1>24 DEF AttendanceNext, FormStep, BookStep, EventStep

-----------------------------------------------------------------------------
(* Form submissions. *)

\* No contact is written, and a submission does not move but by its own steps.
LEMMA ReadsKept ==
  ASSUME ReadInv, contact' = contact,
         \A q \in Request \ outrun' : request'[q].at \in {"patch", "create", "join"} =>
           q \notin outrun /\ request'[q] = request[q]
  PROVE  ReadInv'
  BY DEF ReadInv, ReadOf, ContactsOf, Meets

\* The row of a contact is written. A submission that is not outrun is about
\* another contact and does not look for what was written.
LEMMA ReadsWritten ==
  ASSUME ReadInv, Named, NEW r \in Request, NEW c \in Contact, NEW phone, NEW email,
         \A d \in Contact \ {c} : contact'[d] = contact[d],
         contact'[c].phone = phone \/ (contact[c].st = "there" /\ contact'[c].phone = contact[c].phone),
         contact'[c].email = email \/ (contact[c].st = "there" /\ contact'[c].email = contact[c].email),
         \A q \in (Request \ {r}) \ outrun' : request'[q].at \in {"patch", "create", "join"} =>
           /\ q \notin outrun /\ request'[q] = request[q]
           /\ request[q].contact # c /\ ~Meets(request[q], phone, email)
  PROVE  \A q \in (Request \ {r}) \ outrun' : ReadOf(q)'
<1> SUFFICES ASSUME NEW q \in (Request \ {r}) \ outrun', request'[q].at \in {"patch", "create", "join"}
             PROVE  ReadOf(q)'
  BY DEF ReadOf
<1>1. /\ q \in Request \ outrun /\ request'[q] = request[q]
      /\ request[q].contact # c /\ ~Meets(request[q], phone, email)
  OBVIOUS
<1>2. CASE request[q].at \in {"patch", "join"}
  <2>1. contact'[request[q].contact] = contact[request[q].contact]
    BY <1>1, <1>2 DEF Named, About
  <2> QED BY <1>1, <1>2, <2>1 DEF ReadInv, ReadOf
<1>3. CASE request[q].at = "create"
  <2>1. ContactsOf(request[q].phone, request[q].email) = {}
    BY <1>1, <1>3 DEF ReadInv, ReadOf
  <2>2. ASSUME NEW d \in Contact, contact'[d].st = "there", Meets(contact'[d], request[q].phone, request[q].email)
        PROVE  FALSE
    <3>1. CASE d # c
      BY <2>1, <2>2, <3>1 DEF ContactsOf
    <3>2. CASE d = c
      BY <1>1, <2>1, <2>2, <3>2 DEF ContactsOf, Meets
    <3> QED BY <3>1, <3>2
  <2>3. ContactsOf(request[q].phone, request[q].email)' = {}
    BY <1>1, <2>2 DEF ContactsOf, Meets
  <2> QED BY <1>1, <1>3, <2>3 DEF ReadOf
<1> QED BY <1>1, <1>2, <1>3

\* A request that has not been outrun still knows the contacts.
LEMMA ReadStep == TypeInv /\ ReadInv /\ [AttendanceNext]_attendanceVars => ReadInv'
<1> SUFFICES ASSUME TypeInv /\ ReadInv, [AttendanceNext]_attendanceVars PROVE ReadInv'
  OBVIOUS
<1> USE DEF TypeInv, AttendanceTypeOK, Named, About
<1>0. /\ request \in [Request -> Call] /\ contact \in [Contact -> Row]
      /\ participant \in [Contact -> Participant]
  BY DEF TypeInv, AttendanceTypeOK
<1>1. ASSUME NEW q \in Request, NEW phone \in PhoneOrBlank, NEW email \in EmailOrBlank, SubmitForm(q, phone, email) PROVE ReadInv'
  <2>1. contact' = contact /\ outrun' = outrun \ {q}
    BY <1>1 DEF SubmitForm, peopleVars
  <2>2. CASE \E c \in ContactsOf(phone, email) :
          request' = [request EXCEPT ![q] = [NoCall EXCEPT !.at = "patch", !.phone = phone,
                                              !.email = email, !.contact = c, !.saw = contact[c]]]
    <3>1. PICK c \in ContactsOf(phone, email) :
            request' = [request EXCEPT ![q] = [NoCall EXCEPT !.at = "patch", !.phone = phone,
                                                !.email = email, !.contact = c, !.saw = contact[c]]]
      BY <2>2
    <3>2. /\ request'[q].at = "patch" /\ request'[q].contact = c /\ request'[q].saw = contact[c]
          /\ \A p \in Request \ {q} : request'[p] = request[p]
      BY <1>0, <3>1 DEF NoCall
    <3>3. contact[c].st = "there"
      BY DEF ContactsOf
    <3> QED BY <2>1, <3>2, <3>3 DEF ReadInv, ReadOf, ContactsOf, Meets
  <2>3. CASE /\ ContactsOf(phone, email) = {}
             /\ request' = [request EXCEPT ![q] = [NoCall EXCEPT !.at = "create", !.phone = phone,
                                                       !.email = email]]
    <3>1. /\ request'[q].at = "create" /\ request'[q].phone = phone /\ request'[q].email = email
          /\ \A p \in Request \ {q} : request'[p] = request[p]
      BY <1>0, <2>3 DEF NoCall
    <3>2. ContactsOf(request[q].phone, request[q].email)' = {}
      BY <2>1, <2>3, <3>1 DEF ContactsOf, Meets
    <3>3. ASSUME NEW p \in Request \ {q}, p \notin outrun
          PROVE  ContactsOf(request[p].phone, request[p].email)' = ContactsOf(request[p].phone, request[p].email)
      BY <2>1, <3>1 DEF ContactsOf, Meets
    <3> QED BY ZenonT(60), <2>1, <3>1, <3>2, <3>3 DEF ReadInv, ReadOf
  <2> QED BY <1>1, <2>2, <2>3 DEF SubmitForm
<1>2. ASSUME NEW q \in Request, FormCreates(q) PROVE ReadInv'
  <2>1. CASE /\ ContactsOf(request[q].phone, request[q].email) # {}
             /\ Closed(q) /\ UNCHANGED contact
    BY <1>0, <2>1, Moves, ReadsKept DEF Closed
  <2>2. ASSUME NEW c \in Contact, Insert(c, request[q].phone, request[q].email),
               Outruns(q, c, request[q].phone, request[q].email),
               request' = [request EXCEPT ![q].at = "join", ![q].contact = c]
        PROVE  ReadInv'
    <3>1. /\ request'[q].at = "join" /\ request'[q].contact = c
          /\ \A p \in Request \ {q} : request'[p] = request[p]
      BY <1>0, <2>2 DEF Call
    <3>2. /\ contact'[c].st = "there" /\ contact'[c].phone = request[q].phone
          /\ contact'[c].email = request[q].email
          /\ \A d \in Contact \ {c} : contact'[d] = contact[d]
      BY <1>0, <2>2 DEF Insert
    <3>3. contact' \in [Contact -> Row]
      BY <1>0, <2>2 DEF Insert, Row, Call
    <3>4. \A p \in (Request \ {q}) \ outrun' : request'[p].at \in {"patch", "create", "join"} =>
            /\ p \notin outrun /\ request'[p] = request[p]
            /\ request[p].contact # c /\ ~Meets(request[p], request[q].phone, request[q].email)
      BY <2>2, <3>1 DEF Outruns
    <3>5. \A p \in (Request \ {q}) \ outrun' : ReadOf(p)'
      BY <1>0, <3>2, <3>3, <3>4, ReadsWritten
    <3> QED BY <3>1, <3>2, <3>5 DEF ReadInv, ReadOf
  <2> QED BY <1>2, <2>1, <2>2 DEF FormCreates
<1>3. ASSUME NEW q \in Request, FormPatches(q) PROVE ReadInv'
  <2> DEFINE f == request[q]
             c == f.contact
             phone == IF f.saw.phone = Blank THEN f.phone ELSE Blank
             email == IF f.saw.email = Blank THEN f.email ELSE Blank
  <2>1. f.at = "patch" /\ c \in Contact
    BY <1>3 DEF FormPatches, Named, About
  <2>2. /\ request'[q].at = "join" /\ request'[q].contact = c
        /\ \A p \in Request \ {q} : request'[p] = request[p]
    BY <1>0, <1>3, Moves DEF FormPatches, Stage
  <2>3. CASE UNCHANGED <<contact, outrun>>
    <3>1. q \notin outrun => contact'[request'[q].contact].st = "there"
      BY <2>1, <2>2, <2>3 DEF ReadInv, ReadOf
    <3>2. \A p \in Request \ {q} : ContactsOf(request[p].phone, request[p].email)' = ContactsOf(request[p].phone, request[p].email)
      BY <2>2, <2>3 DEF ContactsOf, Meets
    <3> QED BY ZenonT(60), <2>2, <2>3, <3>1, <3>2 DEF ReadInv, ReadOf
  <2>4. CASE /\ contact[c].st = "there"
             /\ contact' = [contact EXCEPT ![c].phone = IF phone # Blank THEN phone ELSE @,
                                           ![c].email = IF email # Blank THEN email ELSE @]
             /\ Outruns(q, c, phone, email)
    <3>1. phone \in PhoneOrBlank /\ email \in EmailOrBlank
      BY <1>0 DEF Call, PhoneOrBlank, EmailOrBlank
    <3> HIDE DEF f, c, phone, email
    <3>2. contact' \in [Contact -> Row]
      BY <1>0, <2>1, <2>4, <3>1, PatchTyped
    <3>3. /\ contact'[c].st = "there"
          /\ contact'[c].phone = phone \/ contact'[c].phone = contact[c].phone
          /\ contact'[c].email = email \/ contact'[c].email = contact[c].email
          /\ \A d \in Contact \ {c} : contact'[d] = contact[d]
      BY <1>0, <2>1, <2>4 DEF Row
    <3>4. \A p \in (Request \ {q}) \ outrun' : request'[p].at \in {"patch", "create", "join"} =>
            /\ p \notin outrun /\ request'[p] = request[p]
            /\ request[p].contact # c /\ ~Meets(request[p], phone, email)
      BY <2>2, <2>4 DEF Outruns
    <3>5. \A p \in (Request \ {q}) \ outrun' : ReadOf(p)'
      BY <1>0, <2>1, <2>4, <3>2, <3>3, <3>4, ReadsWritten
    <3> QED BY <2>2, <3>3, <3>5 DEF ReadInv, ReadOf
  <2> QED BY <1>3, <2>3, <2>4 DEF FormPatches
<1>4. ASSUME NEW q \in Request, FormJoins(q) PROVE ReadInv'
  <2>1. contact' = contact
    BY <1>4 DEF FormJoins, peopleVars
  <2>2. \A p \in Request \ outrun' : request'[p].at \in {"patch", "create", "join"} =>
          p \notin outrun /\ request'[p] = request[p]
    BY <1>4, <1>0, Moves DEF FormJoins, NoCall, Closed
  <2> QED BY <2>1, <2>2, ReadsKept
<1>5. ASSUME NEW q \in Request, NEW phone \in PhoneOrBlank, NEW email \in EmailOrBlank, CreateContact(q, phone, email) PROVE ReadInv'
  <2>1. contact' = contact
    BY <1>5 DEF CreateContact, peopleVars
  <2>2. \A p \in Request \ outrun' : request'[p].at \in {"patch", "create", "join"} =>
          p \notin outrun /\ request'[p] = request[p]
    BY <1>5, <1>0, Moves DEF CreateContact, NoCall
  <2> QED BY <2>1, <2>2, ReadsKept
<1>6. ASSUME NEW q \in Request, InsertContact(q) PROVE ReadInv'
  <2>1. /\ request'[q].at = "idle"
        /\ \A p \in Request \ {q} : request'[p] = request[p]
    BY <1>0, <1>6, Moves DEF InsertContact
  <2>2. CASE UNCHANGED <<contact, outrun>>
    BY <2>1, <2>2, ReadsKept
  <2>3. ASSUME NEW c \in Contact, Insert(c, request[q].phone, request[q].email),
               Outruns(q, c, request[q].phone, request[q].email)
        PROVE  ReadInv'
    <3>1. /\ contact'[c].phone = request[q].phone /\ contact'[c].email = request[q].email
          /\ \A d \in Contact \ {c} : contact'[d] = contact[d]
      BY <1>0, <2>3 DEF Insert
    <3>2. contact' \in [Contact -> Row]
      BY <1>0, <2>3 DEF Insert, Row, Call
    <3>3. \A p \in (Request \ {q}) \ outrun' : request'[p].at \in {"patch", "create", "join"} =>
            /\ p \notin outrun /\ request'[p] = request[p]
            /\ request[p].contact # c /\ ~Meets(request[p], request[q].phone, request[q].email)
      BY <2>1, <2>3 DEF Outruns
    <3>4. \A p \in (Request \ {q}) \ outrun' : ReadOf(p)'
      BY <1>0, <3>1, <3>2, <3>3, ReadsWritten
    <3> QED BY <2>1, <3>4 DEF ReadInv, ReadOf
  <2> QED BY <1>6, <2>2, <2>3 DEF InsertContact
<1>7. ASSUME NEW c \in Contact, NEW phone \in PhoneOrBlank, NEW email \in EmailOrBlank, UpdateContact(c, phone, email) PROVE ReadInv'
  BY <1>7 DEF UpdateContact, Insert, ReadInv, ReadOf, ContactsOf, Meets, Row, Call, NoCall
<1>8. ASSUME NEW c \in Contact, RemoveContact(c) PROVE ReadInv'
  BY <1>8 DEF RemoveContact, ReadInv, ReadOf, ContactsOf, Meets, Row, Call, NoCall
<1>9. ASSUME NEW c \in Contact, NEW phone \in PhoneOrBlank, NEW email \in EmailOrBlank, ImportContact(c, phone, email) PROVE ReadInv'
  BY <1>9 DEF ImportContact, Insert, Fresh, ReadInv, ReadOf, ContactsOf, Meets, Row, Call, NoCall
<1>10. ASSUME NEW q \in Request, NEW phone \in PhoneOrBlank, NEW email \in EmailOrBlank, Book(q, phone, email) PROVE ReadInv'
  <2>1. contact' = contact
    BY <1>10 DEF Book, peopleVars
  <2>2. \A p \in Request \ outrun' : request'[p].at \in {"patch", "create", "join"} =>
          p \notin outrun /\ request'[p] = request[p]
    BY <1>10, <1>0, Moves DEF Book, NoCall
  <2> QED BY <2>1, <2>2, ReadsKept
<1>11. ASSUME NEW q \in Request, NEW c \in Contact, Appoint(q, c) PROVE ReadInv'
  <2>1. contact' = contact
    BY <1>11 DEF Appoint, peopleVars
  <2>2. \A p \in Request \ outrun' : request'[p].at \in {"patch", "create", "join"} =>
          p \notin outrun /\ request'[p] = request[p]
    BY <1>11, <1>0, Moves DEF Appoint, NoCall
  <2> QED BY <2>1, <2>2, ReadsKept
<1>12. ASSUME NEW q \in Request, CreateCustomer(q) PROVE ReadInv'
  <2>1. contact' = contact
    BY <1>12 DEF CreateCustomer, peopleVars
  <2>2. \A p \in Request \ outrun' : request'[p].at \in {"patch", "create", "join"} =>
          p \notin outrun /\ request'[p] = request[p]
    BY <1>12, <1>0, Moves DEF CreateCustomer, NoCall, Closed, Stage
  <2> QED BY <2>1, <2>2, ReadsKept
<1>13. ASSUME NEW q \in Request, FindContact(q) PROVE ReadInv'
  <2>1. contact' = contact
    BY <1>13 DEF FindContact, peopleVars
  <2>2. \A p \in Request \ outrun' : request'[p].at \in {"patch", "create", "join"} =>
          p \notin outrun /\ request'[p] = request[p]
    BY <1>13, <1>0, Moves DEF FindContact, NoCall, Closed, Stage
  <2> QED BY <2>1, <2>2, ReadsKept
<1>14. ASSUME NEW q \in Request, NEW c \in Contact, Invite(q, c) PROVE ReadInv'
  <2>1. contact' = contact
    BY <1>14 DEF Invite, peopleVars
  <2>2. \A p \in Request \ outrun' : request'[p].at \in {"patch", "create", "join"} =>
          p \notin outrun /\ request'[p] = request[p]
    BY <1>14, <1>0, Moves DEF Invite, NoCall
  <2> QED BY <2>1, <2>2, ReadsKept
<1>15. ASSUME NEW q \in Request, InviteCommits(q) PROVE ReadInv'
  <2>1. contact' = contact
    BY <1>15 DEF InviteCommits, peopleVars
  <2>2. \A p \in Request \ outrun' : request'[p].at \in {"patch", "create", "join"} =>
          p \notin outrun /\ request'[p] = request[p]
    BY <1>15, <1>0, Moves DEF InviteCommits, NoCall, Closed
  <2> QED BY <2>1, <2>2, ReadsKept
<1>16. ASSUME NEW c \in Contact, InviteAudience(c) PROVE ReadInv'
  <2>1. contact' = contact
    BY <1>16 DEF InviteAudience, peopleVars
  <2>2. \A p \in Request \ outrun' : request'[p].at \in {"patch", "create", "join"} =>
          p \notin outrun /\ request'[p] = request[p]
    BY <1>16, <1>0, Moves DEF InviteAudience, NoCall
  <2> QED BY <2>1, <2>2, ReadsKept
<1>17. ASSUME NEW q \in Request, NEW c \in Contact, NEW word \in Word, Respond(q, c, word) PROVE ReadInv'
  <2>1. contact' = contact
    BY <1>17 DEF Respond, peopleVars
  <2>2. \A p \in Request \ outrun' : request'[p].at \in {"patch", "create", "join"} =>
          p \notin outrun /\ request'[p] = request[p]
    BY <1>17, <1>0, Moves DEF Respond, NoCall
  <2> QED BY <2>1, <2>2, ReadsKept
<1>18. ASSUME NEW q \in Request, RespondLooks(q) PROVE ReadInv'
  <2>1. contact' = contact
    BY <1>18 DEF RespondLooks, peopleVars
  <2>2. \A p \in Request \ outrun' : request'[p].at \in {"patch", "create", "join"} =>
          p \notin outrun /\ request'[p] = request[p]
    BY <1>18, <1>0, Moves DEF RespondLooks, NoCall
  <2> QED BY <2>1, <2>2, ReadsKept
<1>19. ASSUME NEW q \in Request, RespondAnswers(q) PROVE ReadInv'
  <2>1. contact' = contact
    BY <1>19 DEF RespondAnswers, peopleVars
  <2>2. \A p \in Request \ outrun' : request'[p].at \in {"patch", "create", "join"} =>
          p \notin outrun /\ request'[p] = request[p]
    BY <1>19, <1>0, Moves DEF RespondAnswers, NoCall, Stage
  <2> QED BY <2>1, <2>2, ReadsKept
<1>20. ASSUME NEW q \in Request, RespondNotes(q) PROVE ReadInv'
  <2>1. contact' = contact
    BY <1>20 DEF RespondNotes, peopleVars
  <2>2. \A p \in Request \ outrun' : request'[p].at \in {"patch", "create", "join"} =>
          p \notin outrun /\ request'[p] = request[p]
    BY <1>20, <1>0, Moves DEF RespondNotes, NoCall, Closed
  <2> QED BY <2>1, <2>2, ReadsKept
<1>21. ASSUME NEW c \in Contact, NEW word \in Word, AnswersElsewhere(c, word) PROVE ReadInv'
  <2>1. contact' = contact
    BY <1>21 DEF AnswersElsewhere, peopleVars
  <2>2. \A p \in Request \ outrun' : request'[p].at \in {"patch", "create", "join"} =>
          p \notin outrun /\ request'[p] = request[p]
    BY <1>21, <1>0, Moves DEF AnswersElsewhere, NoCall
  <2> QED BY <2>1, <2>2, ReadsKept
<1>22. ASSUME NEW q \in Request, NEW c \in Contact, AskBadge(q, c) PROVE ReadInv'
  <2>1. contact' = contact
    BY <1>22 DEF AskBadge, peopleVars
  <2>2. \A p \in Request \ outrun' : request'[p].at \in {"patch", "create", "join"} =>
          p \notin outrun /\ request'[p] = request[p]
    <3>1. outrun' = outrun \ {q}
      BY <1>22 DEF AskBadge
    <3>2. \/ request' = request
          \/ request' = [request EXCEPT ![q] = [NoCall EXCEPT !.at = "mint", !.kind = "badge", !.contact = c]]
      BY <1>22 DEF AskBadge
    <3>3. request[q].at = "idle"
      BY <1>22 DEF AskBadge
    <3>4. CASE request' = request
      BY <3>1, <3>3, <3>4
    <3> DEFINE f == [NoCall EXCEPT !.at = "mint", !.kind = "badge", !.contact = c]
    <3>5. f.at = "mint"
      BY DEF NoCall
    <3> HIDE DEF f
    <3>6. CASE request' = [request EXCEPT ![q] = f]
      <4>1. request'[q].at = "mint" /\ \A p \in Request \ {q} : request'[p] = request[p]
        BY <1>0, <3>5, <3>6
      <4> QED BY <3>1, <4>1
    <3> QED BY <3>2, <3>4, <3>6 DEF f
  <2> QED BY <2>1, <2>2, ReadsKept
<1>23. ASSUME NEW q \in Request, MintBadge(q) PROVE ReadInv'
  <2>1. contact' = contact
    BY <1>23 DEF MintBadge, peopleVars
  <2>2. \A p \in Request \ outrun' : request'[p].at \in {"patch", "create", "join"} =>
          p \notin outrun /\ request'[p] = request[p]
    BY <1>23, <1>0, Moves DEF MintBadge, NoCall, Closed
  <2> QED BY <2>1, <2>2, ReadsKept
<1>24. CASE UNCHANGED attendanceVars
  BY <1>24 DEF attendanceVars, ReadInv, ReadOf, ContactsOf, Meets
<1> QED
  BY <1>1, <1>2, <1>3, <1>4, <1>5, <1>6, <1>7, <1>8, <1>9, <1>10, <1>11, <1>12, <1>13, <1>14, <1>15, <1>16, <1>17, <1>18, <1>19, <1>20, <1>21, <1>22, <1>23, <1>24 DEF AttendanceNext, FormStep, BookStep, EventStep

-----------------------------------------------------------------------------
(* Types. *)

LEMMA AttendanceInitTyped == AttendanceInit => TypeInv
<1> SUFFICES ASSUME AttendanceInit PROVE TypeInv
  OBVIOUS
<1>1. NoCall \in Call
  BY DEF NoCall, NoRow, Call, Stage, Errand, PhoneOrBlank, EmailOrBlank, Row, Word
<1>2. PICK b \in Beginnings : /\ contact = b.contact /\ customer = b.customer
                             /\ participant = b.participant /\ agenda = b.agenda
  BY DEF AttendanceInit
<1>3. contact \in [Contact -> Row] /\ customer \in Seq(Customer) /\ agenda \in [Errand -> Nat]
  BY <1>2, AttendanceAssumption DEF Row, NoRow, PhoneOrBlank, EmailOrBlank
<1>4. {NoParticipant, [NoParticipant EXCEPT !.status = "invited"]} \subseteq Participant
  BY DEF NoParticipant, Participant
<1>5. participant \in [Contact -> Participant]
  BY <1>2, <1>4, AttendanceAssumption
<1>6. request = [q \in Request |-> NoCall] /\ invitation = << >> /\ minted = 0
  BY DEF AttendanceInit
<1>7. outrun = {} /\ entered = {} /\ mixed = {} /\ handed = {} /\ raced = {}
  BY DEF AttendanceInit
<1>8. AttendanceTypeOK
  BY <1>1, <1>3, <1>5, <1>6, <1>7 DEF AttendanceTypeOK
<1>9. Named
  BY <1>6 DEF Named, NoCall, About
<1> QED BY <1>8, <1>9 DEF TypeInv

\* A call is put in the place of another.
LEMMA CallSet ==
  ASSUME TypeInv, NEW q \in Request, NEW f \in Call, f.at \in About => f.contact \in Contact,
         request' = [request EXCEPT ![q] = f]
  PROVE  request' \in [Request -> Call] /\ Named'
<1>1. request \in [Request -> Call]
  BY DEF TypeInv, AttendanceTypeOK
<1> QED BY <1>1 DEF TypeInv, Named

LEMMA CallMoves ==
  ASSUME TypeInv, NEW q \in Request
  PROVE  /\ Closes(q) => request' \in [Request -> Call] /\ Named'
         /\ \A stage \in Stage : (Goes(q, stage) /\ (stage \in About => request[q].contact \in Contact))
              => request' \in [Request -> Call] /\ Named'
<1>1. request \in [Request -> Call]
  BY DEF TypeInv, AttendanceTypeOK
<1>2. NoCall \in Call /\ NoCall.at \notin About
  BY DEF NoCall, NoRow, Call, Stage, Errand, PhoneOrBlank, EmailOrBlank, Row, Word, About
<1>3. ASSUME Closes(q) PROVE request' \in [Request -> Call] /\ Named'
  BY <1>2, <1>3, CallSet DEF Closes
<1>4. ASSUME NEW stage \in Stage, Goes(q, stage), stage \in About => request[q].contact \in Contact
      PROVE  request' \in [Request -> Call] /\ Named'
  BY <1>1, <1>4 DEF TypeInv, Goes, Named, Call
<1> QED BY <1>3, <1>4

LEMMA InsertTyped ==
  ASSUME contact \in [Contact -> Row], NEW c \in Contact, NEW phone \in PhoneOrBlank, NEW email \in EmailOrBlank,
         Insert(c, phone, email)
  PROVE  contact' \in [Contact -> Row]
  BY DEF Insert, Row

LEMMA BlankParticipant == NoParticipant \in Participant
  BY DEF NoParticipant, Participant

LEMMA TokenTyped ==
  ASSUME participant \in [Contact -> Participant], minted \in Nat, NEW c \in Contact
  PROVE  minted + 1 \in Nat /\ [participant EXCEPT ![c].token = minted + 1] \in [Contact -> Participant]
<1>1. minted + 1 \in Nat
  OBVIOUS
<1>2. [participant[c] EXCEPT !.token = minted + 1] \in Participant
  BY <1>1 DEF Participant
<1>3. [participant EXCEPT ![c].token = minted + 1] = [participant EXCEPT ![c] = [participant[c] EXCEPT !.token = minted + 1]]
  OBVIOUS
<1> QED BY <1>1, <1>2, <1>3

\* The numbers of customers and appointments.
LEMMA CustomerNumbers ==
  ASSUME customer \in Seq(Customer)
  PROVE  \A phone, email : SomeCustomer(phone, email) \subseteq Nat
  BY DEF SomeCustomer, CustomersOf

\* The appointments that an invitation or an answer writes are appointments.
LEMMA RowTyped ==
  \A r \in Invitation, v \in BOOLEAN, st \in {"SCHEDULED", "CONFIRMED", "CANCELLED"} :
    [r EXCEPT !.status = st, !.shared = v] \in Invitation
  BY DEF Invitation

LEMMA SharedTyped == \A r, c : (r.shared \/ r.owner # c) \in BOOLEAN
  OBVIOUS

LEMMA Marked ==
  ASSUME invitation \in Seq(Invitation), NEW i \in Nat, NEW c
  PROVE  [invitation EXCEPT ![i].status = "SCHEDULED", ![i].shared = @ \/ invitation[i].owner # c] \in Seq(Invitation)
<1> DEFINE v == invitation[i].shared \/ invitation[i].owner # c
           row == [invitation[i] EXCEPT !.status = "SCHEDULED", !.shared = v]
           s == [invitation EXCEPT ![i].status = "SCHEDULED", ![i].shared = @ \/ invitation[i].owner # c]
<1>1. s = [invitation EXCEPT ![i] = row]
  OBVIOUS
<1>2. v \in BOOLEAN
  BY SharedTyped
<1>3. i \in 1..Len(invitation) => invitation[i] \in Invitation
  OBVIOUS
<1> HIDE DEF v, s
<1>4. i \in 1..Len(invitation) => row \in Invitation
  BY <1>2, <1>3, RowTyped
<1> HIDE DEF row
<1>5. [invitation EXCEPT ![i] = row] \in Seq(Invitation)
  <2>1. CASE i \in 1..Len(invitation)
    BY <1>4, <2>1
  <2>2. CASE i \notin 1..Len(invitation)
    <3>1. [invitation EXCEPT ![i] = row] = invitation
      BY <2>2
    <3> QED BY <3>1
  <2> QED BY <2>1, <2>2
<1> QED BY <1>1, <1>5 DEF s

LEMMA Answered ==
  ASSUME invitation \in Seq(Invitation), NEW f, NEW word \in Word
  PROVE  [i \in DOMAIN invitation |->
            IF invitation[i].customer = f.customer
            THEN [invitation[i] EXCEPT !.status = StatusOf(word), !.shared = @ \/ invitation[i].owner # f.contact]
            ELSE invitation[i]] \in Seq(Invitation)
<1>1. StatusOf(word) \in {"SCHEDULED", "CONFIRMED", "CANCELLED"}
  BY DEF StatusOf, Word
<1> DEFINE v(i) == invitation[i].shared \/ invitation[i].owner # f.contact
           row(i) == [invitation[i] EXCEPT !.status = StatusOf(word), !.shared = v(i)]
<1>2. \A i \in 1..Len(invitation) : v(i) \in BOOLEAN /\ invitation[i] \in Invitation
  BY SharedTyped
<1> HIDE DEF v
<1>3. \A i \in 1..Len(invitation) : row(i) \in Invitation
  BY <1>1, <1>2, RowTyped
<1> HIDE DEF row
<1>4. [i \in DOMAIN invitation |-> IF invitation[i].customer = f.customer THEN row(i) ELSE invitation[i]] \in Seq(Invitation)
  BY <1>3
<1> QED BY <1>4 DEF row, v

LEMMA CountsDown ==
  ASSUME agenda \in [Errand -> Nat], NEW k \in Errand, Comes(k)
  PROVE  agenda' \in [Errand -> Nat]
  BY DEF Comes

\* Every step keeps the types.
LEMMA TypeStep == TypeInv /\ [AttendanceNext]_attendanceVars => TypeInv'
<1> SUFFICES ASSUME TypeInv, [AttendanceNext]_attendanceVars PROVE TypeInv'
  OBVIOUS
<1>0. /\ AttendanceTypeOK /\ Named
      /\ request \in [Request -> Call] /\ contact \in [Contact -> Row] /\ customer \in Seq(Customer)
      /\ participant \in [Contact -> Participant] /\ invitation \in Seq(Invitation)
      /\ minted \in Nat /\ agenda \in [Errand -> Nat]
      /\ outrun \subseteq Request /\ entered \subseteq Contact /\ mixed \subseteq Contact
      /\ raced \subseteq Contact /\ handed \subseteq Contact \X Nat
  BY DEF TypeInv, AttendanceTypeOK
<1>1. ASSUME NEW q \in Request, NEW phone \in PhoneOrBlank, NEW email \in EmailOrBlank, SubmitForm(q, phone, email) PROVE TypeInv'
  <2>1. request' \in [Request -> Call] /\ Named'
    <3>1. CASE \E c \in ContactsOf(phone, email) :
            request' = [request EXCEPT ![q] = [NoCall EXCEPT !.at = "patch", !.phone = phone,
                                                !.email = email, !.contact = c, !.saw = contact[c]]]
      <4>1. PICK c \in Contact :
              request' = [request EXCEPT ![q] = [NoCall EXCEPT !.at = "patch", !.phone = phone,
                                                  !.email = email, !.contact = c, !.saw = contact[c]]]
        BY <3>1 DEF ContactsOf
      <4> DEFINE f == [NoCall EXCEPT !.at = "patch", !.phone = phone, !.email = email,
                                     !.contact = c, !.saw = contact[c]]
      <4>2. f \in Call /\ f.contact \in Contact
        BY <1>0 DEF Call, NoCall, NoRow, Row, Stage, Errand, Word, About, PhoneOrBlank, EmailOrBlank
      <4> HIDE DEF f
      <4>3. request' = [request EXCEPT ![q] = f]
        BY <4>1 DEF f
      <4> QED BY <4>2, <4>3, CallSet
    <3>2. CASE request' = [request EXCEPT ![q] = [NoCall EXCEPT !.at = "create", !.phone = phone, !.email = email]]
      <4> DEFINE f == [NoCall EXCEPT !.at = "create", !.phone = phone, !.email = email]
      <4>1. f \in Call /\ f.at \notin About
        BY DEF Call, NoCall, NoRow, Row, Stage, Errand, Word, About, PhoneOrBlank, EmailOrBlank
      <4>2. request' = [request EXCEPT ![q] = f]
        BY <3>2
      <4> HIDE DEF f
      <4> QED BY <4>1, <4>2, CallSet
    <3> QED BY <1>1, <3>1, <3>2 DEF SubmitForm
  <2>2. contact' \in [Contact -> Row] /\ customer' \in Seq(Customer)
    BY <1>0, <1>1 DEF SubmitForm, peopleVars
  <2>3. participant' \in [Contact -> Participant] /\ minted' \in Nat
    BY <1>0, <1>1 DEF SubmitForm, eventVars
  <2>4. invitation' \in Seq(Invitation)
    BY <1>0, <1>1 DEF SubmitForm, eventVars
  <2>5. agenda' \in [Errand -> Nat]
    BY <1>0, <1>1, CountsDown DEF SubmitForm, Errand
  <2>6. /\ outrun' \subseteq Request /\ entered' \subseteq Contact /\ mixed' \subseteq Contact
        /\ raced' \subseteq Contact /\ handed' \subseteq Contact \X Nat
    BY <1>0, <1>1 DEF SubmitForm, tellVars, Named, About, Participant
  <2> QED BY <2>1, <2>2, <2>3, <2>4, <2>5, <2>6 DEF TypeInv, AttendanceTypeOK
<1>2. ASSUME NEW q \in Request, FormCreates(q) PROVE TypeInv'
  <2>1. request' \in [Request -> Call] /\ Named'
    <3>1. CASE Closes(q)
      BY <3>1, CallMoves
    <3>2. ASSUME NEW c \in Contact, request' = [request EXCEPT ![q].at = "join", ![q].contact = c]
          PROVE  request' \in [Request -> Call] /\ Named'
      <4> DEFINE f == [request[q] EXCEPT !.at = "join", !.contact = c]
      <4>1. f \in Call /\ f.contact \in Contact
        BY <1>0 DEF Call, Stage
      <4>2. request' = [request EXCEPT ![q] = f]
        BY <1>0, <3>2
      <4> HIDE DEF f
      <4> QED BY <4>1, <4>2, CallSet
    <3> QED BY <1>2, <3>1, <3>2 DEF FormCreates, Closed
  <2>2. contact' \in [Contact -> Row] /\ customer' \in Seq(Customer)
    <3>1. UNCHANGED contact \/ \E c \in Contact : Insert(c, request[q].phone, request[q].email)
      BY <1>2 DEF FormCreates
    <3>2. request[q].phone \in PhoneOrBlank /\ request[q].email \in EmailOrBlank
      BY <1>0 DEF Call
    <3>3. customer' = customer
      BY <1>2 DEF FormCreates
    <3> QED BY <1>0, <3>1, <3>2, <3>3, InsertTyped
  <2>3. participant' \in [Contact -> Participant] /\ minted' \in Nat
    BY <1>0, <1>2 DEF FormCreates, eventVars
  <2>4. invitation' \in Seq(Invitation)
    BY <1>0, <1>2 DEF FormCreates, eventVars
  <2>5. agenda' \in [Errand -> Nat]
    BY <1>0, <1>2 DEF FormCreates
  <2>6. /\ outrun' \subseteq Request /\ entered' \subseteq Contact /\ mixed' \subseteq Contact
        /\ raced' \subseteq Contact /\ handed' \subseteq Contact \X Nat
    BY <1>0, <1>2 DEF FormCreates, Closed, Outruns, tellVars, Named, About, Participant
  <2> QED BY <2>1, <2>2, <2>3, <2>4, <2>5, <2>6 DEF TypeInv, AttendanceTypeOK
<1>3. ASSUME NEW q \in Request, FormPatches(q) PROVE TypeInv'
  <2>1. request' \in [Request -> Call] /\ Named'
    <3>1. request[q].contact \in Contact /\ Goes(q, "join") /\ "join" \in Stage
      BY <1>0, <1>3 DEF FormPatches, Named, About, Stage
    <3> QED BY <3>1, CallMoves
  <2>2. contact' \in [Contact -> Row] /\ customer' \in Seq(Customer)
    <3> DEFINE f == request[q]
               c == f.contact
               phone == IF f.saw.phone = Blank THEN f.phone ELSE Blank
               email == IF f.saw.email = Blank THEN f.email ELSE Blank
    <3>1. phone \in PhoneOrBlank /\ email \in EmailOrBlank
      BY <1>0 DEF Call, PhoneOrBlank, EmailOrBlank
    <3>2. c \in Contact
      BY <1>0, <1>3 DEF FormPatches, Named, About
    <3>3. \/ UNCHANGED contact
          \/ contact' = [contact EXCEPT ![c].phone = IF phone # Blank THEN phone ELSE @,
                                       ![c].email = IF email # Blank THEN email ELSE @]
      BY <1>3 DEF FormPatches
    <3>4. customer' = customer
      BY <1>3 DEF FormPatches
    <3> HIDE DEF f, c, phone, email
    <3>5. contact' \in [Contact -> Row]
      <4>1. [contact EXCEPT ![c].phone = IF phone # Blank THEN phone ELSE @,
                            ![c].email = IF email # Blank THEN email ELSE @] \in [Contact -> Row]
        BY <1>0, <3>1, <3>2, PatchTyped
      <4> QED BY <1>0, <3>3, <4>1
    <3> QED BY <1>0, <3>4, <3>5
  <2>3. participant' \in [Contact -> Participant] /\ minted' \in Nat
    BY <1>0, <1>3 DEF FormPatches, eventVars
  <2>4. invitation' \in Seq(Invitation)
    BY <1>0, <1>3 DEF FormPatches, eventVars
  <2>5. agenda' \in [Errand -> Nat]
    BY <1>0, <1>3 DEF FormPatches
  <2>6. /\ outrun' \subseteq Request /\ entered' \subseteq Contact /\ mixed' \subseteq Contact
        /\ raced' \subseteq Contact /\ handed' \subseteq Contact \X Nat
    BY <1>0, <1>3 DEF FormPatches, Outruns, tellVars, Named, About, Participant
  <2> QED BY <2>1, <2>2, <2>3, <2>4, <2>5, <2>6 DEF TypeInv, AttendanceTypeOK
<1>4. ASSUME NEW q \in Request, FormJoins(q) PROVE TypeInv'
  <2>1. request' \in [Request -> Call] /\ Named'
    BY <1>4, CallMoves DEF FormJoins, Closed
  <2>2. contact' \in [Contact -> Row] /\ customer' \in Seq(Customer)
    BY <1>0, <1>4 DEF FormJoins, peopleVars
  <2>3. participant' \in [Contact -> Participant] /\ minted' \in Nat
    <3>1. request[q].contact \in Contact
      BY <1>0, <1>4 DEF FormJoins, Named, About
    <3> QED BY <1>0, <1>4, <3>1, JoinedKeeps DEF FormJoins
  <2>4. invitation' \in Seq(Invitation)
    BY <1>0, <1>4 DEF FormJoins, eventVars
  <2>5. agenda' \in [Errand -> Nat]
    BY <1>0, <1>4 DEF FormJoins
  <2>6. /\ outrun' \subseteq Request /\ entered' \subseteq Contact /\ mixed' \subseteq Contact
        /\ raced' \subseteq Contact /\ handed' \subseteq Contact \X Nat
    BY <1>0, <1>4 DEF FormJoins, Closed, tellVars, Named, About, Participant
  <2> QED BY <2>1, <2>2, <2>3, <2>4, <2>5, <2>6 DEF TypeInv, AttendanceTypeOK
<1>5. ASSUME NEW q \in Request, NEW phone \in PhoneOrBlank, NEW email \in EmailOrBlank, CreateContact(q, phone, email) PROVE TypeInv'
  <2>1. request' \in [Request -> Call] /\ Named'
    <3> DEFINE f == [NoCall EXCEPT !.at = "insert", !.kind = "create", !.phone = phone, !.email = email]
    <3>1. f \in Call /\ (f.at \in About => f.contact \in Contact)
      BY <1>0 DEF Call, NoCall, NoRow, Row, Stage, Errand, Word, About, PhoneOrBlank, EmailOrBlank
    <3>2. request' = [request EXCEPT ![q] = f]
      BY <1>5 DEF CreateContact
    <3> HIDE DEF f
    <3> QED BY <3>1, <3>2, CallSet
  <2>2. contact' \in [Contact -> Row] /\ customer' \in Seq(Customer)
    BY <1>0, <1>5 DEF CreateContact, peopleVars
  <2>3. participant' \in [Contact -> Participant] /\ minted' \in Nat
    BY <1>0, <1>5 DEF CreateContact, eventVars
  <2>4. invitation' \in Seq(Invitation)
    BY <1>0, <1>5 DEF CreateContact, eventVars
  <2>5. agenda' \in [Errand -> Nat]
    BY <1>0, <1>5, CountsDown DEF CreateContact, Errand
  <2>6. /\ outrun' \subseteq Request /\ entered' \subseteq Contact /\ mixed' \subseteq Contact
        /\ raced' \subseteq Contact /\ handed' \subseteq Contact \X Nat
    BY <1>0, <1>5 DEF CreateContact, tellVars, Named, About, Participant
  <2> QED BY <2>1, <2>2, <2>3, <2>4, <2>5, <2>6 DEF TypeInv, AttendanceTypeOK
<1>6. ASSUME NEW q \in Request, InsertContact(q) PROVE TypeInv'
  <2>1. request' \in [Request -> Call] /\ Named'
    BY <1>6, CallMoves DEF InsertContact, Closed
  <2>2. contact' \in [Contact -> Row] /\ customer' \in Seq(Customer)
    <3>1. UNCHANGED contact \/ \E c \in Contact : Insert(c, request[q].phone, request[q].email)
      BY <1>6 DEF InsertContact
    <3>2. request[q].phone \in PhoneOrBlank /\ request[q].email \in EmailOrBlank
      BY <1>0 DEF Call
    <3>3. customer' = customer
      BY <1>6 DEF InsertContact
    <3> QED BY <1>0, <3>1, <3>2, <3>3, InsertTyped
  <2>3. participant' \in [Contact -> Participant] /\ minted' \in Nat
    BY <1>0, <1>6 DEF InsertContact, eventVars
  <2>4. invitation' \in Seq(Invitation)
    BY <1>0, <1>6 DEF InsertContact, eventVars
  <2>5. agenda' \in [Errand -> Nat]
    BY <1>0, <1>6 DEF InsertContact
  <2>6. /\ outrun' \subseteq Request /\ entered' \subseteq Contact /\ mixed' \subseteq Contact
        /\ raced' \subseteq Contact /\ handed' \subseteq Contact \X Nat
    BY <1>0, <1>6 DEF InsertContact, Outruns, tellVars, Named, About, Participant
  <2> QED BY <2>1, <2>2, <2>3, <2>4, <2>5, <2>6 DEF TypeInv, AttendanceTypeOK
<1>7. ASSUME NEW c \in Contact, NEW phone \in PhoneOrBlank, NEW email \in EmailOrBlank, UpdateContact(c, phone, email) PROVE TypeInv'
  <2>1. request' \in [Request -> Call] /\ Named'
    BY <1>0, <1>7 DEF UpdateContact, Named
  <2>2. contact' \in [Contact -> Row] /\ customer' \in Seq(Customer)
    BY <1>0, <1>7, InsertTyped DEF UpdateContact
  <2>3. participant' \in [Contact -> Participant] /\ minted' \in Nat
    BY <1>0, <1>7 DEF UpdateContact, eventVars
  <2>4. invitation' \in Seq(Invitation)
    BY <1>0, <1>7 DEF UpdateContact, eventVars
  <2>5. agenda' \in [Errand -> Nat]
    BY <1>0, <1>7, CountsDown DEF UpdateContact, Errand
  <2>6. /\ outrun' \subseteq Request /\ entered' \subseteq Contact /\ mixed' \subseteq Contact
        /\ raced' \subseteq Contact /\ handed' \subseteq Contact \X Nat
    BY <1>0, <1>7 DEF UpdateContact, tellVars, Named, About, Participant
  <2> QED BY <2>1, <2>2, <2>3, <2>4, <2>5, <2>6 DEF TypeInv, AttendanceTypeOK
<1>8. ASSUME NEW c \in Contact, RemoveContact(c) PROVE TypeInv'
  <2>1. request' \in [Request -> Call] /\ Named'
    BY <1>0, <1>8 DEF RemoveContact, Named
  <2>2. contact' \in [Contact -> Row] /\ customer' \in Seq(Customer)
    <3>1. [NoRow EXCEPT !.st = "gone"] \in Row
      BY DEF NoRow, Row, PhoneOrBlank, EmailOrBlank
    <3> QED BY <1>0, <1>8, <3>1 DEF RemoveContact
  <2>3. participant' \in [Contact -> Participant] /\ minted' \in Nat
    BY <1>0, <1>8, BlankParticipant DEF RemoveContact
  <2>4. invitation' \in Seq(Invitation)
    BY <1>0, <1>8 DEF RemoveContact, eventVars
  <2>5. agenda' \in [Errand -> Nat]
    BY <1>0, <1>8, CountsDown DEF RemoveContact, Errand
  <2>6. /\ outrun' \subseteq Request /\ entered' \subseteq Contact /\ mixed' \subseteq Contact
        /\ raced' \subseteq Contact /\ handed' \subseteq Contact \X Nat
    BY <1>0, <1>8 DEF RemoveContact, tellVars, Named, About, Participant
  <2> QED BY <2>1, <2>2, <2>3, <2>4, <2>5, <2>6 DEF TypeInv, AttendanceTypeOK
<1>9. ASSUME NEW c \in Contact, NEW phone \in PhoneOrBlank, NEW email \in EmailOrBlank, ImportContact(c, phone, email) PROVE TypeInv'
  <2>1. request' \in [Request -> Call] /\ Named'
    BY <1>0, <1>9 DEF ImportContact, Named
  <2>2. contact' \in [Contact -> Row] /\ customer' \in Seq(Customer)
    BY <1>0, <1>9, InsertTyped DEF ImportContact
  <2>3. participant' \in [Contact -> Participant] /\ minted' \in Nat
    BY <1>0, <1>9 DEF ImportContact, eventVars
  <2>4. invitation' \in Seq(Invitation)
    BY <1>0, <1>9 DEF ImportContact, eventVars
  <2>5. agenda' \in [Errand -> Nat]
    BY <1>0, <1>9, CountsDown DEF ImportContact, Errand
  <2>6. /\ outrun' \subseteq Request /\ entered' \subseteq Contact /\ mixed' \subseteq Contact
        /\ raced' \subseteq Contact /\ handed' \subseteq Contact \X Nat
    BY <1>0, <1>9 DEF ImportContact, tellVars, Named, About, Participant
  <2> QED BY <2>1, <2>2, <2>3, <2>4, <2>5, <2>6 DEF TypeInv, AttendanceTypeOK
<1>10. ASSUME NEW q \in Request, NEW phone \in PhoneOrBlank, NEW email \in EmailOrBlank, Book(q, phone, email) PROVE TypeInv'
  <2>1. request' \in [Request -> Call] /\ Named'
    <3> DEFINE f == [NoCall EXCEPT !.at = IF CustomersOf(phone, email) = {} THEN "customer" ELSE "contact",
                     !.kind = "book", !.phone = phone, !.email = email]
    <3>1. f \in Call /\ (f.at \in About => f.contact \in Contact)
      BY <1>0 DEF Call, NoCall, NoRow, Row, Stage, Errand, Word, About, PhoneOrBlank, EmailOrBlank
    <3>2. request' = [request EXCEPT ![q] = f]
      BY <1>10 DEF Book
    <3> HIDE DEF f
    <3> QED BY <3>1, <3>2, CallSet
  <2>2. contact' \in [Contact -> Row] /\ customer' \in Seq(Customer)
    BY <1>0, <1>10 DEF Book, peopleVars
  <2>3. participant' \in [Contact -> Participant] /\ minted' \in Nat
    BY <1>0, <1>10 DEF Book, eventVars
  <2>4. invitation' \in Seq(Invitation)
    BY <1>0, <1>10 DEF Book, eventVars
  <2>5. agenda' \in [Errand -> Nat]
    BY <1>0, <1>10, CountsDown DEF Book, Errand
  <2>6. /\ outrun' \subseteq Request /\ entered' \subseteq Contact /\ mixed' \subseteq Contact
        /\ raced' \subseteq Contact /\ handed' \subseteq Contact \X Nat
    BY <1>0, <1>10 DEF Book, tellVars, Named, About, Participant
  <2> QED BY <2>1, <2>2, <2>3, <2>4, <2>5, <2>6 DEF TypeInv, AttendanceTypeOK
<1>11. ASSUME NEW q \in Request, NEW c \in Contact, Appoint(q, c) PROVE TypeInv'
  <2>1. request' \in [Request -> Call] /\ Named'
    <3> DEFINE f == [NoCall EXCEPT !.at = "customer", !.kind = "appoint",
                     !.phone = contact[c].phone, !.email = contact[c].email]
    <3>1. f \in Call /\ (f.at \in About => f.contact \in Contact)
      BY <1>0 DEF Call, NoCall, NoRow, Row, Stage, Errand, Word, About, PhoneOrBlank, EmailOrBlank
    <3>2. request' = [request EXCEPT ![q] = f]
      BY <1>11 DEF Appoint
    <3> HIDE DEF f
    <3> QED BY <3>1, <3>2, CallSet
  <2>2. contact' \in [Contact -> Row] /\ customer' \in Seq(Customer)
    BY <1>0, <1>11 DEF Appoint, peopleVars
  <2>3. participant' \in [Contact -> Participant] /\ minted' \in Nat
    BY <1>0, <1>11 DEF Appoint, eventVars
  <2>4. invitation' \in Seq(Invitation)
    BY <1>0, <1>11 DEF Appoint, eventVars
  <2>5. agenda' \in [Errand -> Nat]
    BY <1>0, <1>11, CountsDown DEF Appoint, Errand
  <2>6. /\ outrun' \subseteq Request /\ entered' \subseteq Contact /\ mixed' \subseteq Contact
        /\ raced' \subseteq Contact /\ handed' \subseteq Contact \X Nat
    BY <1>0, <1>11 DEF Appoint, tellVars, Named, About, Participant
  <2> QED BY <2>1, <2>2, <2>3, <2>4, <2>5, <2>6 DEF TypeInv, AttendanceTypeOK
<1>12. ASSUME NEW q \in Request, CreateCustomer(q) PROVE TypeInv'
  <2>1. request' \in [Request -> Call] /\ Named'
    <3>1. Closes(q) \/ Goes(q, "contact")
      BY <1>12 DEF CreateCustomer, Closed
    <3>2. "contact" \in Stage \ About
      BY DEF Stage, About
    <3> QED BY <3>1, <3>2, CallMoves
  <2>2. contact' \in [Contact -> Row] /\ customer' \in Seq(Customer)
    <3>1. [phone |-> request[q].phone, email |-> request[q].email] \in Customer
      BY <1>0 DEF Call, Customer
    <3> QED BY <1>0, <1>12, <3>1 DEF CreateCustomer
  <2>3. participant' \in [Contact -> Participant] /\ minted' \in Nat
    BY <1>0, <1>12 DEF CreateCustomer, eventVars
  <2>4. invitation' \in Seq(Invitation)
    BY <1>0, <1>12 DEF CreateCustomer, eventVars
  <2>5. agenda' \in [Errand -> Nat]
    BY <1>0, <1>12 DEF CreateCustomer
  <2>6. /\ outrun' \subseteq Request /\ entered' \subseteq Contact /\ mixed' \subseteq Contact
        /\ raced' \subseteq Contact /\ handed' \subseteq Contact \X Nat
    BY <1>0, <1>12 DEF CreateCustomer, Closed, tellVars, Named, About, Participant
  <2> QED BY <2>1, <2>2, <2>3, <2>4, <2>5, <2>6 DEF TypeInv, AttendanceTypeOK
<1>13. ASSUME NEW q \in Request, FindContact(q) PROVE TypeInv'
  <2>1. request' \in [Request -> Call] /\ Named'
    <3>1. Closes(q) \/ Goes(q, "insert")
      BY <1>13 DEF FindContact, Closed
    <3>2. "insert" \in Stage \ About
      BY DEF Stage, About
    <3> QED BY <3>1, <3>2, CallMoves
  <2>2. contact' \in [Contact -> Row] /\ customer' \in Seq(Customer)
    BY <1>0, <1>13 DEF FindContact, peopleVars
  <2>3. participant' \in [Contact -> Participant] /\ minted' \in Nat
    BY <1>0, <1>13 DEF FindContact, eventVars
  <2>4. invitation' \in Seq(Invitation)
    BY <1>0, <1>13 DEF FindContact, eventVars
  <2>5. agenda' \in [Errand -> Nat]
    BY <1>0, <1>13 DEF FindContact
  <2>6. /\ outrun' \subseteq Request /\ entered' \subseteq Contact /\ mixed' \subseteq Contact
        /\ raced' \subseteq Contact /\ handed' \subseteq Contact \X Nat
    BY <1>0, <1>13 DEF FindContact, Closed, tellVars, Named, About, Participant
  <2> QED BY <2>1, <2>2, <2>3, <2>4, <2>5, <2>6 DEF TypeInv, AttendanceTypeOK
<1>14. ASSUME NEW q \in Request, NEW c \in Contact, Invite(q, c) PROVE TypeInv'
  <2>1. request' \in [Request -> Call] /\ Named'
    <3>a. PICK n \in SomeCustomer(contact[c].phone, contact[c].email),
               i \in {0} \cup DOMAIN invitation :
            request' = [request EXCEPT ![q] =
              [NoCall EXCEPT !.at = "commit", !.kind = "invite", !.contact = c, !.customer = n,
                             !.invitation = i, !.phone = contact[c].phone, !.email = contact[c].email]]
      <4>1. PICK n \in SomeCustomer(contact[c].phone, contact[c].email) :
              \E i \in IF \E j \in DOMAIN invitation : invitation[j].customer = n
                       THEN {j \in DOMAIN invitation : invitation[j].customer = n} ELSE {0} :
                request' = [request EXCEPT ![q] =
                  [NoCall EXCEPT !.at = "commit", !.kind = "invite", !.contact = c, !.customer = n,
                                 !.invitation = i, !.phone = contact[c].phone, !.email = contact[c].email]]
        BY <1>14 DEF Invite
      <4> QED BY <4>1
    <3>b. n \in Nat /\ i \in Nat
      BY <1>0, CustomerNumbers
    <3>1. request' = [request EXCEPT ![q] =
            [NoCall EXCEPT !.at = "commit", !.kind = "invite", !.contact = c, !.customer = n,
                           !.invitation = i, !.phone = contact[c].phone, !.email = contact[c].email]]
      BY <3>a
    <3> DEFINE f == [NoCall EXCEPT !.at = "commit", !.kind = "invite", !.contact = c, !.customer = n,
                             !.invitation = i, !.phone = contact[c].phone, !.email = contact[c].email]
    <3>2. f \in Call /\ f.contact \in Contact
      BY <1>0, <3>b DEF Call, NoCall, NoRow, Row, Stage, Errand, Word, About, PhoneOrBlank, EmailOrBlank
    <3>3. request' = [request EXCEPT ![q] = f]
      BY <3>1
    <3> HIDE DEF f
    <3> QED BY <3>2, <3>3, CallSet
  <2>2. contact' \in [Contact -> Row] /\ customer' \in Seq(Customer)
    BY <1>0, <1>14 DEF Invite, peopleVars
  <2>3. participant' \in [Contact -> Participant] /\ minted' \in Nat
    BY <1>0, <1>14 DEF Invite, eventVars
  <2>4. invitation' \in Seq(Invitation)
    BY <1>0, <1>14 DEF Invite, eventVars
  <2>5. agenda' \in [Errand -> Nat]
    BY <1>0, <1>14, CountsDown DEF Invite, Errand
  <2>6. /\ outrun' \subseteq Request /\ entered' \subseteq Contact /\ mixed' \subseteq Contact
        /\ raced' \subseteq Contact /\ handed' \subseteq Contact \X Nat
    BY <1>0, <1>14 DEF Invite, Crosses, tellVars, Named, About, Participant
  <2> QED BY <2>1, <2>2, <2>3, <2>4, <2>5, <2>6 DEF TypeInv, AttendanceTypeOK
<1>15. ASSUME NEW q \in Request, InviteCommits(q) PROVE TypeInv'
  <2>1. request' \in [Request -> Call] /\ Named'
    BY <1>15, CallMoves DEF InviteCommits, Closed
  <2>2. contact' \in [Contact -> Row] /\ customer' \in Seq(Customer)
    <3>1. [phone |-> request[q].phone, email |-> request[q].email] \in Customer
      BY <1>0 DEF Call, Customer
    <3>2. /\ contact' = contact
          /\ \/ customer' = customer
             \/ customer' = Append(customer, [phone |-> request[q].phone, email |-> request[q].email])
      BY <1>15 DEF InviteCommits
    <3> DEFINE x == [phone |-> request[q].phone, email |-> request[q].email]
    <3> HIDE DEF x
    <3>3. x \in Customer => Append(customer, x) \in Seq(Customer)
      BY <1>0
    <3> QED BY <1>0, <3>1, <3>2, <3>3 DEF x
  <2>3. participant' \in [Contact -> Participant] /\ minted' \in Nat
    <3>1. request[q].contact \in Contact
      BY <1>0, <1>15 DEF InviteCommits, Named, About
    <3>2. Joined(request[q].contact) \/ UNCHANGED <<participant, minted>>
      BY <1>15 DEF InviteCommits
    <3> QED BY <1>0, <3>1, <3>2, JoinedKeeps
  <2>4. invitation' \in Seq(Invitation)
    <3> DEFINE f == request[q]
               n == IF f.customer = 0 THEN Len(customer) + 1 ELSE f.customer
               row == [customer |-> n, status |-> "SCHEDULED", owner |-> f.contact, shared |-> FALSE]
               old == [invitation EXCEPT ![f.invitation].status = "SCHEDULED",
                                         ![f.invitation].shared = @ \/ invitation[f.invitation].owner # f.contact]
    <3>1. f.contact \in Contact /\ n \in Nat /\ f.invitation \in Nat
      BY <1>0, <1>15 DEF InviteCommits, Named, About, Call
    <3>2. row \in Invitation
      BY <3>1 DEF Invitation
    <3>3. old \in Seq(Invitation)
      BY <1>0, <3>1, Marked
    <3>4. invitation' = invitation \/ invitation' = Append(invitation, row) \/ invitation' = old
      BY <1>15 DEF InviteCommits
    <3> HIDE DEF row, old
    <3>5. Append(invitation, row) \in Seq(Invitation)
      BY <1>0, <3>2
    <3> QED BY <1>0, <3>3, <3>4, <3>5
  <2>5. agenda' \in [Errand -> Nat]
    BY <1>0, <1>15 DEF InviteCommits
  <2>6. /\ outrun' \subseteq Request /\ entered' \subseteq Contact /\ mixed' \subseteq Contact
        /\ raced' \subseteq Contact /\ handed' \subseteq Contact \X Nat
    BY <1>0, <1>15 DEF InviteCommits, Closed, tellVars, Named, About, Participant
  <2> QED BY <2>1, <2>2, <2>3, <2>4, <2>5, <2>6 DEF TypeInv, AttendanceTypeOK
<1>16. ASSUME NEW c \in Contact, InviteAudience(c) PROVE TypeInv'
  <2>1. request' \in [Request -> Call] /\ Named'
    BY <1>0, <1>16 DEF InviteAudience, Named
  <2>2. contact' \in [Contact -> Row] /\ customer' \in Seq(Customer)
    BY <1>0, <1>16 DEF InviteAudience, peopleVars
  <2>3. participant' \in [Contact -> Participant] /\ minted' \in Nat
    BY <1>0, <1>16, JoinedKeeps DEF InviteAudience
  <2>4. invitation' \in Seq(Invitation)
    BY <1>0, <1>16 DEF InviteAudience, eventVars
  <2>5. agenda' \in [Errand -> Nat]
    BY <1>0, <1>16, CountsDown DEF InviteAudience, Errand
  <2>6. /\ outrun' \subseteq Request /\ entered' \subseteq Contact /\ mixed' \subseteq Contact
        /\ raced' \subseteq Contact /\ handed' \subseteq Contact \X Nat
    BY <1>0, <1>16 DEF InviteAudience, tellVars, Named, About, Participant
  <2> QED BY <2>1, <2>2, <2>3, <2>4, <2>5, <2>6 DEF TypeInv, AttendanceTypeOK
<1>17. ASSUME NEW q \in Request, NEW c \in Contact, NEW word \in Word, Respond(q, c, word) PROVE TypeInv'
  <2>1. request' \in [Request -> Call] /\ Named'
    <3> DEFINE f == [NoCall EXCEPT !.at = "look", !.kind = "respond", !.word = word,
                     !.contact = c, !.phone = contact[c].phone, !.email = contact[c].email]
    <3>1. f \in Call /\ (f.at \in About => f.contact \in Contact)
      BY <1>0 DEF Call, NoCall, NoRow, Row, Stage, Errand, Word, About, PhoneOrBlank, EmailOrBlank
    <3>2. request' = [request EXCEPT ![q] = f]
      BY <1>17 DEF Respond
    <3> HIDE DEF f
    <3> QED BY <3>1, <3>2, CallSet
  <2>2. contact' \in [Contact -> Row] /\ customer' \in Seq(Customer)
    BY <1>0, <1>17 DEF Respond, peopleVars
  <2>3. participant' \in [Contact -> Participant] /\ minted' \in Nat
    BY <1>0, <1>17 DEF Respond, eventVars
  <2>4. invitation' \in Seq(Invitation)
    BY <1>0, <1>17 DEF Respond, eventVars
  <2>5. agenda' \in [Errand -> Nat]
    BY <1>0, <1>17, CountsDown DEF Respond, Errand
  <2>6. /\ outrun' \subseteq Request /\ entered' \subseteq Contact /\ mixed' \subseteq Contact
        /\ raced' \subseteq Contact /\ handed' \subseteq Contact \X Nat
    BY <1>0, <1>17 DEF Respond, Crosses, tellVars, Named, About, Participant
  <2> QED BY <2>1, <2>2, <2>3, <2>4, <2>5, <2>6 DEF TypeInv, AttendanceTypeOK
<1>18. ASSUME NEW q \in Request, RespondLooks(q) PROVE TypeInv'
  <2>1. request' \in [Request -> Call] /\ Named'
    <3>1. PICK n \in Nat :
            request' = [request EXCEPT ![q].at = IF n = 0 THEN "note" ELSE "answer", ![q].customer = n]
      BY <1>0, <1>18, CustomerNumbers DEF RespondLooks
    <3>2. request[q].contact \in Contact
      BY <1>0, <1>18 DEF RespondLooks, Named, About
    <3> DEFINE f == [request[q] EXCEPT !.at = IF n = 0 THEN "note" ELSE "answer", !.customer = n]
    <3>3. f \in Call /\ f.contact \in Contact
      BY ZenonT(60), <1>0, <3>2 DEF Call, Stage
    <3>4. request' = [request EXCEPT ![q] = f]
      BY <1>0, <3>1
    <3> HIDE DEF f
    <3> QED BY <3>3, <3>4, CallSet
  <2>2. contact' \in [Contact -> Row] /\ customer' \in Seq(Customer)
    BY <1>0, <1>18 DEF RespondLooks, peopleVars
  <2>3. participant' \in [Contact -> Participant] /\ minted' \in Nat
    BY <1>0, <1>18 DEF RespondLooks, eventVars
  <2>4. invitation' \in Seq(Invitation)
    BY <1>0, <1>18 DEF RespondLooks, eventVars
  <2>5. agenda' \in [Errand -> Nat]
    BY <1>0, <1>18 DEF RespondLooks
  <2>6. /\ outrun' \subseteq Request /\ entered' \subseteq Contact /\ mixed' \subseteq Contact
        /\ raced' \subseteq Contact /\ handed' \subseteq Contact \X Nat
    BY <1>0, <1>18 DEF RespondLooks, tellVars, Named, About, Participant
  <2> QED BY <2>1, <2>2, <2>3, <2>4, <2>5, <2>6 DEF TypeInv, AttendanceTypeOK
<1>19. ASSUME NEW q \in Request, RespondAnswers(q) PROVE TypeInv'
  <2>1. request' \in [Request -> Call] /\ Named'
    <3>1. request[q].contact \in Contact /\ Goes(q, "note") /\ "note" \in Stage
      BY <1>0, <1>19 DEF RespondAnswers, Named, About, Stage
    <3> QED BY <3>1, CallMoves
  <2>2. contact' \in [Contact -> Row] /\ customer' \in Seq(Customer)
    BY <1>0, <1>19 DEF RespondAnswers, peopleVars
  <2>3. participant' \in [Contact -> Participant] /\ minted' \in Nat
    BY <1>0, <1>19 DEF RespondAnswers, eventVars
  <2>4. invitation' \in Seq(Invitation)
    BY <1>0, <1>19, Answered DEF RespondAnswers, Call
  <2>5. agenda' \in [Errand -> Nat]
    BY <1>0, <1>19 DEF RespondAnswers
  <2>6. /\ outrun' \subseteq Request /\ entered' \subseteq Contact /\ mixed' \subseteq Contact
        /\ raced' \subseteq Contact /\ handed' \subseteq Contact \X Nat
    BY <1>0, <1>19 DEF RespondAnswers, tellVars, Named, About, Participant
  <2> QED BY <2>1, <2>2, <2>3, <2>4, <2>5, <2>6 DEF TypeInv, AttendanceTypeOK
<1>20. ASSUME NEW q \in Request, RespondNotes(q) PROVE TypeInv'
  <2>1. request' \in [Request -> Call] /\ Named'
    BY <1>20, CallMoves DEF RespondNotes, Closed
  <2>2. contact' \in [Contact -> Row] /\ customer' \in Seq(Customer)
    BY <1>0, <1>20 DEF RespondNotes, peopleVars
  <2>3. participant' \in [Contact -> Participant] /\ minted' \in Nat
    <3>1. \/ participant' = participant
          \/ participant' = [participant EXCEPT ![request[q].contact].status = request[q].word]
      BY <1>20 DEF RespondNotes
    <3>2. request[q].word \in Word /\ minted' = minted
      BY <1>0, <1>20 DEF RespondNotes, Call
    <3> QED BY <1>0, <3>1, <3>2 DEF Participant
  <2>4. invitation' \in Seq(Invitation)
    BY <1>0, <1>20 DEF RespondNotes, eventVars
  <2>5. agenda' \in [Errand -> Nat]
    BY <1>0, <1>20 DEF RespondNotes
  <2>6. /\ outrun' \subseteq Request /\ entered' \subseteq Contact /\ mixed' \subseteq Contact
        /\ raced' \subseteq Contact /\ handed' \subseteq Contact \X Nat
    BY <1>0, <1>20 DEF RespondNotes, Closed, tellVars, Named, About, Participant
  <2> QED BY <2>1, <2>2, <2>3, <2>4, <2>5, <2>6 DEF TypeInv, AttendanceTypeOK
<1>21. ASSUME NEW c \in Contact, NEW word \in Word, AnswersElsewhere(c, word) PROVE TypeInv'
  <2>1. request' \in [Request -> Call] /\ Named'
    BY <1>0, <1>21 DEF AnswersElsewhere, Named
  <2>2. contact' \in [Contact -> Row] /\ customer' \in Seq(Customer)
    BY <1>0, <1>21 DEF AnswersElsewhere, peopleVars
  <2>3. participant' \in [Contact -> Participant] /\ minted' \in Nat
    BY <1>0, <1>21 DEF AnswersElsewhere, Participant
  <2>4. invitation' \in Seq(Invitation)
    BY <1>0, <1>21 DEF AnswersElsewhere, eventVars
  <2>5. agenda' \in [Errand -> Nat]
    BY <1>0, <1>21, CountsDown DEF AnswersElsewhere, Errand
  <2>6. /\ outrun' \subseteq Request /\ entered' \subseteq Contact /\ mixed' \subseteq Contact
        /\ raced' \subseteq Contact /\ handed' \subseteq Contact \X Nat
    BY <1>0, <1>21 DEF AnswersElsewhere, tellVars, Named, About, Participant
  <2> QED BY <2>1, <2>2, <2>3, <2>4, <2>5, <2>6 DEF TypeInv, AttendanceTypeOK
<1>22. ASSUME NEW q \in Request, NEW c \in Contact, AskBadge(q, c) PROVE TypeInv'
  <2>1. request' \in [Request -> Call] /\ Named'
    <3>1. CASE request' = request
      BY <1>0, <3>1 DEF Named
    <3>2. CASE request' = [request EXCEPT ![q] = [NoCall EXCEPT !.at = "mint", !.kind = "badge", !.contact = c]]
      <4> DEFINE f == [NoCall EXCEPT !.at = "mint", !.kind = "badge", !.contact = c]
      <4>1. f \in Call /\ f.contact \in Contact
        BY DEF Call, NoCall, NoRow, Row, Stage, Errand, Word, About, PhoneOrBlank, EmailOrBlank
      <4>2. request' = [request EXCEPT ![q] = f]
        BY <3>2
      <4> HIDE DEF f
      <4> QED BY <4>1, <4>2, CallSet
    <3> QED BY <1>22, <3>1, <3>2 DEF AskBadge
  <2>2. contact' \in [Contact -> Row] /\ customer' \in Seq(Customer)
    BY <1>0, <1>22 DEF AskBadge, peopleVars
  <2>3. participant' \in [Contact -> Participant] /\ minted' \in Nat
    BY <1>0, <1>22 DEF AskBadge, eventVars
  <2>4. invitation' \in Seq(Invitation)
    BY <1>0, <1>22 DEF AskBadge, eventVars
  <2>5. agenda' \in [Errand -> Nat]
    BY <1>0, <1>22, CountsDown DEF AskBadge, Errand
  <2>6. /\ outrun' \subseteq Request /\ entered' \subseteq Contact /\ mixed' \subseteq Contact
        /\ raced' \subseteq Contact /\ handed' \subseteq Contact \X Nat
    BY <1>0, <1>22 DEF AskBadge, tellVars, Named, About, Participant
  <2> QED BY <2>1, <2>2, <2>3, <2>4, <2>5, <2>6 DEF TypeInv, AttendanceTypeOK
<1>23. ASSUME NEW q \in Request, MintBadge(q) PROVE TypeInv'
  <2>1. request' \in [Request -> Call] /\ Named'
    BY <1>23, CallMoves DEF MintBadge, Closed
  <2>2. contact' \in [Contact -> Row] /\ customer' \in Seq(Customer)
    BY <1>0, <1>23 DEF MintBadge, peopleVars
  <2>3. participant' \in [Contact -> Participant] /\ minted' \in Nat
    <3>1. \/ UNCHANGED <<participant, minted>>
          \/ /\ participant' = [participant EXCEPT ![request[q].contact].token = minted + 1]
             /\ minted' = minted + 1
      BY <1>23 DEF MintBadge
    <3>2. request[q].contact \in Contact
      BY <1>0, <1>23 DEF MintBadge, Named, About
    <3> QED BY <1>0, <3>1, <3>2, TokenTyped
  <2>4. invitation' \in Seq(Invitation)
    BY <1>0, <1>23 DEF MintBadge, eventVars
  <2>5. agenda' \in [Errand -> Nat]
    BY <1>0, <1>23 DEF MintBadge
  <2>6. /\ outrun' \subseteq Request /\ entered' \subseteq Contact /\ mixed' \subseteq Contact
        /\ raced' \subseteq Contact /\ handed' \subseteq Contact \X Nat
    BY <1>0, <1>23 DEF MintBadge, Closed, tellVars, Named, About, Participant
  <2> QED BY <2>1, <2>2, <2>3, <2>4, <2>5, <2>6 DEF TypeInv, AttendanceTypeOK
<1>24. CASE UNCHANGED attendanceVars
  BY <1>0, <1>24 DEF attendanceVars, TypeInv, AttendanceTypeOK, Named
<1> QED
  BY <1>1, <1>2, <1>3, <1>4, <1>5, <1>6, <1>7, <1>8, <1>9, <1>10, <1>11, <1>12, <1>13, <1>14, <1>15, <1>16, <1>17, <1>18, <1>19, <1>20, <1>21, <1>22, <1>23, <1>24 DEF AttendanceNext, FormStep, BookStep, EventStep

-----------------------------------------------------------------------------
(* Answers entered at the dashboard. *)

\* The stages of an invitation or an answer that is under way.
InHand == {"commit", "look", "answer", "note"}

\* A contact that nobody can be found by, as one that is gone.
Nameless(c) == contact[c].phone = Blank /\ contact[c].email = Blank

Known(c) == contact[c].st # "none"

\* The customers that a contact may be.
Likely(c) == CustomersOf(contact[c].phone, contact[c].email)

\* An appointment is of a customer that its owner may be.
PlacedAt(r) ==
  /\ Known(r.owner)
  /\ r.owner \in mixed \/ Nameless(r.owner) \/ r.customer \in Likely(r.owner)

Placed == \A i \in DOMAIN invitation : PlacedAt(invitation[i])

\* What a call has read of its contact holds.
ReadRight(f) ==
  f.at \in InHand =>
    /\ Known(f.contact)
    /\ \/ f.contact \in mixed \/ Nameless(f.contact)
       \/ f.phone = contact[f.contact].phone /\ f.email = contact[f.contact].email
    /\ f.kind \in {"invite", "respond"}
    /\ (f.customer # 0 /\ f.at # "look") => f.customer \in CustomersOf(f.phone, f.email)
    /\ f.at = "answer" => f.customer # 0

\* Calls about a contact that overlap are noted.
Crossed ==
  \A q, p \in Request :
    (q # p /\ request[q].at \in InHand /\ request[p].at \in InHand
           /\ request[q].contact = request[p].contact) => request[q].contact \in mixed

\* An answer about to be noted is that of the appointments of its customer, and
\* the contact has no others.
Written(f) ==
  (f.at = "note" /\ f.contact \notin mixed /\ ~Nameless(f.contact)) =>
    \A i \in DOMAIN invitation : invitation[i].owner = f.contact =>
      /\ f.customer # 0
      /\ \/ invitation[i].shared \/ invitation[i].customer # f.customer
         \/ invitation[i].status = StatusOf(f.word)

\* An answer that was noted is that of its contact's appointment.
EnteredAt(c) ==
  /\ Known(c)
  /\ ~Nameless(c) =>
       /\ participant[c].status # "none"
       /\ \A i \in DOMAIN invitation :
            (invitation[i].owner = c /\ ~invitation[i].shared /\ Likely(c) = {invitation[i].customer})
              => invitation[i].status = StatusOf(participant[c].status)

Entered == \A c \in entered \ mixed : EnteredAt(c)

GoneNameless == \A c \in Contact : contact[c].st = "gone" => Nameless(c)

ReachInv ==
  /\ GoneNameless /\ Placed /\ Crossed /\ Entered
  /\ \A q \in Request : ReadRight(request[q]) /\ Written(request[q])

\* Contacts stay what they are, or are noted; customers are added at the end.
Onward ==
  /\ \A c \in Contact : Known(c) =>
       /\ Known(c)'
       /\ contact'[c] = contact[c] \/ c \in mixed' \/ Nameless(c)'
  /\ GoneNameless'
  /\ \A n \in DOMAIN customer : n \in DOMAIN customer' /\ customer'[n] = customer[n]
  /\ mixed \subseteq mixed'

\* The appointments of a contact, other than those that others write to.
AsTheyWere(c) ==
  \A i \in DOMAIN invitation' : invitation'[i].owner = c =>
    /\ i \in DOMAIN invitation /\ invitation[i].owner = c
    /\ invitation'[i].customer = invitation[i].customer
    /\ \/ invitation'[i].shared
       \/ ~invitation[i].shared /\ invitation'[i].status = invitation[i].status

LEMMA MoreFound ==
  ASSUME Onward
  PROVE  \A phone, email : \A n \in CustomersOf(phone, email) : n \in CustomersOf(phone, email)'
<1>1. \A n \in DOMAIN customer : n \in DOMAIN customer' /\ customer'[n] = customer[n]
  BY DEF Onward
<1> QED BY <1>1 DEF CustomersOf, Meets

LEMMA MoreLikely ==
  ASSUME Onward, NEW c \in Contact, Known(c), c \notin mixed', ~Nameless(c)'
  PROVE  /\ contact'[c] = contact[c] /\ c \notin mixed /\ ~Nameless(c) /\ Known(c)'
         /\ \A n \in Likely(c) : n \in Likely(c)'
<1>1. contact'[c] = contact[c] /\ c \notin mixed /\ Known(c)'
  BY DEF Onward
<1>2. ~Nameless(c)
  BY <1>1 DEF Nameless
<1>3. PICK phone, email : phone = contact[c].phone /\ email = contact[c].email
  OBVIOUS
<1>4. \A n \in Likely(c) : n \in Likely(c)'
  <2>1. \A n \in CustomersOf(phone, email) : n \in CustomersOf(phone, email)'
    BY MoreFound
  <2> QED BY <1>1, <1>3, <2>1 DEF Likely, CustomersOf, Meets
<1> QED BY <1>1, <1>2, <1>4

LEMMA PlacedKept ==
  ASSUME Onward, NEW r, NEW s, r.owner \in Contact, s.owner = r.owner, s.customer = r.customer, PlacedAt(r)
  PROVE  PlacedAt(s)'
<1>1. Known(r.owner) /\ Known(r.owner)'
  BY DEF PlacedAt, Onward
<1>2. CASE r.owner \notin mixed' /\ ~Nameless(r.owner)'
  <2>1. r.owner \notin mixed /\ ~Nameless(r.owner) /\ \A n \in Likely(r.owner) : n \in Likely(r.owner)'
    BY <1>1, <1>2, MoreLikely
  <2>2. s.customer \in Likely(r.owner)'
    BY <2>1 DEF PlacedAt
  <2> QED BY <1>1, <2>2 DEF PlacedAt, Known, Likely, Nameless
<1> QED BY <1>1, <1>2 DEF PlacedAt, Known, Likely, Nameless

LEMMA ReadKept ==
  ASSUME Onward, NEW f, f.at \in InHand => f.contact \in Contact, ReadRight(f)
  PROVE  ReadRight(f)'
<1> SUFFICES ASSUME f.at \in InHand
             PROVE  /\ Known(f.contact)'
                    /\ \/ f.contact \in mixed' \/ Nameless(f.contact)'
                       \/ f.phone = contact'[f.contact].phone /\ f.email = contact'[f.contact].email
                    /\ f.kind \in {"invite", "respond"}
                    /\ (f.customer # 0 /\ f.at # "look") => f.customer \in CustomersOf(f.phone, f.email)'
                    /\ f.at = "answer" => f.customer # 0
  BY DEF ReadRight, Known, Nameless, CustomersOf, Meets
<1>1. Known(f.contact) /\ Known(f.contact)'
  BY DEF ReadRight, Onward
<1>2. \/ f.contact \in mixed' \/ Nameless(f.contact)'
      \/ f.phone = contact'[f.contact].phone /\ f.email = contact'[f.contact].email
  BY <1>1, MoreLikely DEF ReadRight
<1>3. (f.customer # 0 /\ f.at # "look") => f.customer \in CustomersOf(f.phone, f.email)'
  BY MoreFound DEF ReadRight
<1> QED BY <1>1, <1>2, <1>3 DEF ReadRight

LEMMA WrittenKept ==
  ASSUME Onward, NEW f, f.contact \in Contact, Known(f.contact), AsTheyWere(f.contact), Written(f)
  PROVE  Written(f)'
<1> SUFFICES ASSUME f.at = "note", f.contact \notin mixed', ~Nameless(f.contact)',
                    NEW i \in DOMAIN invitation', invitation'[i].owner = f.contact
             PROVE  /\ f.customer # 0
                    /\ \/ invitation'[i].shared \/ invitation'[i].customer # f.customer
                       \/ invitation'[i].status = StatusOf(f.word)
  BY DEF Written, Nameless
<1>1. f.contact \notin mixed /\ ~Nameless(f.contact)
  BY MoreLikely
<1>2. /\ i \in DOMAIN invitation /\ invitation[i].owner = f.contact
      /\ invitation'[i].customer = invitation[i].customer
      /\ \/ invitation'[i].shared
         \/ ~invitation[i].shared /\ invitation'[i].status = invitation[i].status
  BY DEF AsTheyWere
<1> QED BY <1>1, <1>2 DEF Written

LEMMA EnteredKept ==
  ASSUME Onward, Placed, NEW c \in Contact, EnteredAt(c), c \notin mixed', AsTheyWere(c),
         participant'[c].status = participant[c].status \/ Nameless(c)'
  PROVE  EnteredAt(c)'
<1>1. Known(c) /\ Known(c)'
  BY DEF EnteredAt, Onward
<1>2. ASSUME ~Nameless(c)'
      PROVE  /\ participant'[c].status # "none"
             /\ \A i \in DOMAIN invitation' :
                  (invitation'[i].owner = c /\ ~invitation'[i].shared /\ Likely(c)' = {invitation'[i].customer})
                    => invitation'[i].status = StatusOf(participant'[c].status)
  <2>1. ~Nameless(c) /\ c \notin mixed /\ \A n \in Likely(c) : n \in Likely(c)'
    BY <1>1, <1>2, MoreLikely
  <2>2. participant'[c].status = participant[c].status /\ participant[c].status # "none"
    BY <1>2, <2>1 DEF EnteredAt
  <2>3. ASSUME NEW i \in DOMAIN invitation', invitation'[i].owner = c, ~invitation'[i].shared,
               Likely(c)' = {invitation'[i].customer}
        PROVE  invitation'[i].status = StatusOf(participant'[c].status)
    <3>1. /\ i \in DOMAIN invitation /\ invitation[i].owner = c
          /\ invitation'[i].customer = invitation[i].customer
          /\ ~invitation[i].shared /\ invitation'[i].status = invitation[i].status
      BY <2>3 DEF AsTheyWere
    <3>2. invitation[i].customer \in Likely(c)
      BY <2>1, <3>1 DEF Placed, PlacedAt
    <3>3. Likely(c) = {invitation[i].customer}
      BY <2>1, <2>3, <3>1, <3>2
    <3> QED BY <2>1, <2>2, <3>1, <3>3 DEF EnteredAt
  <2> QED BY <2>2, <2>3
<1> QED BY <1>1, <1>2 DEF EnteredAt, Known, Nameless, Likely, CustomersOf, Meets

\* A call changes, the others stay.
LEMMA CallsKept ==
  ASSUME TypeInv, ReachInv, Onward, NEW q \in Request,
         \A p \in Request \ {q} : request'[p] = request[p],
         ReadRight(request[q])', Written(request[q])',
         request'[q].at \in InHand =>
           \A p \in Request \ {q} : (request[p].at \in InHand /\ request[p].contact = request'[q].contact)
                                      => request[p].contact \in mixed',
         \A p \in Request \ {q} : \/ request[p].at # "note" \/ request[p].contact \in mixed'
                                  \/ AsTheyWere(request[p].contact)
  PROVE  Crossed' /\ \A p \in Request : ReadRight(request[p])' /\ Written(request[p])'
<1>1. ASSUME NEW p \in Request \ {q} PROVE ReadRight(request[p])' /\ Written(request[p])'
  <2>1. PICK f : f = request[p]
    OBVIOUS
  <2>2. request'[p] = f /\ ReadRight(f) /\ Written(f) /\ (f.at \in InHand => f.contact \in Contact)
    BY <2>1 DEF ReachInv, TypeInv, Named, About, InHand
  <2>3. ReadRight(f)'
    BY <2>2, ReadKept
  <2>4. Written(f)'
    <3>1. CASE f.at = "note" /\ AsTheyWere(f.contact)
      <4>1. f.contact \in Contact /\ Known(f.contact)
        BY <2>2, <3>1 DEF ReadRight, InHand
      <4> QED BY <2>2, <3>1, <4>1, WrittenKept
    <3>2. CASE f.at # "note" \/ f.contact \in mixed'
      BY <3>2 DEF Written
    <3> QED BY <2>1, <3>1, <3>2
  <2>5. ReadRight(request[p])'
    BY <2>2, <2>3 DEF ReadRight, Known, Nameless, CustomersOf, Meets
  <2>6. Written(request[p])'
    BY <2>2, <2>4 DEF Written, Nameless
  <2> QED BY <2>5, <2>6
<1>2. Crossed'
  BY DEF Crossed, ReachInv, Onward
<1> QED BY <1>1, <1>2

LEMMA RowsTyped ==
  ASSUME TypeInv, NEW i \in DOMAIN invitation
  PROVE  /\ invitation[i] \in Invitation
         /\ invitation[i].owner \in Contact /\ invitation[i].shared \in BOOLEAN
<1>1. invitation \in Seq(Invitation)
  BY DEF TypeInv, AttendanceTypeOK
<1>2. invitation[i] \in Invitation
  BY <1>1
<1> QED BY <1>2 DEF Invitation

LEMMA RowsStill ==
  ASSUME TypeInv, ReachInv, Onward, UNCHANGED invitation
  PROVE  Placed' /\ \A c : AsTheyWere(c)
<1>1. ASSUME NEW i \in DOMAIN invitation PROVE PlacedAt(invitation[i])'
  <2>1. PICK r : r = invitation[i]
    OBVIOUS
  <2>2. PlacedAt(r) /\ r.owner \in Contact
    BY <2>1, RowsTyped DEF ReachInv, Placed
  <2>3. PlacedAt(r)'
    BY <2>2, PlacedKept
  <2> QED BY <2>1, <2>3 DEF PlacedAt, Known, Nameless, Likely, CustomersOf, Meets
<1>2. Placed'
  BY <1>1 DEF Placed
<1>3. \A c : AsTheyWere(c)
  BY RowsTyped DEF AsTheyWere
<1> QED BY <1>2, <1>3

LEMMA EnteredStill ==
  ASSUME TypeInv, ReachInv, Onward,
         \A c \in entered' \ mixed' : /\ c \in entered /\ AsTheyWere(c)
                                      /\ participant'[c].status = participant[c].status \/ Nameless(c)'
  PROVE  Entered'
<1>1. ASSUME NEW c \in entered' \ mixed' PROVE EnteredAt(c)'
  <2>1. c \in Contact /\ EnteredAt(c)
    BY DEF Onward, ReachInv, Entered, TypeInv, AttendanceTypeOK
  <2>2. Placed
    BY DEF ReachInv
  <2> QED BY <1>1, <2>1, <2>2, EnteredKept
<1> QED BY <1>1 DEF Entered

\* A step that writes no appointment, and goes on with no invitation or answer.
Apart ==
  /\ Onward /\ UNCHANGED invitation
  /\ \A q \in Request : request'[q] = request[q] \/ request'[q].at \notin InHand
  /\ entered' \subseteq entered
  /\ \A c \in Contact : \/ participant[c].status = "none" \/ c \notin entered'
                        \/ participant'[c].status = participant[c].status \/ Nameless(c)'

LEMMA ReachApart == TypeInv /\ ReachInv /\ Apart => ReachInv'
<1> SUFFICES ASSUME TypeInv, ReachInv, Apart PROVE ReachInv'
  OBVIOUS
<1>0. Onward /\ UNCHANGED invitation /\ GoneNameless' /\ mixed \subseteq mixed'
  BY DEF Apart, Onward
<1>1. Placed' /\ \A c : AsTheyWere(c)
  BY <1>0, RowsStill
<1>2. ASSUME NEW p \in Request PROVE ReadRight(request[p])' /\ Written(request[p])'
  <2>1. CASE request'[p].at \notin InHand
    BY <2>1 DEF ReadRight, Written, InHand
  <2>2. CASE request'[p] = request[p]
    <3>1. PICK f : f = request[p]
      OBVIOUS
    <3>2. request'[p] = f /\ ReadRight(f) /\ Written(f) /\ (f.at \in InHand => f.contact \in Contact)
      BY <2>2, <3>1 DEF ReachInv, TypeInv, Named, About, InHand
    <3>3. ReadRight(f)'
      BY <1>0, <3>2, ReadKept
    <3>4. CASE f.at = "note"
      <4>1. f.contact \in Contact /\ Known(f.contact)
        BY <3>2, <3>4 DEF ReadRight, InHand
      <4>2. Written(f)'
        BY <1>0, <1>1, <3>2, <4>1, WrittenKept
      <4> QED BY <3>2, <3>3, <4>2 DEF ReadRight, Written, Known, Nameless, CustomersOf, Meets
    <3>5. CASE f.at # "note"
      <4>1. Written(request[p])'
        BY <3>2, <3>5 DEF Written
      <4> QED BY <3>2, <3>3, <4>1 DEF ReadRight, Known, Nameless, CustomersOf, Meets
    <3> QED BY <3>4, <3>5
  <2> QED BY <2>1, <2>2 DEF Apart
<1>3. Crossed'
  BY <1>0 DEF Crossed, ReachInv, Apart
<1>4. Entered'
  <2>1. ASSUME NEW c \in entered' \ mixed'
        PROVE  c \in entered /\ (participant'[c].status = participant[c].status \/ Nameless(c)')
    <3>1. c \in Contact /\ EnteredAt(c)
      BY <1>0 DEF Apart, ReachInv, Entered, TypeInv, AttendanceTypeOK
    <3>2. CASE participant[c].status = "none"
      <4>1. Nameless(c) /\ Known(c)
        BY <3>1, <3>2 DEF EnteredAt
      <4>2. Nameless(c)'
        BY <1>0, <3>1, <4>1, <2>1, MoreLikely
      <4> QED BY <4>2 DEF Apart
    <3> QED BY <3>1, <3>2 DEF Apart
  <2> QED BY <1>0, <1>1, <2>1, EnteredStill
<1> QED BY <1>0, <1>1, <1>2, <1>3, <1>4 DEF ReachInv

LEMMA OnwardStill ==
  ASSUME TypeInv, ReachInv, UNCHANGED contact, mixed \subseteq mixed',
         customer' = customer \/ \E r : customer' = Append(customer, r)
  PROVE  Onward
<1>1. customer \in Seq(Customer)
  BY DEF TypeInv, AttendanceTypeOK
<1>2. \A n \in DOMAIN customer : n \in DOMAIN customer' /\ customer'[n] = customer[n]
  BY <1>1
<1>3. GoneNameless'
  BY DEF ReachInv, GoneNameless, Nameless
<1> QED BY <1>2, <1>3 DEF Onward, Known

LEMMA OnwardInsert ==
  ASSUME TypeInv, ReachInv, NEW c \in Contact, NEW phone, NEW email,
         Fresh(c), Insert(c, phone, email), UNCHANGED customer, mixed \subseteq mixed'
  PROVE  Onward
<1>1. contact \in [Contact -> Row] /\ contact[c].st = "none"
  BY DEF TypeInv, AttendanceTypeOK, Fresh
<1>2. contact'[c].st = "there" /\ \A d \in Contact \ {c} : contact'[d] = contact[d]
  BY <1>1 DEF Insert
<1>3. GoneNameless'
  BY <1>2 DEF ReachInv, GoneNameless, Nameless
<1> QED BY <1>1, <1>2, <1>3 DEF Onward, Known

\* What most steps do.
LEMMA Aside ==
  ASSUME TypeInv, ReachInv, Onward, UNCHANGED <<invitation, entered>>, NEW q \in Request,
         request'[q].at \notin InHand, \A p \in Request \ {q} : request'[p] = request[p],
         \A c \in Contact : participant[c].status # "none" => participant'[c].status = participant[c].status
  PROVE  ReachInv'
<1>1. Apart
  BY DEF Apart
<1> QED BY <1>1, ReachApart

\* A request other than an invitation or an answer.
LEMMA ReachRequests ==
  ASSUME TypeInv, ReachInv, NEW q \in Request,
         \/ FormStep(q) \/ BookStep(q)
         \/ \E phone \in PhoneOrBlank, email \in EmailOrBlank : Book(q, phone, email)
         \/ \E c \in Contact : Appoint(q, c)
         \/ CreateCustomer(q) \/ FindContact(q)
  PROVE  ReachInv'
<1>0. /\ request \in [Request -> Call] /\ contact \in [Contact -> Row] /\ mixed \subseteq Contact
      /\ Named /\ AttendanceTypeOK
  BY DEF TypeInv, AttendanceTypeOK
<1>1. ASSUME NEW phone \in PhoneOrBlank, NEW email \in EmailOrBlank, SubmitForm(q, phone, email) PROVE ReachInv'
  <2>1. request'[q].at \in {"patch", "create"} /\ \A p \in Request \ {q} : request'[p] = request[p]
    BY <1>0, <1>1 DEF SubmitForm, NoCall
  <2>2. UNCHANGED <<contact, customer, participant, invitation, entered, mixed>>
    BY <1>1 DEF SubmitForm, peopleVars, eventVars, tellVars
  <2> QED BY <2>1, <2>2, OnwardStill, Aside DEF InHand
<1>2. ASSUME FormCreates(q) PROVE ReachInv'
  <2>1. request'[q].at \in {"join", "idle"} /\ \A p \in Request \ {q} : request'[p] = request[p]
    <3>1. CASE Closes(q)
      BY <1>0, <3>1, Moves
    <3>2. ASSUME NEW c \in Contact, request' = [request EXCEPT ![q].at = "join", ![q].contact = c]
          PROVE  request'[q].at = "join" /\ \A p \in Request \ {q} : request'[p] = request[p]
      BY <1>0, <3>2 DEF Call
    <3> QED BY <1>2, <3>1, <3>2 DEF FormCreates, Closed
  <2>2. UNCHANGED <<customer, participant, invitation, entered, mixed>>
    BY <1>2 DEF FormCreates, eventVars, tellVars
  <2>3. UNCHANGED contact \/ \E c \in Contact : Fresh(c) /\ Insert(c, request[q].phone, request[q].email)
    BY <1>2 DEF FormCreates
  <2>4. Onward
    BY <2>2, <2>3, OnwardStill, OnwardInsert
  <2> QED BY <2>1, <2>2, <2>4, Aside DEF InHand
<1>3. ASSUME FormPatches(q) PROVE ReachInv'
  <2>1. request'[q].at = "join" /\ \A p \in Request \ {q} : request'[p] = request[p]
    BY <1>0, <1>3, Moves DEF FormPatches, Stage
  <2>2. UNCHANGED <<customer, participant, invitation, entered>>
    BY <1>3 DEF FormPatches, eventVars
  <2>3. PICK c : c = request[q].contact
    OBVIOUS
  <2>4. c \in Contact
    BY <1>0, <1>3, <2>3 DEF FormPatches, Named, About
  <2>5. \/ UNCHANGED <<contact, mixed>>
        \/ /\ contact[c].st = "there" /\ mixed' = mixed \cup {c}
           /\ contact'[c].st = "there" /\ \A d \in Contact \ {c} : contact'[d] = contact[d]
    BY <1>0, <1>3, <2>3, <2>4 DEF FormPatches, Row
  <2>6. CASE UNCHANGED <<contact, mixed>>
    <3>1. Onward
      BY <2>2, <2>6, OnwardStill
    <3> QED BY <2>1, <2>2, <3>1, Aside DEF InHand
  <2>7. CASE /\ contact[c].st = "there" /\ mixed' = mixed \cup {c}
             /\ contact'[c].st = "there" /\ \A d \in Contact \ {c} : contact'[d] = contact[d]
    <3>1. GoneNameless'
      BY <2>7 DEF ReachInv, GoneNameless, Nameless
    <3>2. Onward
      BY <2>2, <2>4, <2>7, <3>1 DEF Onward, Known
    <3> QED BY <2>1, <2>2, <3>2, Aside DEF InHand
  <2> QED BY <2>5, <2>6, <2>7
<1>4. ASSUME FormJoins(q) PROVE ReachInv'
  <2>1. request'[q].at = "idle" /\ \A p \in Request \ {q} : request'[p] = request[p]
    BY <1>0, <1>4, Moves DEF FormJoins, Closed
  <2>2. UNCHANGED <<contact, customer, invitation, entered, mixed>>
    BY <1>4 DEF FormJoins, peopleVars, tellVars
  <2>3. request[q].contact \in Contact
    BY <1>0, <1>4 DEF FormJoins, Named, About
  <2>4. \A c \in Contact : participant[c].status # "none" => participant'[c].status = participant[c].status
    BY <1>0, <1>4, <2>3, JoinedKeeps DEF FormJoins
  <2> QED BY <2>1, <2>2, <2>4, OnwardStill, Aside DEF InHand
<1>5. ASSUME NEW phone \in PhoneOrBlank, NEW email \in EmailOrBlank, CreateContact(q, phone, email) PROVE ReachInv'
  <2>1. request'[q].at = "insert" /\ \A p \in Request \ {q} : request'[p] = request[p]
    BY <1>0, <1>5 DEF CreateContact, NoCall
  <2>2. UNCHANGED <<contact, customer, participant, invitation, entered, mixed>>
    BY <1>5 DEF CreateContact, peopleVars, eventVars, tellVars
  <2> QED BY <2>1, <2>2, OnwardStill, Aside DEF InHand
<1>6. ASSUME InsertContact(q) PROVE ReachInv'
  <2>1. request'[q].at = "idle" /\ \A p \in Request \ {q} : request'[p] = request[p]
    BY <1>0, <1>6, Moves DEF InsertContact
  <2>2. UNCHANGED <<customer, participant, invitation, entered, mixed>>
    BY <1>6 DEF InsertContact, eventVars, tellVars
  <2>3. UNCHANGED contact \/ \E c \in Contact : Fresh(c) /\ Insert(c, request[q].phone, request[q].email)
    BY <1>6 DEF InsertContact
  <2>4. Onward
    BY <2>2, <2>3, OnwardStill, OnwardInsert
  <2> QED BY <2>1, <2>2, <2>4, Aside DEF InHand
<1>7. ASSUME NEW phone \in PhoneOrBlank, NEW email \in EmailOrBlank, Book(q, phone, email) PROVE ReachInv'
  <2>1. request'[q].at \in {"customer", "contact"} /\ \A p \in Request \ {q} : request'[p] = request[p]
    BY <1>0, <1>7 DEF Book, NoCall
  <2>2. UNCHANGED <<contact, customer, participant, invitation, entered, mixed>>
    BY <1>7 DEF Book, peopleVars, eventVars, tellVars
  <2> QED BY <2>1, <2>2, OnwardStill, Aside DEF InHand
<1>8. ASSUME NEW c \in Contact, Appoint(q, c) PROVE ReachInv'
  <2>1. request'[q].at = "customer" /\ \A p \in Request \ {q} : request'[p] = request[p]
    BY <1>0, <1>8 DEF Appoint, NoCall
  <2>2. UNCHANGED <<contact, customer, participant, invitation, entered, mixed>>
    BY <1>8 DEF Appoint, peopleVars, eventVars, tellVars
  <2> QED BY <2>1, <2>2, OnwardStill, Aside DEF InHand
<1>9. ASSUME CreateCustomer(q) PROVE ReachInv'
  <2>1. request'[q].at \in {"contact", "idle"} /\ \A p \in Request \ {q} : request'[p] = request[p]
    BY <1>0, <1>9, Moves DEF CreateCustomer, Closed, Stage
  <2>2. UNCHANGED <<contact, participant, invitation, entered, mixed>> /\ \E r : customer' = Append(customer, r)
    BY <1>9 DEF CreateCustomer, eventVars, tellVars
  <2> QED BY <2>1, <2>2, OnwardStill, Aside DEF InHand
<1>10. ASSUME FindContact(q) PROVE ReachInv'
  <2>1. request'[q].at \in {"insert", "idle"} /\ \A p \in Request \ {q} : request'[p] = request[p]
    BY <1>0, <1>10, Moves DEF FindContact, Closed, Stage
  <2>2. UNCHANGED <<contact, customer, participant, invitation, entered, mixed>>
    BY <1>10 DEF FindContact, peopleVars, eventVars, tellVars
  <2> QED BY <2>1, <2>2, OnwardStill, Aside DEF InHand
<1> QED BY <1>1, <1>2, <1>3, <1>4, <1>5, <1>6, <1>7, <1>8, <1>9, <1>10 DEF FormStep, BookStep

\* What happens to a contact at once.
LEMMA ReachContacts ==
  ASSUME TypeInv, ReachInv, NEW c \in Contact,
         \/ RemoveContact(c) \/ InviteAudience(c)
         \/ \E word \in Word : AnswersElsewhere(c, word)
         \/ \E phone \in PhoneOrBlank, email \in EmailOrBlank :
              UpdateContact(c, phone, email) \/ ImportContact(c, phone, email)
  PROVE  ReachInv'
<1>0. /\ contact \in [Contact -> Row] /\ participant \in [Contact -> Participant]
      /\ mixed \subseteq Contact /\ AttendanceTypeOK
  BY DEF TypeInv, AttendanceTypeOK
<1>1. CASE RemoveContact(c)
  <2>1. UNCHANGED <<customer, invitation, entered, mixed, request>>
    BY <1>1 DEF RemoveContact, tellVars
  <2>2. /\ contact'[c] = [NoRow EXCEPT !.st = "gone"] /\ \A d \in Contact \ {c} : contact'[d] = contact[d]
        /\ \A d \in Contact \ {c} : participant'[d] = participant[d]
    BY <1>0, <1>1 DEF RemoveContact
  <2>3. contact'[c].st = "gone" /\ contact'[c].phone = Blank /\ contact'[c].email = Blank
    BY <2>2 DEF NoRow
  <2>4. GoneNameless' /\ Nameless(c)'
    BY <2>2, <2>3 DEF ReachInv, GoneNameless, Nameless
  <2>5. Onward
    BY <2>1, <2>2, <2>3, <2>4 DEF Onward, Known
  <2>6. Apart
    BY <2>1, <2>2, <2>4, <2>5 DEF Apart
  <2> QED BY <2>6, ReachApart
<1>2. CASE InviteAudience(c)
  <2>1. UNCHANGED <<contact, customer, invitation, entered, mixed, request>> /\ Joined(c)
    BY <1>2 DEF InviteAudience, peopleVars, tellVars
  <2>2. \A d \in Contact : participant[d].status # "none" => participant'[d] = participant[d]
    BY <1>0, <2>1, JoinedKeeps
  <2>3. Apart
    BY <2>1, <2>2, OnwardStill DEF Apart
  <2> QED BY <2>3, ReachApart
<1>3. ASSUME NEW word \in Word, AnswersElsewhere(c, word) PROVE ReachInv'
  <2>1. UNCHANGED <<contact, customer, invitation, mixed, request>> /\ entered' = entered \ {c}
    BY <1>3 DEF AnswersElsewhere, peopleVars
  <2>2. \A d \in Contact \ {c} : participant'[d] = participant[d]
    BY <1>0, <1>3 DEF AnswersElsewhere
  <2>3. Apart
    BY <2>1, <2>2, OnwardStill DEF Apart
  <2> QED BY <2>3, ReachApart
<1>4. ASSUME NEW phone \in PhoneOrBlank, NEW email \in EmailOrBlank, UpdateContact(c, phone, email) PROVE ReachInv'
  <2>1. UNCHANGED <<customer, participant, invitation, entered, request>> /\ mixed' = mixed \cup {c}
    BY <1>4 DEF UpdateContact, eventVars
  <2>2. contact'[c].st = "there" /\ \A d \in Contact \ {c} : contact'[d] = contact[d]
    BY <1>0, <1>4 DEF UpdateContact, Insert
  <2>3. GoneNameless'
    BY <2>2 DEF ReachInv, GoneNameless, Nameless
  <2>4. Onward
    BY <2>1, <2>2, <2>3 DEF Onward, Known
  <2>5. Apart
    BY <2>1, <2>4 DEF Apart
  <2> QED BY <2>5, ReachApart
<1>5. ASSUME NEW phone \in PhoneOrBlank, NEW email \in EmailOrBlank, ImportContact(c, phone, email) PROVE ReachInv'
  <2>1. UNCHANGED <<customer, participant, invitation, entered, mixed, request>> /\ Fresh(c) /\ Insert(c, phone, email)
    BY <1>5 DEF ImportContact, eventVars, tellVars
  <2>2. Onward
    BY <2>1, OnwardInsert
  <2>3. Apart
    BY <2>1, <2>2 DEF Apart
  <2> QED BY <2>3, ReachApart
<1> QED BY <1>1, <1>2, <1>3, <1>4, <1>5

\* The invitations and answers.
LEMMA ReachAsked ==
  ASSUME TypeInv, ReachInv, UNCHANGED <<contact, customer, participant, invitation>>,
         NEW q \in Request, NEW f, request'[q] = f, f.contact \in Contact, Known(f.contact),
         \A p \in Request \ {q} : request'[p] = request[p],
         entered' = entered, Crosses(q, f.contact), f.at \in {"commit", "look"}, f.kind \in {"invite", "respond"},
         f.phone = contact[f.contact].phone, f.email = contact[f.contact].email,
         f.at = "commit" => f.customer \in SomeCustomer(f.phone, f.email)
  PROVE  ReachInv'
<1>1. mixed \subseteq mixed' /\ mixed \subseteq Contact
  BY DEF Crosses, TypeInv, AttendanceTypeOK
<1>2. Onward
  BY <1>1, OnwardStill
<1>3. ReadRight(f)'
  <2>1. (f.customer # 0 /\ f.at # "look") => f.customer \in CustomersOf(f.phone, f.email)
    BY DEF SomeCustomer
  <2> QED BY <2>1 DEF ReadRight, Known, Nameless, CustomersOf, Meets
<1>4. ReadRight(request[q])' /\ Written(request[q])'
  BY <1>3 DEF ReadRight, Written, Known, Nameless, CustomersOf, Meets
<1>5. \A p \in Request \ {q} : (request[p].at \in InHand /\ request[p].contact = request'[q].contact)
                                 => request[p].contact \in mixed'
  BY DEF Crosses, ReachInv, ReadRight, InHand
<1>6. Placed' /\ \A c : AsTheyWere(c)
  BY <1>2, RowsStill
<1>7. Crossed' /\ \A p \in Request : ReadRight(request[p])' /\ Written(request[p])'
  BY <1>2, <1>4, <1>5, <1>6, CallsKept
<1>8. Entered'
  BY <1>1, <1>2, <1>6, EnteredStill
<1> QED BY <1>2, <1>6, <1>7, <1>8 DEF ReachInv, Onward

\* A call about a contact that no other is about.
LEMMA Alone ==
  ASSUME ReachInv, NEW q \in Request, request[q].at \in InHand,
         NEW p \in Request \ {q}, request[p].at \in InHand, request[p].contact \notin mixed
  PROVE  request[p].contact # request[q].contact
  BY DEF ReachInv, Crossed

LEMMA ReachCommits ==
  ASSUME TypeInv, ReachInv, NEW q \in Request, InviteCommits(q)
  PROVE  ReachInv'
<1>0. /\ request \in [Request -> Call] /\ participant \in [Contact -> Participant]
      /\ customer \in Seq(Customer) /\ invitation \in Seq(Invitation) /\ AttendanceTypeOK
  BY DEF TypeInv, AttendanceTypeOK
<1>1. PICK f, c, n : /\ f = request[q] /\ c = f.contact
                     /\ n = IF f.customer = 0 THEN Len(customer) + 1 ELSE f.customer
  OBVIOUS
<1>2. /\ f.at = "commit" /\ c \in Contact /\ Known(c) /\ ReadRight(f)
      /\ UNCHANGED <<contact, mixed>>
      /\ request'[q].at = "idle" /\ \A p \in Request \ {q} : request'[p] = request[p]
  BY <1>0, <1>1, Moves DEF InviteCommits, Closed, ReachInv, ReadRight, TypeInv, Named, About, InHand
<1>3. CASE contact[c].st # "there"
  <2>1. UNCHANGED <<customer, invitation, participant, entered>>
    BY <1>1, <1>3 DEF InviteCommits
  <2> QED BY <1>2, <2>1, OnwardStill, Aside DEF InHand
<1>4. CASE contact[c].st = "there"
  <2>1. /\ customer' = IF f.customer = 0 THEN Append(customer, [phone |-> f.phone, email |-> f.email]) ELSE customer
        /\ invitation' = IF f.invitation = 0
                         THEN Append(invitation, [customer |-> n, status |-> "SCHEDULED",
                                                  owner |-> c, shared |-> FALSE])
                         ELSE [invitation EXCEPT ![f.invitation].status = "SCHEDULED",
                                                 ![f.invitation].shared = @ \/ invitation[f.invitation].owner # c]
        /\ Joined(c) /\ entered' = entered \ {c}
    BY <1>1, <1>4 DEF InviteCommits
  <2>2. Onward
    BY <1>2, <2>1, OnwardStill
  <2>3. \A d \in Contact : participant[d].status # "none" => participant'[d] = participant[d]
    BY <1>0, <1>2, <2>1, JoinedKeeps
  <2>4. \A d \in Contact \ {c} : participant'[d] = participant[d]
    BY <1>0, <1>2, <2>1 DEF Joined
  <2>5. ASSUME NEW i \in DOMAIN invitation'
        PROVE  \/ i = Len(invitation) + 1 /\ i \notin DOMAIN invitation
                  /\ invitation'[i].owner = c /\ invitation'[i].customer = n
               \/ /\ i \in DOMAIN invitation /\ invitation'[i].owner = invitation[i].owner
                  /\ invitation'[i].customer = invitation[i].customer
                  /\ \/ invitation'[i] = invitation[i]
                     \/ invitation[i].owner = c \/ invitation'[i].shared
    <3>1. CASE f.invitation = 0
      <4>1. PICK r : /\ r.owner = c /\ r.customer = n /\ invitation' = Append(invitation, r)
        BY <2>1, <3>1
      <4> QED BY <1>0, <4>1
    <3>2. CASE f.invitation # 0
      <4>1. DOMAIN invitation' = DOMAIN invitation
        BY <2>1, <3>2
      <4>2. CASE i # f.invitation
        BY <2>1, <3>2, <4>1, <4>2
      <4>3. CASE i = f.invitation
        <5>1. invitation[i] \in Invitation
          BY <4>1, RowsTyped
        <5> QED BY <2>1, <3>2, <4>1, <4>3, <5>1 DEF Invitation
      <4> QED BY <4>2, <4>3
    <3> QED BY <3>1, <3>2
  <2>6. \A d \in Contact \ {c} : AsTheyWere(d)
    BY <2>5, RowsTyped DEF AsTheyWere
  <2>7. c \in mixed \/ Nameless(c) \/ n \in Likely(c)'
    <3> SUFFICES ASSUME c \notin mixed, ~Nameless(c) PROVE n \in Likely(c)'
      OBVIOUS
    <3>1. f.phone = contact[c].phone /\ f.email = contact[c].email
      BY <1>1, <1>2 DEF ReadRight, InHand
    <3>2. CASE f.customer = 0
      <4>1. n \in DOMAIN customer' /\ customer'[n] = [phone |-> f.phone, email |-> f.email]
        BY <1>0, <1>1, <2>1, <3>2
      <4>2. customer'[n].phone = contact'[c].phone /\ customer'[n].email = contact'[c].email
        BY <1>2, <3>1, <4>1
      <4>3. contact'[c].phone # Blank \/ contact'[c].email # Blank
        BY <1>2 DEF Nameless
      <4> QED BY <4>1, <4>2, <4>3 DEF Likely, CustomersOf, Meets
    <3>3. CASE f.customer # 0
      <4>1. n \in CustomersOf(f.phone, f.email)
        BY <1>1, <1>2, <3>3 DEF ReadRight, InHand
      <4>2. n \in CustomersOf(f.phone, f.email)'
        BY <2>2, <4>1, MoreFound
      <4> QED BY <1>2, <3>1, <4>2 DEF Likely, CustomersOf, Meets
    <3> QED BY <3>2, <3>3
  <2>8. Placed'
    <3>1. ASSUME NEW i \in DOMAIN invitation' PROVE PlacedAt(invitation[i])'
      <4>1. CASE i \in DOMAIN invitation /\ invitation'[i].owner = invitation[i].owner
                 /\ invitation'[i].customer = invitation[i].customer
        <5>1. PICK r, s : r = invitation[i] /\ s = invitation'[i]
          OBVIOUS
        <5>2. PlacedAt(r) /\ r.owner \in Contact /\ s.owner = r.owner /\ s.customer = r.customer
          BY <4>1, <5>1, RowsTyped DEF ReachInv, Placed
        <5>3. PlacedAt(s)'
          BY <2>2, <5>2, PlacedKept
        <5> QED BY <5>1, <5>3 DEF PlacedAt, Known, Nameless, Likely, CustomersOf, Meets
      <4>2. CASE invitation'[i].owner = c /\ invitation'[i].customer = n
        BY <1>2, <2>7, <4>2 DEF PlacedAt, Known, Nameless, Likely, CustomersOf, Meets
      <4> QED BY <2>5, <3>1, <4>1, <4>2
    <3> QED BY <3>1 DEF Placed
  <2>9. Crossed' /\ \A p \in Request : ReadRight(request[p])' /\ Written(request[p])'
    <3>1. ReadRight(request[q])' /\ Written(request[q])'
      BY <1>2 DEF ReadRight, Written, InHand
    <3>2. \A p \in Request \ {q} : \/ request[p].at # "note" \/ request[p].contact \in mixed'
                                   \/ AsTheyWere(request[p].contact)
      BY <1>1, <1>2, <2>6, Alone DEF InHand, TypeInv, Named, About
    <3> QED BY <1>2, <2>2, <3>1, <3>2, CallsKept DEF InHand
  <2>10. Entered'
    <3>1. entered' \subseteq Contact
      BY <1>0, <2>1 DEF AttendanceTypeOK
    <3> QED BY <2>1, <2>2, <2>4, <2>6, <3>1, EnteredStill
  <2> QED BY <2>2, <2>8, <2>9, <2>10 DEF ReachInv, Onward
<1> QED BY <1>3, <1>4

LEMMA ReachLooks ==
  ASSUME TypeInv, ReachInv, NEW q \in Request, RespondLooks(q)
  PROVE  ReachInv'
<1>0. request \in [Request -> Call] /\ customer \in Seq(Customer) /\ AttendanceTypeOK
  BY DEF TypeInv, AttendanceTypeOK
<1>1. PICK f : f = request[q]
  OBVIOUS
<1>2. PICK n \in SomeCustomer(f.phone, f.email) :
        request' = [request EXCEPT ![q].at = IF n = 0 THEN "note" ELSE "answer", ![q].customer = n]
  BY <1>1 DEF RespondLooks
<1>3. PICK g : g = request'[q]
  OBVIOUS
<1>4. /\ f.at = "look" /\ f.contact \in Contact /\ Known(f.contact) /\ ReadRight(f)
      /\ UNCHANGED <<contact, customer, participant, invitation, entered, mixed>>
  BY <1>0, <1>1 DEF RespondLooks, ReachInv, ReadRight, TypeInv, Named, About, InHand, peopleVars, eventVars, tellVars
<1>5. /\ g.at = (IF n = 0 THEN "note" ELSE "answer") /\ g.customer = n
      /\ g.contact = f.contact /\ g.kind = f.kind /\ g.phone = f.phone /\ g.email = f.email
      /\ \A p \in Request \ {q} : request'[p] = request[p]
  BY <1>0, <1>1, <1>2, <1>3 DEF Call
<1>6. Onward
  BY <1>4, OnwardStill
<1>7. n # 0 => n \in CustomersOf(f.phone, f.email)
  BY <1>2 DEF SomeCustomer
<1>8. ReadRight(g)'
  BY <1>4, <1>5, <1>7 DEF ReadRight, InHand, Known, Nameless, CustomersOf, Meets
<1>9. Written(g)'
  <2> SUFFICES ASSUME g.at = "note", g.contact \notin mixed, ~Nameless(g.contact),
                      NEW i \in DOMAIN invitation, invitation[i].owner = g.contact
               PROVE  FALSE
    BY <1>4 DEF Written, Nameless
  <2>1. n = 0 /\ CustomersOf(f.phone, f.email) = {}
    <3>1. n = 0
      BY <1>5
    <3>2. 0 \notin CustomersOf(f.phone, f.email)
      BY <1>0 DEF CustomersOf
    <3> QED BY <1>2, <3>1, <3>2 DEF SomeCustomer
  <2>2. f.phone = contact[f.contact].phone /\ f.email = contact[f.contact].email
    BY <1>4, <1>5 DEF ReadRight, InHand
  <2>3. invitation[i].customer \in Likely(f.contact)
    BY <1>5 DEF ReachInv, Placed, PlacedAt
  <2> QED BY <2>1, <2>2, <2>3 DEF Likely
<1>10. ReadRight(request[q])' /\ Written(request[q])'
  BY <1>3, <1>8, <1>9 DEF ReadRight, Written, Known, Nameless, CustomersOf, Meets
<1>11. \A p \in Request \ {q} : (request[p].at \in InHand /\ request[p].contact = request'[q].contact)
                                  => request[p].contact \in mixed'
  BY <1>1, <1>3, <1>4, <1>5, Alone DEF InHand
<1>12. Placed' /\ \A c : AsTheyWere(c)
  BY <1>4, <1>6, RowsStill
<1>13. Crossed' /\ \A p \in Request : ReadRight(request[p])' /\ Written(request[p])'
  BY <1>5, <1>6, <1>10, <1>11, <1>12, CallsKept
<1>14. Entered'
  BY <1>4, <1>6, <1>12, EnteredStill
<1> QED BY <1>6, <1>12, <1>13, <1>14 DEF ReachInv, Onward

LEMMA ReachAnswers ==
  ASSUME TypeInv, ReachInv, NEW q \in Request, RespondAnswers(q)
  PROVE  ReachInv'
<1>0. request \in [Request -> Call] /\ invitation \in Seq(Invitation) /\ AttendanceTypeOK
  BY DEF TypeInv, AttendanceTypeOK
<1>1. PICK f : f = request[q]
  OBVIOUS
<1>2. PICK g : g = request'[q]
  OBVIOUS
<1>3. /\ f.at = "answer" /\ f.contact \in Contact /\ Known(f.contact) /\ ReadRight(f)
      /\ UNCHANGED <<contact, customer, participant, mixed>> /\ entered' = entered \ {f.contact}
      /\ invitation' = [i \in DOMAIN invitation |->
           IF invitation[i].customer = f.customer
           THEN [invitation[i] EXCEPT !.status = StatusOf(f.word), !.shared = @ \/ invitation[i].owner # f.contact]
           ELSE invitation[i]]
  BY <1>0, <1>1 DEF RespondAnswers, ReachInv, ReadRight, TypeInv, Named, About, InHand, peopleVars
<1>4. Goes(q, "note") /\ "note" \in Stage
  BY DEF RespondAnswers, Stage
<1>5. g = [f EXCEPT !.at = "note"] /\ \A p \in Request \ {q} : request'[p] = request[p]
  BY <1>0, <1>1, <1>2, <1>4, Moves
<1>6. /\ g.at = "note" /\ g.customer = f.customer /\ g.contact = f.contact /\ g.kind = f.kind
      /\ g.phone = f.phone /\ g.email = f.email /\ g.word = f.word
  <2>1. f \in Call
    BY <1>0, <1>1
  <2> QED BY <1>5, <2>1 DEF Call
<1>7. Onward
  BY <1>3, OnwardStill
<1>8. ASSUME NEW i \in DOMAIN invitation'
      PROVE  /\ i \in DOMAIN invitation /\ invitation'[i].owner = invitation[i].owner
             /\ invitation'[i].customer = invitation[i].customer
             /\ \/ invitation'[i] = invitation[i] /\ invitation[i].customer # f.customer
                \/ invitation'[i].status = StatusOf(f.word)
                   /\ (invitation[i].owner = f.contact \/ invitation'[i].shared)
  <2>1. i \in DOMAIN invitation
    BY <1>3
  <2>2. invitation[i] \in Invitation
    BY <2>1, RowsTyped
  <2>3. CASE invitation[i].customer # f.customer
    BY <1>3, <2>1, <2>3
  <2>4. CASE invitation[i].customer = f.customer
    <3>1. invitation'[i] = [invitation[i] EXCEPT !.status = StatusOf(f.word),
                                                 !.shared = @ \/ invitation[i].owner # f.contact]
      BY <1>3, <2>1, <2>4
    <3> QED BY <2>1, <2>2, <3>1 DEF Invitation
  <2> QED BY <2>3, <2>4
<1>9. \A d \in Contact \ {f.contact} : AsTheyWere(d)
  BY <1>8, RowsTyped DEF AsTheyWere
<1>10. Placed'
  <2>1. ASSUME NEW i \in DOMAIN invitation' PROVE PlacedAt(invitation[i])'
    <3>1. PICK r, s : r = invitation[i] /\ s = invitation'[i]
      OBVIOUS
    <3>2. PlacedAt(r) /\ r.owner \in Contact /\ s.owner = r.owner /\ s.customer = r.customer
      BY <1>8, <3>1, RowsTyped DEF ReachInv, Placed
    <3>3. PlacedAt(s)'
      BY <1>7, <3>2, PlacedKept
    <3> QED BY <3>1, <3>3 DEF PlacedAt, Known, Nameless, Likely, CustomersOf, Meets
  <2> QED BY <2>1 DEF Placed
<1>11. ReadRight(g)'
  BY <1>3, <1>6 DEF ReadRight, InHand, Known, Nameless, CustomersOf, Meets
<1>12. Written(g)'
  <2>1. f.customer # 0
    BY <1>3 DEF ReadRight, InHand
  <2>2. ASSUME NEW i \in DOMAIN invitation', invitation'[i].owner = g.contact
        PROVE  /\ g.customer # 0
               /\ \/ invitation'[i].shared \/ invitation'[i].customer # g.customer
                  \/ invitation'[i].status = StatusOf(g.word)
    BY <1>6, <1>8, <2>1, <2>2
  <2> QED BY <2>2 DEF Written
<1>13. ReadRight(request[q])' /\ Written(request[q])'
  BY <1>2, <1>11, <1>12 DEF ReadRight, Written, Known, Nameless, CustomersOf, Meets
<1>14. \A p \in Request \ {q} : (request[p].at \in InHand /\ request[p].contact = request'[q].contact)
                                  => request[p].contact \in mixed'
  BY <1>1, <1>2, <1>3, <1>6, Alone DEF InHand
<1>15. \A p \in Request \ {q} : \/ request[p].at # "note" \/ request[p].contact \in mixed'
                                \/ AsTheyWere(request[p].contact)
  BY <1>1, <1>3, <1>9, Alone DEF InHand, TypeInv, Named, About
<1>16. Crossed' /\ \A p \in Request : ReadRight(request[p])' /\ Written(request[p])'
  BY <1>5, <1>7, <1>13, <1>14, <1>15, CallsKept
<1>17. Entered'
  <2>1. entered' \subseteq Contact
    BY <1>0, <1>3 DEF AttendanceTypeOK
  <2> QED BY <1>3, <1>7, <1>9, <2>1, EnteredStill
<1> QED BY <1>7, <1>10, <1>16, <1>17 DEF ReachInv, Onward

LEMMA ReachNotes ==
  ASSUME TypeInv, ReachInv, NEW q \in Request, RespondNotes(q)
  PROVE  ReachInv'
<1>0. /\ request \in [Request -> Call] /\ participant \in [Contact -> Participant]
      /\ entered \subseteq Contact /\ AttendanceTypeOK
  BY DEF TypeInv, AttendanceTypeOK
<1>1. PICK f, c : f = request[q] /\ c = f.contact
  OBVIOUS
<1>2. /\ f.at = "note" /\ c \in Contact /\ Known(c) /\ ReadRight(f) /\ Written(f) /\ f.word \in Word
      /\ UNCHANGED <<contact, customer, invitation, mixed>>
      /\ request'[q].at = "idle" /\ \A p \in Request \ {q} : request'[p] = request[p]
  <2>1. f \in Call
    BY <1>0, <1>1
  <2> QED BY <1>0, <1>1, <2>1, Moves DEF RespondNotes, Closed, ReachInv, ReadRight, TypeInv, Named, About,
        InHand, Call, peopleVars
<1>3. CASE participant[c].status = "none"
  <2>1. UNCHANGED <<participant, entered>>
    BY <1>1, <1>3 DEF RespondNotes
  <2> QED BY <1>2, <2>1, OnwardStill, Aside DEF InHand
<1>4. CASE participant[c].status # "none"
  <2>1. participant' = [participant EXCEPT ![c].status = f.word] /\ entered' = entered \cup {c}
    BY <1>1, <1>4 DEF RespondNotes
  <2>2. participant'[c].status = f.word /\ \A d \in Contact \ {c} : participant'[d] = participant[d]
    BY <1>0, <1>2, <2>1 DEF Participant
  <2>3. Onward
    BY <1>2, OnwardStill
  <2>4. Placed' /\ \A d : AsTheyWere(d)
    BY <1>2, <2>3, RowsStill
  <2>5. Crossed' /\ \A p \in Request : ReadRight(request[p])' /\ Written(request[p])'
    <3>1. ReadRight(request[q])' /\ Written(request[q])'
      BY <1>2 DEF ReadRight, Written, InHand
    <3> QED BY <1>2, <2>3, <2>4, <3>1, CallsKept DEF InHand
  <2>6. ASSUME c \notin mixed PROVE EnteredAt(c)'
    <3>1. ASSUME ~Nameless(c)
          PROVE  /\ f.word # "none"
                 /\ \A i \in DOMAIN invitation :
                      (invitation[i].owner = c /\ ~invitation[i].shared /\ Likely(c) = {invitation[i].customer})
                        => invitation[i].status = StatusOf(f.word)
      <4>1. ASSUME NEW i \in DOMAIN invitation, invitation[i].owner = c, ~invitation[i].shared,
                   Likely(c) = {invitation[i].customer}
            PROVE  invitation[i].status = StatusOf(f.word)
        <5>1. f.customer # 0 /\ f.customer \in CustomersOf(f.phone, f.email)
          BY <1>1, <1>2, <2>6, <3>1, <4>1 DEF Written, ReadRight, InHand
        <5>2. f.phone = contact[c].phone /\ f.email = contact[c].email
          BY <1>1, <1>2, <2>6, <3>1 DEF ReadRight, InHand
        <5>3. f.customer = invitation[i].customer
          BY <4>1, <5>1, <5>2 DEF Likely
        <5> QED BY <1>1, <1>2, <2>6, <3>1, <4>1, <5>3 DEF Written
      <4> QED BY <1>2, <4>1 DEF Word
    <3> QED BY <1>2, <2>2, <3>1 DEF EnteredAt, Known, Nameless, Likely, CustomersOf, Meets
  <2>7. Entered'
    <3>1. ASSUME NEW d \in entered' \ mixed', d # c PROVE EnteredAt(d)'
      <4>1. d \in Contact /\ d \in entered \ mixed
        BY <1>0, <1>2, <2>1, <3>1
      <4>2. EnteredAt(d) /\ Placed
        BY <4>1 DEF ReachInv, Entered
      <4> QED BY <2>2, <2>3, <2>4, <3>1, <4>1, <4>2, EnteredKept
    <3> QED BY <1>2, <2>6, <3>1 DEF Entered
  <2> QED BY <2>3, <2>4, <2>5, <2>7 DEF ReachInv, Onward
<1> QED BY <1>3, <1>4

\* Every step keeps the answers.
LEMMA ReachStep == TypeInv /\ ReachInv /\ [AttendanceNext]_attendanceVars => ReachInv'
<1> SUFFICES ASSUME TypeInv, ReachInv, [AttendanceNext]_attendanceVars PROVE ReachInv'
  OBVIOUS
<1>0. request \in [Request -> Call] /\ mixed \subseteq Contact /\ Named
  BY DEF TypeInv, AttendanceTypeOK
<1>1. ASSUME NEW q \in Request, NEW c \in Contact, Invite(q, c) PROVE ReachInv'
  <2>1. PICK n \in SomeCustomer(contact[c].phone, contact[c].email) : \E i :
          request' = [request EXCEPT ![q] =
            [NoCall EXCEPT !.at = "commit", !.kind = "invite", !.contact = c, !.customer = n,
                           !.invitation = i, !.phone = contact[c].phone, !.email = contact[c].email]]
    BY <1>1 DEF Invite
  <2>2. PICK f : f = request'[q]
    OBVIOUS
  <2>3. /\ f.at = "commit" /\ f.kind = "invite" /\ f.contact = c /\ f.customer = n
        /\ f.phone = contact[c].phone /\ f.email = contact[c].email
        /\ \A p \in Request \ {q} : request'[p] = request[p]
    BY <1>0, <2>1, <2>2 DEF NoCall
  <2>4. /\ UNCHANGED <<contact, customer, participant, invitation>> /\ entered' = entered
        /\ Known(c) /\ Crosses(q, c)
    BY <1>1 DEF Invite, Known, peopleVars, eventVars
  <2> QED BY <2>2, <2>3, <2>4, ReachAsked
<1>2. ASSUME NEW q \in Request, NEW c \in Contact, NEW word \in Word, Respond(q, c, word) PROVE ReachInv'
  <2>1. PICK f : f = request'[q]
    OBVIOUS
  <2>2. /\ f.at = "look" /\ f.kind = "respond" /\ f.contact = c
        /\ f.phone = contact[c].phone /\ f.email = contact[c].email
        /\ \A p \in Request \ {q} : request'[p] = request[p]
    BY <1>0, <1>2, <2>1 DEF Respond, NoCall
  <2>3. /\ UNCHANGED <<contact, customer, participant, invitation>> /\ entered' = entered
        /\ Known(c) /\ Crosses(q, c)
    BY <1>2 DEF Respond, Known, peopleVars, eventVars
  <2> QED BY <2>1, <2>2, <2>3, ReachAsked
<1>3. ASSUME NEW q \in Request, NEW c \in Contact, AskBadge(q, c) PROVE ReachInv'
  <2>1. UNCHANGED <<contact, customer, participant, invitation, entered, mixed>>
    BY <1>3 DEF AskBadge, peopleVars, eventVars
  <2>2. \A p \in Request : request'[p] = request[p] \/ request'[p].at \notin InHand
    BY <1>0, <1>3 DEF AskBadge, NoCall, InHand
  <2>3. Apart
    BY <2>1, <2>2, OnwardStill DEF Apart
  <2> QED BY <2>3, ReachApart
<1>4. ASSUME NEW q \in Request, MintBadge(q) PROVE ReachInv'
  <2>1. UNCHANGED <<contact, customer, invitation, entered, mixed>>
    BY <1>4 DEF MintBadge, peopleVars
  <2>2. request'[q].at = "idle" /\ \A p \in Request \ {q} : request'[p] = request[p]
    BY <1>0, <1>4, Moves DEF MintBadge, Closed
  <2>3. participant \in [Contact -> Participant] /\ request[q].contact \in Contact
    BY <1>0, <1>4 DEF MintBadge, Named, About, TypeInv, AttendanceTypeOK
  <2>4. \A d \in Contact : participant'[d].status = participant[d].status
    BY <1>4, <2>3 DEF MintBadge, Participant
  <2> QED BY <2>1, <2>2, <2>4, OnwardStill, Aside DEF InHand
<1>5. CASE UNCHANGED attendanceVars
  <2>1. Apart
    BY <1>5, OnwardStill DEF Apart, attendanceVars
  <2> QED BY <2>1, ReachApart
<1> QED BY <1>1, <1>2, <1>3, <1>4, <1>5, ReachRequests, ReachContacts, ReachCommits, ReachLooks, ReachAnswers,
      ReachNotes DEF AttendanceNext, EventStep

LEMMA ReachInit == AttendanceInit => ReachInv
<1> SUFFICES ASSUME AttendanceInit PROVE ReachInv
  OBVIOUS
<1>1. PICK b \in Beginnings : contact = b.contact
  BY DEF AttendanceInit
<1>2. \A c \in Contact : contact[c].st # "gone"
  BY <1>1, AttendanceAssumption DEF NoRow
<1>3. /\ invitation = << >> /\ entered = {}
      /\ \A q \in Request : request[q].at = "idle"
  BY DEF AttendanceInit, NoCall
<1> QED BY <1>2, <1>3 DEF ReachInv, GoneNameless, Placed, Crossed, Entered, ReadRight, Written, InHand

LEMMA AnswersReach == TypeInv /\ ReachInv => AnswerReaches
<1> SUFFICES ASSUME TypeInv, ReachInv, NEW c \in entered \ mixed, NEW i \in DOMAIN invitation,
                    invitation[i].owner = c, ~invitation[i].shared,
                    Cardinality(CustomersOf(contact[c].phone, contact[c].email)) = 1
             PROVE  invitation[i].status = StatusOf(participant[c].status)
  BY DEF AnswerReaches
<1>1. customer \in Seq(Customer)
  BY DEF TypeInv, AttendanceTypeOK
<1>2. Likely(c) \subseteq 1..Len(customer)
  BY <1>1 DEF Likely, CustomersOf
<1>3. IsFiniteSet(Likely(c))
  BY <1>1, <1>2, FS_Interval, FS_Subset
<1>4. PICK n : Likely(c) = {n}
  BY <1>3, FS_Singleton DEF Likely
<1>5. ~Nameless(c)
  <2>1. n \in Likely(c)
    BY <1>4
  <2> QED BY <2>1 DEF Likely, CustomersOf, Meets, Nameless
<1>6. invitation[i].customer \in Likely(c)
  BY <1>5 DEF ReachInv, Placed, PlacedAt
<1>7. EnteredAt(c)
  BY DEF ReachInv, Entered
<1> QED BY <1>4, <1>5, <1>6, <1>7 DEF EnteredAt

-----------------------------------------------------------------------------
(* The theorems. *)

AttendanceInv == TypeInv /\ BadgeInv /\ ReadInv /\ ReachInv

LEMMA Invariance == AttendanceSpec => []AttendanceInv
<1>1. AttendanceInit => AttendanceInv
  <2> SUFFICES ASSUME AttendanceInit PROVE AttendanceInv
    OBVIOUS
  <2>1. \A q \in Request : request[q].at = "idle"
    BY DEF AttendanceInit, NoCall
  <2>2. handed = {}
    BY DEF AttendanceInit
  <2>3. BadgeInv
    BY <2>1, <2>2 DEF BadgeInv, Scans, Mints, Races
  <2>4. ReadInv
    BY <2>1 DEF ReadInv, ReadOf
  <2> QED BY <2>3, <2>4, AttendanceInitTyped, ReachInit DEF AttendanceInv
<1>2. AttendanceInv /\ [AttendanceNext]_attendanceVars => AttendanceInv'
  BY TypeStep, BadgeStep, ReadStep, ReachStep DEF AttendanceInv
<1> QED BY <1>1, <1>2, PTL DEF AttendanceSpec

\* Every variable keeps its type, for any contacts, requests and agendas (the Prisma
\* models Contact, Customer, EventParticipant and Appointment).
THEOREM AttendanceTypeCorrect == AttendanceSpec => []AttendanceTypeOK
<1>1. AttendanceInv => AttendanceTypeOK
  BY DEF AttendanceInv, TypeInv
<1> QED BY <1>1, Invariance, PTL

\* A badge that was handed out scans as long as its contact is there, unless two
\* requests for a first badge overlapped: however many forms, invitations, answers
\* and badge requests there are (invite, inviteByAudience, submitForm,
\* generateQrCode).
THEOREM BadgesAlwaysScan == AttendanceSpec => []BadgesScan
<1>1. AttendanceInv => BadgesScan
  BY DEF AttendanceInv, BadgeInv, Scans, BadgesScan
<1> QED BY <1>1, Invariance, PTL

\* An answer entered at the dashboard is that of the contact's own appointment, if one
\* customer fits the contact: however invitations, answers, edits, bookings and badge
\* requests follow each other or overlap (invite, respond).
THEOREM AnswersAlwaysReach == AttendanceSpec => []AnswerReaches
<1>1. AttendanceInv => AnswerReaches
  BY AnswersReach DEF AttendanceInv
<1> QED BY <1>1, Invariance, PTL

\* A submission that has looked the contacts up and was not outrun neither
\* overwrites what a contact holds, nor fails, nor leaves its sender out of the event
\* (submitForm, upsertContact).
THEOREM FormsLoseNothing == AttendanceSpec => NothingLost
<1> DEFINE Kept(q) ==
      /\ (request[q].at = "patch" /\ request'[q].at = "join") =>
           \A c \in Contact :
             \/ q \in outrun
             \/ /\ contact[c].phone # Blank => contact'[c].phone = contact[c].phone
                /\ contact[c].email # Blank => contact'[c].email = contact[c].email
      /\ (request[q].at = "create" /\ request'[q].at = "idle") => q \in outrun
      /\ (request[q].at = "join" /\ request'[q].at = "idle") =>
           q \in outrun \/ participant'[request[q].contact].status # "none"
<1>1. ASSUME AttendanceInv, AttendanceNext, NEW q \in Request PROVE Kept(q)
  <2>0. /\ request \in [Request -> Call] /\ contact \in [Contact -> Row]
        /\ TypeInv /\ AttendanceTypeOK /\ Named /\ ReadInv
    BY <1>1 DEF AttendanceInv, TypeInv, AttendanceTypeOK
  <2>1. ASSUME NEW r \in Request, NEW phone \in PhoneOrBlank, NEW email \in EmailOrBlank, SubmitForm(r, phone, email) PROVE Kept(q)
    <3>1. q # r => request'[q] = request[q]
      BY <2>0, <2>1, Moves DEF SubmitForm
    <3>2. request[r].at \notin {"patch", "create", "join"}
      BY <2>1 DEF SubmitForm
    <3> QED BY <3>1, <3>2
  <2>2. ASSUME NEW r \in Request, FormCreates(r) PROVE Kept(q)
    <3>1. CASE Closed(r) /\ ContactsOf(request[r].phone, request[r].email) # {}
      <4>1. request'[r].at = "idle" /\ \A p \in Request \ {r} : request'[p] = request[p]
        BY <2>0, <3>1, Moves DEF Closed
      <4>2. request[r].at = "create" /\ r \in outrun
        BY <2>0, <2>2, <3>1 DEF FormCreates, ReadInv, ReadOf
      <4> QED BY <4>1, <4>2
    <3>2. ASSUME NEW c \in Contact, request' = [request EXCEPT ![r].at = "join", ![r].contact = c] PROVE Kept(q)
      <4>1. request'[r].at = "join" /\ \A p \in Request \ {r} : request'[p] = request[p]
        BY <2>0, <3>2 DEF Call
      <4>2. request[r].at = "create"
        BY <2>2 DEF FormCreates
      <4> QED BY <4>1, <4>2
    <3> QED BY <2>2, <3>1, <3>2 DEF FormCreates
  <2>3. ASSUME NEW r \in Request, FormPatches(r) PROVE Kept(q)
    <3>1. /\ request[r].at = "patch" /\ request'[r].at = "join" /\ request[r].contact \in Contact
          /\ \A p \in Request \ {r} : request'[p] = request[p]
      BY <2>0, <2>3, Moves DEF FormPatches, Stage, Named, About
    <3>2. CASE contact' = contact
      BY <3>1, <3>2
    <3>3. CASE q = r /\ r \notin outrun
      <4>1. contact[request[r].contact] = request[r].saw
        BY <2>0, <3>1, <3>3 DEF ReadInv, ReadOf
      <4>2. ASSUME NEW c \in Contact
            PROVE  /\ contact[c].phone # Blank => contact'[c].phone = contact[c].phone
                   /\ contact[c].email # Blank => contact'[c].email = contact[c].email
        BY <2>0, <2>3, <3>1, <4>1 DEF FormPatches, Row
      <4> QED BY <3>1, <3>3, <4>2
    <3> QED BY <3>1, <3>3
  <2>4. ASSUME NEW r \in Request, FormJoins(r) PROVE Kept(q)
    <3>1. /\ request[r].at = "join" /\ request'[r].at = "idle" /\ request[r].contact \in Contact
          /\ \A p \in Request \ {r} : request'[p] = request[p]
      BY <2>0, <2>4, Moves DEF FormJoins, Closed, Named, About
    <3>2. CASE r \notin outrun
      <4>1. contact[request[r].contact].st = "there"
        BY <2>0, <3>1, <3>2 DEF ReadInv, ReadOf
      <4> QED BY <2>0, <2>4, <3>1, <4>1, JoinedKeeps DEF FormJoins
    <3> QED BY <3>1, <3>2
  <2>5. ASSUME NEW r \in Request, NEW phone \in PhoneOrBlank, NEW email \in EmailOrBlank, CreateContact(r, phone, email) PROVE Kept(q)
    <3>1. q # r => request'[q] = request[q]
      BY <2>0, <2>5, Moves DEF CreateContact
    <3>2. request[r].at \notin {"patch", "create", "join"}
      BY <2>5 DEF CreateContact
    <3> QED BY <3>1, <3>2
  <2>6. ASSUME NEW r \in Request, InsertContact(r) PROVE Kept(q)
    <3>1. q # r => request'[q] = request[q]
      BY <2>0, <2>6, Moves DEF InsertContact
    <3>2. request[r].at \notin {"patch", "create", "join"}
      BY <2>6 DEF InsertContact
    <3> QED BY <3>1, <3>2
  <2>7. ASSUME NEW c \in Contact, NEW phone \in PhoneOrBlank, NEW email \in EmailOrBlank, UpdateContact(c, phone, email) PROVE Kept(q)
    BY <2>7 DEF UpdateContact
  <2>8. ASSUME NEW c \in Contact, RemoveContact(c) PROVE Kept(q)
    BY <2>8 DEF RemoveContact
  <2>9. ASSUME NEW c \in Contact, NEW phone \in PhoneOrBlank, NEW email \in EmailOrBlank, ImportContact(c, phone, email) PROVE Kept(q)
    BY <2>9 DEF ImportContact
  <2>10. ASSUME NEW r \in Request, NEW phone \in PhoneOrBlank, NEW email \in EmailOrBlank, Book(r, phone, email) PROVE Kept(q)
    <3>1. q # r => request'[q] = request[q]
      BY <2>0, <2>10, Moves DEF Book
    <3>2. request[r].at \notin {"patch", "create", "join"}
      BY <2>10 DEF Book
    <3> QED BY <3>1, <3>2
  <2>11. ASSUME NEW r \in Request, NEW c \in Contact, Appoint(r, c) PROVE Kept(q)
    <3>1. q # r => request'[q] = request[q]
      BY <2>0, <2>11, Moves DEF Appoint
    <3>2. request[r].at \notin {"patch", "create", "join"}
      BY <2>11 DEF Appoint
    <3> QED BY <3>1, <3>2
  <2>12. ASSUME NEW r \in Request, CreateCustomer(r) PROVE Kept(q)
    <3>1. q # r => request'[q] = request[q]
      BY <2>0, <2>12, Moves DEF CreateCustomer, Closed, Stage
    <3>2. request[r].at \notin {"patch", "create", "join"}
      BY <2>12 DEF CreateCustomer
    <3> QED BY <3>1, <3>2
  <2>13. ASSUME NEW r \in Request, FindContact(r) PROVE Kept(q)
    <3>1. q # r => request'[q] = request[q]
      BY <2>0, <2>13, Moves DEF FindContact, Closed, Stage
    <3>2. request[r].at \notin {"patch", "create", "join"}
      BY <2>13 DEF FindContact
    <3> QED BY <3>1, <3>2
  <2>14. ASSUME NEW r \in Request, NEW c \in Contact, Invite(r, c) PROVE Kept(q)
    <3>1. q # r => request'[q] = request[q]
      BY <2>0, <2>14, Moves DEF Invite
    <3>2. request[r].at \notin {"patch", "create", "join"}
      BY <2>14 DEF Invite
    <3> QED BY <3>1, <3>2
  <2>15. ASSUME NEW r \in Request, InviteCommits(r) PROVE Kept(q)
    <3>1. q # r => request'[q] = request[q]
      BY <2>0, <2>15, Moves DEF InviteCommits, Closed
    <3>2. request[r].at \notin {"patch", "create", "join"}
      BY <2>15 DEF InviteCommits
    <3> QED BY <3>1, <3>2
  <2>16. ASSUME NEW c \in Contact, InviteAudience(c) PROVE Kept(q)
    BY <2>16 DEF InviteAudience
  <2>17. ASSUME NEW r \in Request, NEW c \in Contact, NEW word \in Word, Respond(r, c, word) PROVE Kept(q)
    <3>1. q # r => request'[q] = request[q]
      BY <2>0, <2>17, Moves DEF Respond
    <3>2. request[r].at \notin {"patch", "create", "join"}
      BY <2>17 DEF Respond
    <3> QED BY <3>1, <3>2
  <2>18. ASSUME NEW r \in Request, RespondLooks(r) PROVE Kept(q)
    <3>1. q # r => request'[q] = request[q]
      BY <2>0, <2>18, Moves DEF RespondLooks
    <3>2. request[r].at \notin {"patch", "create", "join"}
      BY <2>18 DEF RespondLooks
    <3> QED BY <3>1, <3>2
  <2>19. ASSUME NEW r \in Request, RespondAnswers(r) PROVE Kept(q)
    <3>1. q # r => request'[q] = request[q]
      BY <2>0, <2>19, Moves DEF RespondAnswers, Stage
    <3>2. request[r].at \notin {"patch", "create", "join"}
      BY <2>19 DEF RespondAnswers
    <3> QED BY <3>1, <3>2
  <2>20. ASSUME NEW r \in Request, RespondNotes(r) PROVE Kept(q)
    <3>1. q # r => request'[q] = request[q]
      BY <2>0, <2>20, Moves DEF RespondNotes, Closed
    <3>2. request[r].at \notin {"patch", "create", "join"}
      BY <2>20 DEF RespondNotes
    <3> QED BY <3>1, <3>2
  <2>21. ASSUME NEW c \in Contact, NEW word \in Word, AnswersElsewhere(c, word) PROVE Kept(q)
    BY <2>21 DEF AnswersElsewhere
  <2>22. ASSUME NEW r \in Request, NEW c \in Contact, AskBadge(r, c) PROVE Kept(q)
    <3>1. q # r => request'[q] = request[q]
      BY <2>0, <2>22, Moves DEF AskBadge
    <3>2. request[r].at \notin {"patch", "create", "join"}
      BY <2>22 DEF AskBadge
    <3> QED BY <3>1, <3>2
  <2>23. ASSUME NEW r \in Request, MintBadge(r) PROVE Kept(q)
    <3>1. q # r => request'[q] = request[q]
      BY <2>0, <2>23, Moves DEF MintBadge, Closed
    <3>2. request[r].at \notin {"patch", "create", "join"}
      BY <2>23 DEF MintBadge
    <3> QED BY <3>1, <3>2
  <2> QED
    BY <1>1, <2>1, <2>2, <2>3, <2>4, <2>5, <2>6, <2>7, <2>8, <2>9, <2>10, <2>11, <2>12, <2>13, <2>14, <2>15, <2>16, <2>17, <2>18, <2>19, <2>20, <2>21, <2>22, <2>23 DEF AttendanceNext, FormStep, BookStep, EventStep
<1>2. ASSUME UNCHANGED attendanceVars, NEW q \in Request PROVE Kept(q)
  BY <1>2 DEF attendanceVars
<1> HIDE DEF Kept
<1>3. AttendanceInv /\ [AttendanceNext]_attendanceVars => [\A q \in Request : Kept(q)]_attendanceVars
  BY <1>1
<1> QED BY <1>3, Invariance, PTL DEF AttendanceSpec, NothingLost, Kept
=============================================================================
