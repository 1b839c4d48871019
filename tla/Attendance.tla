------------------------------ MODULE Attendance ------------------------------
(***************************************************************************)
(* Who comes to an event. People are kept twice: as contacts, whose phone  *)
(* and e-mail are unique, and as customers, where nothing is unique. The   *)
(* participants of an event are contacts, its appointments are customers'; *)
(* a customer is found by a contact's phone or e-mail, and made if there   *)
(* is none. Public forms, bookings, imports and the dashboard write all of *)
(* this at once, each request a few database calls.                        *)
(*                                                                         *)
(* Names, tags and notes are left out: none of them is empty, unique or    *)
(* looked up here. A phone and an e-mail stand for their values.           *)
(*                                                                         *)
(* Bounds: the contacts, and the requests of each Errand, in agenda. A run *)
(* starts with one of Beginnings: the people there are, and an agenda.     *)
(***************************************************************************)
EXTENDS Naturals, FiniteSets, Sequences

CONSTANTS Contact,
          Phone, Email, Blank,
          Request,     \* requests that may be open at once
          Beginnings

Errand == {"form", "create", "update", "remove", "import", "book", "appoint", "invite",
           "audience", "respond", "reply", "badge"}

VARIABLES
  contact,     \* Contact rows
  customer,    \* Customer rows, in order
  participant, \* EventParticipant rows of the event, by contact
  invitation,  \* Appointment rows of the event, in order
  request,     \* the requests in progress
  minted,      \* how many QR tokens were made: their numbers
  agenda,      \* bound: requests still to come
  outrun,      \* history: requests whose look-up at the contacts is out of date
  entered,     \* history: contacts whose last answer was entered at the dashboard
  mixed,       \* history: contacts whose calls overlapped, or who changed
  handed,      \* history: badges handed out
  raced        \* history: contacts with two first badges in the making

peopleVars == <<contact, customer>>
eventVars == <<participant, invitation, minted>>
tellVars == <<entered, mixed, handed, raced>>
attendanceVars == <<contact, customer, participant, invitation, request, minted, agenda, outrun,
                    entered, mixed, handed, raced>>

PhoneOrBlank == Phone \cup {Blank}
EmailOrBlank == Email \cup {Blank}

Row == [st : {"none", "there", "gone"}, phone : PhoneOrBlank, email : EmailOrBlank]

NoRow == [st |-> "none", phone |-> Blank, email |-> Blank]

Customer == [phone : PhoneOrBlank, email : EmailOrBlank]

Word == {"pending", "confirmed", "cancelled"}

\* token is 0 for a participant without one.
Participant == [status : {"none", "invited"} \cup Word, token : Nat]

NoParticipant == [status |-> "none", token |-> 0]

\* owner is the contact whose invitation made the row; shared, that another
\* contact's call wrote it.
Invitation == [customer : Nat, status : {"SCHEDULED", "CONFIRMED", "CANCELLED"},
               owner : Contact, shared : BOOLEAN]

Stage == {"idle", "create", "patch", "join", "insert", "customer", "contact", "commit",
         "look", "answer", "note", "mint"}

Call == [at : Stage, kind : Errand, phone : PhoneOrBlank, email : EmailOrBlank,
         contact : Contact \cup {Blank}, saw : Row, customer : Nat, invitation : Nat,
         word : Word]

NoCall == [at |-> "idle", kind |-> "form", phone |-> Blank, email |-> Blank, contact |-> Blank,
           saw |-> NoRow, customer |-> 0, invitation |-> 0, word |-> "pending"]

\* The unique indexes of Contact.
Unique(rows) ==
  \A c, d \in Contact :
    c # d => /\ rows[c].phone = rows[d].phone => rows[c].phone = Blank
             /\ rows[c].email = rows[d].email => rows[c].email = Blank

\* The participants of old have no token: they were invited before there were any.
ASSUME AttendanceAssumption ==
  /\ Blank \notin Phone \cup Email \cup Contact
  /\ IsFiniteSet(Contact) /\ IsFiniteSet(Request)
  /\ \A b \in Beginnings :
       /\ b.contact \in [Contact -> {NoRow} \cup [st : {"there"}, phone : PhoneOrBlank, email : EmailOrBlank]]
       /\ Unique(b.contact)
       /\ b.customer \in Seq(Customer)
       /\ b.participant \in [Contact -> {NoParticipant, [NoParticipant EXCEPT !.status = "invited"]}]
       /\ \A c \in Contact : b.contact[c].st = "none" => b.participant[c] = NoParticipant
       /\ b.agenda \in [Errand -> Nat]

AttendanceInit ==
  /\ \E b \in Beginnings : /\ contact = b.contact /\ customer = b.customer
                           /\ participant = b.participant /\ agenda = b.agenda
  /\ invitation = << >>
  /\ request = [q \in Request |-> NoCall]
  /\ minted = 0
  /\ outrun = {} /\ entered = {} /\ mixed = {} /\ handed = {} /\ raced = {}

-----------------------------------------------------------------------------
(* Looking people up. *)

\* OR of the identifiers that are given.
Meets(row, phone, email) ==
  \/ phone # Blank /\ row.phone = phone
  \/ email # Blank /\ row.email = email

ContactsOf(phone, email) == {c \in Contact : contact[c].st = "there" /\ Meets(contact[c], phone, email)}

CustomersOf(phone, email) == {n \in DOMAIN customer : Meets(customer[n], phone, email)}

\* findFirst: the number of one of them, or 0.
SomeCustomer(phone, email) ==
  IF CustomersOf(phone, email) = {} THEN {0} ELSE CustomersOf(phone, email)

\* The unique indexes leave room for the row of c.
Room(c, phone, email) == ContactsOf(phone, email) \subseteq {c}

\* A contact row is written: what others have read of it is out of date.
Outruns(q, c, phone, email) ==
  outrun' = (outrun \ {q}) \cup
    {p \in Request \ {q} : request[p].at # "idle" /\
                           (request[p].contact = c \/ Meets(request[p], phone, email))}

Comes(k) == agenda[k] > 0 /\ agenda' = [agenda EXCEPT ![k] = @ - 1]

\* A request that is done, or throws.
Closes(q) == request' = [request EXCEPT ![q] = NoCall]

Closed(q) == Closes(q) /\ outrun' = outrun \ {q}

Goes(q, step) == request' = [request EXCEPT ![q].at = step]

\* The next contact id.
Fresh(c) == contact[c].st = "none" /\ c = CHOOSE d \in Contact : contact[d].st = "none"

Insert(c, phone, email) ==
  contact' = [contact EXCEPT ![c] = [st |-> "there", phone |-> phone, email |-> email]]

\* Variant of Joined that makes a token for whoever is invited again.
JoinedAnew(c) ==
  /\ participant' = [participant EXCEPT ![c] =
       [status |-> IF @.status = "none" THEN "invited" ELSE @.status, token |-> minted + 1]]
  /\ minted' = minted + 1

\* upsert with nothing to update: a token is made for a new participant only.
Joined(c) ==
  IF participant[c].status = "none"
  THEN /\ participant' = [participant EXCEPT ![c] = [status |-> "invited", token |-> minted + 1]]
       /\ minted' = minted + 1
  ELSE UNCHANGED <<participant, minted>>

-----------------------------------------------------------------------------
(* FormService.submitForm, of a form for the event. A name is enough. *)

SubmitForm(q, phone, email) ==
  /\ request[q].at = "idle" /\ Comes("form")
  /\ \/ \E c \in ContactsOf(phone, email) :
          request' = [request EXCEPT ![q] = [NoCall EXCEPT !.at = "patch", !.phone = phone,
                                              !.email = email, !.contact = c, !.saw = contact[c]]]
     \/ /\ ContactsOf(phone, email) = {}
        /\ request' = [request EXCEPT ![q] = [NoCall EXCEPT !.at = "create", !.phone = phone,
                                              !.email = email]]
  /\ outrun' = outrun \ {q}
  /\ UNCHANGED <<peopleVars, eventVars, tellVars>>

\* The insert throws if the identifiers are taken.
FormCreates(q) ==
  LET f == request[q] IN
  /\ f.at = "create"
  /\ \/ \E c \in Contact :
          /\ Fresh(c) /\ Room(c, f.phone, f.email)
          /\ Insert(c, f.phone, f.email)
          /\ Outruns(q, c, f.phone, f.email)
          /\ request' = [request EXCEPT ![q].at = "join", ![q].contact = c]
     \/ ContactsOf(f.phone, f.email) # {} /\ Closed(q) /\ UNCHANGED contact
  /\ UNCHANGED <<customer, eventVars, agenda, tellVars>>

\* Variant of FormPatches that takes what it is given.
FormOverwrites(q) ==
  LET f == request[q]
      c == f.contact
  IN
  /\ f.at = "patch"
  /\ contact[c].st = "there" /\ Room(c, f.phone, f.email)
  /\ Goes(q, "join")
  /\ contact' = [contact EXCEPT ![c].phone = IF f.phone # Blank THEN f.phone ELSE @,
                                ![c].email = IF f.email # Blank THEN f.email ELSE @]
  /\ Outruns(q, c, f.phone, f.email)
  /\ mixed' = mixed \cup {c}
  /\ UNCHANGED <<customer, eventVars, agenda, entered, handed, raced>>

\* The blanks of the row as it was read are filled. What throws is caught.
FormPatches(q) ==
  LET f == request[q]
      c == f.contact
      phone == IF f.saw.phone = Blank THEN f.phone ELSE Blank
      email == IF f.saw.email = Blank THEN f.email ELSE Blank
  IN
  /\ f.at = "patch"
  /\ Goes(q, "join")
  /\ \/ /\ contact[c].st = "there" /\ Room(c, phone, email)
        /\ phone # Blank \/ email # Blank
        /\ contact' = [contact EXCEPT ![c].phone = IF phone # Blank THEN phone ELSE @,
                                      ![c].email = IF email # Blank THEN email ELSE @]
        /\ Outruns(q, c, phone, email)
        /\ mixed' = mixed \cup {c}
     \/ /\ \/ contact[c].st = "gone" \/ ~Room(c, phone, email)
           \/ phone = Blank /\ email = Blank
        /\ UNCHANGED <<contact, outrun, mixed>>
  /\ UNCHANGED <<customer, eventVars, agenda, entered, handed, raced>>

\* The participant cannot be written if the contact is gone.
FormJoins(q) ==
  LET c == request[q].contact IN
  /\ request[q].at = "join"
  /\ IF contact[c].st = "there" THEN Joined(c) ELSE UNCHANGED <<participant, minted>>
  /\ Closed(q)
  /\ UNCHANGED <<peopleVars, invitation, agenda, tellVars>>

FormStep(q) ==
  \/ \E phone \in PhoneOrBlank, email \in EmailOrBlank : SubmitForm(q, phone, email)
  \/ FormCreates(q) \/ FormPatches(q) \/ FormJoins(q)

-----------------------------------------------------------------------------
(* ContactsService, ContactImportService. *)

\* create: a conflict if somebody is found.
CreateContact(q, phone, email) ==
  /\ request[q].at = "idle" /\ Comes("create")
  /\ ContactsOf(phone, email) = {}
  /\ request' = [request EXCEPT ![q] = [NoCall EXCEPT !.at = "insert", !.kind = "create",
                                              !.phone = phone, !.email = email]]
  /\ outrun' = outrun \ {q}
  /\ UNCHANGED <<peopleVars, eventVars, tellVars>>

\* The insert of create, and of a booking.
InsertContact(q) ==
  LET f == request[q] IN
  /\ f.at = "insert"
  /\ \/ \E c \in Contact :
          /\ Fresh(c) /\ Room(c, f.phone, f.email)
          /\ Insert(c, f.phone, f.email)
          /\ Outruns(q, c, f.phone, f.email)
     \/ ContactsOf(f.phone, f.email) # {} /\ UNCHANGED <<contact, outrun>>
  /\ Closes(q)
  /\ UNCHANGED <<customer, eventVars, agenda, tellVars>>

\* update, of an identifier that is not taken.
UpdateContact(c, phone, email) ==
  /\ Comes("update")
  /\ contact[c].st = "there" /\ Room(c, phone, email)
  /\ Insert(c, phone, email)
  /\ outrun' = outrun \cup {p \in Request : request[p].at # "idle" /\
                              (request[p].contact = c \/ Meets(request[p], phone, email))}
  /\ mixed' = mixed \cup {c}
  /\ UNCHANGED <<customer, eventVars, request, entered, handed, raced>>

\* remove, bulkDelete: the participant goes with the contact.
RemoveContact(c) ==
  /\ Comes("remove")
  /\ contact[c].st = "there"
  /\ contact' = [contact EXCEPT ![c] = [NoRow EXCEPT !.st = "gone"]]
  /\ participant' = [participant EXCEPT ![c] = NoParticipant]
  /\ outrun' = outrun \cup {p \in Request : request[p].at # "idle" /\ request[p].contact = c}
  /\ UNCHANGED <<customer, invitation, minted, request, tellVars>>

\* createMany with skipDuplicates: one row of the file.
ImportContact(c, phone, email) ==
  /\ Comes("import")
  /\ Fresh(c) /\ Room(c, phone, email)
  /\ Insert(c, phone, email)
  /\ outrun' = outrun \cup {p \in Request : request[p].at # "idle" /\ Meets(request[p], phone, email)}
  /\ UNCHANGED <<customer, eventVars, request, tellVars>>

BookStep(q) ==
  \/ \E phone \in PhoneOrBlank, email \in EmailOrBlank : CreateContact(q, phone, email)
  \/ InsertContact(q)

-----------------------------------------------------------------------------
(* BookingWidgetService.createAppointmentFromWidget and                     *)
(* AppointmentService.create, which writes appointments of other events.    *)

Book(q, phone, email) ==
  /\ request[q].at = "idle" /\ Comes("book")
  /\ phone # Blank \/ email # Blank
  /\ request' = [request EXCEPT ![q] =
       [NoCall EXCEPT !.at = IF CustomersOf(phone, email) = {} THEN "customer" ELSE "contact",
                      !.kind = "book", !.phone = phone, !.email = email]]
  /\ outrun' = outrun \ {q}
  /\ UNCHANGED <<peopleVars, eventVars, tellVars>>

\* ensureCustomer, for a contact read just before.
Appoint(q, c) ==
  /\ request[q].at = "idle" /\ Comes("appoint")
  /\ contact[c].st = "there" /\ CustomersOf(contact[c].phone, contact[c].email) = {}
  /\ request' = [request EXCEPT ![q] = [NoCall EXCEPT !.at = "customer", !.kind = "appoint",
                                              !.phone = contact[c].phone, !.email = contact[c].email]]
  /\ outrun' = outrun \ {q}
  /\ UNCHANGED <<peopleVars, eventVars, tellVars>>

CreateCustomer(q) ==
  LET f == request[q] IN
  /\ f.at = "customer"
  /\ customer' = Append(customer, [phone |-> f.phone, email |-> f.email])
  /\ IF f.kind = "book" THEN Goes(q, "contact") /\ UNCHANGED outrun ELSE Closed(q)
  /\ UNCHANGED <<contact, eventVars, agenda, tellVars>>

\* A booking makes a contact unless it finds one.
FindContact(q) ==
  /\ request[q].at = "contact"
  /\ IF ContactsOf(request[q].phone, request[q].email) = {}
     THEN Goes(q, "insert") /\ outrun' = outrun \ {q} ELSE Closed(q)
  /\ UNCHANGED <<peopleVars, eventVars, agenda, tellVars>>

-----------------------------------------------------------------------------
(* EventService: invite, respond, generateQrCode.                          *)

\* Two calls of the dashboard about one contact overlap.
Crosses(q, c) ==
  mixed' = IF \E p \in Request \ {q} : /\ request[p].at # "idle" /\ request[p].contact = c
                                       /\ request[p].kind \in {"invite", "respond"}
           THEN mixed \cup {c} ELSE mixed

\* The reads of the transaction. The customer who is found has one appointment of
\* the event at most.
Invite(q, c) ==
  /\ request[q].at = "idle" /\ Comes("invite")
  /\ contact[c].st = "there"
  /\ \E n \in SomeCustomer(contact[c].phone, contact[c].email) :
       \E i \in IF \E j \in DOMAIN invitation : invitation[j].customer = n
                THEN {j \in DOMAIN invitation : invitation[j].customer = n} ELSE {0} :
         request' = [request EXCEPT ![q] =
           [NoCall EXCEPT !.at = "commit", !.kind = "invite", !.contact = c, !.customer = n,
                          !.invitation = i, !.phone = contact[c].phone, !.email = contact[c].email]]
  /\ Crosses(q, c)
  /\ outrun' = outrun \ {q}
  /\ UNCHANGED <<peopleVars, eventVars, entered, handed, raced>>

\* What it writes is seen when it commits; a contact that is gone takes all back.
InviteCommits(q) ==
  LET f == request[q]
      c == f.contact
      n == IF f.customer = 0 THEN Len(customer) + 1 ELSE f.customer
  IN
  /\ f.at = "commit"
  /\ IF contact[c].st = "there"
     THEN /\ customer' = IF f.customer = 0 THEN Append(customer, [phone |-> f.phone, email |-> f.email])
                         ELSE customer
          /\ invitation' = IF f.invitation = 0
                           THEN Append(invitation, [customer |-> n, status |-> "SCHEDULED",
                                                    owner |-> c, shared |-> FALSE])
                           ELSE [invitation EXCEPT ![f.invitation].status = "SCHEDULED",
                                                   ![f.invitation].shared = @ \/ invitation[f.invitation].owner # c]
          /\ Joined(c)
          /\ entered' = entered \ {c}
     ELSE UNCHANGED <<customer, invitation, participant, minted, entered>>
  /\ Closed(q)
  /\ UNCHANGED <<contact, agenda, mixed, handed, raced>>

\* inviteByAudience, of one contact.
InviteAudience(c) ==
  /\ Comes("audience")
  /\ contact[c].st = "there" /\ Joined(c)
  /\ UNCHANGED <<peopleVars, invitation, request, outrun, tellVars>>

\* The respondent is read; one that is gone has nothing to match.
Respond(q, c, word) ==
  /\ request[q].at = "idle" /\ Comes("respond")
  /\ contact[c].st # "none"
  /\ request' = [request EXCEPT ![q] = [NoCall EXCEPT !.at = "look", !.kind = "respond", !.word = word,
                   !.contact = c, !.phone = contact[c].phone, !.email = contact[c].email]]
  /\ Crosses(q, c)
  /\ outrun' = outrun \ {q}
  /\ UNCHANGED <<peopleVars, eventVars, entered, handed, raced>>

RespondLooks(q) ==
  /\ request[q].at = "look"
  /\ \E n \in SomeCustomer(request[q].phone, request[q].email) :
       request' = [request EXCEPT ![q].at = IF n = 0 THEN "note" ELSE "answer", ![q].customer = n]
  /\ UNCHANGED <<peopleVars, eventVars, agenda, outrun, tellVars>>

StatusOf(word) ==
  CASE word = "confirmed" -> "CONFIRMED" [] word = "cancelled" -> "CANCELLED" [] OTHER -> "SCHEDULED"

\* Variant of RespondAnswers that looks for appointments by the contact's id.
RespondMisses(q) ==
  /\ request[q].at = "answer"
  /\ Goes(q, "note")
  /\ UNCHANGED <<peopleVars, eventVars, agenda, outrun, tellVars>>

RespondAnswers(q) ==
  LET f == request[q] IN
  /\ f.at = "answer"
  /\ invitation' = [i \in DOMAIN invitation |->
       IF invitation[i].customer = f.customer
       THEN [invitation[i] EXCEPT !.status = StatusOf(f.word), !.shared = @ \/ invitation[i].owner # f.contact]
       ELSE invitation[i]]
  /\ entered' = entered \ {f.contact}
  /\ Goes(q, "note")
  /\ UNCHANGED <<peopleVars, participant, minted, agenda, outrun, mixed, handed, raced>>

RespondNotes(q) ==
  LET c == request[q].contact IN
  /\ request[q].at = "note"
  /\ IF participant[c].status # "none"
     THEN participant' = [participant EXCEPT ![c].status = request[q].word] /\ entered' = entered \cup {c}
     ELSE UNCHANGED <<participant, entered>>
  /\ Closed(q)
  /\ UNCHANGED <<peopleVars, invitation, minted, agenda, mixed, handed, raced>>

\* A reply by message, or a bulk update: EventRsvp. Neither knows of appointments.
AnswersElsewhere(c, word) ==
  /\ Comes("reply")
  /\ participant[c].status # "none"
  /\ participant' = [participant EXCEPT ![c].status = word]
  /\ entered' = entered \ {c}
  /\ UNCHANGED <<peopleVars, invitation, minted, request, outrun, mixed, handed, raced>>

\* generateQrCode: the token there is, or a first one.
AskBadge(q, c) ==
  /\ request[q].at = "idle" /\ Comes("badge")
  /\ participant[c].status # "none"
  /\ IF participant[c].token # 0
     THEN handed' = handed \cup {<<c, participant[c].token>>} /\ UNCHANGED <<request, raced>>
     ELSE /\ request' = [request EXCEPT ![q] = [NoCall EXCEPT !.at = "mint", !.kind = "badge", !.contact = c]]
          /\ raced' = IF \E p \in Request : request[p].at = "mint" /\ request[p].contact = c
                      THEN raced \cup {c} ELSE raced
          /\ UNCHANGED handed
  /\ outrun' = outrun \ {q}
  /\ UNCHANGED <<peopleVars, eventVars, entered, mixed>>

\* The update throws if the participant is gone.
MintBadge(q) ==
  LET c == request[q].contact IN
  /\ request[q].at = "mint"
  /\ IF participant[c].status # "none"
     THEN /\ participant' = [participant EXCEPT ![c].token = minted + 1]
          /\ minted' = minted + 1
          /\ handed' = handed \cup {<<c, minted + 1>>}
     ELSE UNCHANGED <<participant, minted, handed>>
  /\ Closed(q)
  /\ UNCHANGED <<peopleVars, invitation, agenda, entered, mixed, raced>>

EventStep(q) ==
  \/ \E c \in Contact : Invite(q, c) \/ AskBadge(q, c) \/ \E word \in Word : Respond(q, c, word)
  \/ InviteCommits(q) \/ RespondLooks(q) \/ RespondAnswers(q) \/ RespondNotes(q) \/ MintBadge(q)

-----------------------------------------------------------------------------
AttendanceNext ==
  \/ \E q \in Request :
       \/ FormStep(q) \/ BookStep(q) \/ EventStep(q)
       \/ \E phone \in PhoneOrBlank, email \in EmailOrBlank : Book(q, phone, email)
       \/ \E c \in Contact : Appoint(q, c)
       \/ CreateCustomer(q) \/ FindContact(q)
  \/ \E c \in Contact :
       \/ RemoveContact(c) \/ InviteAudience(c)
       \/ \E word \in Word : AnswersElsewhere(c, word)
       \/ \E phone \in PhoneOrBlank, email \in EmailOrBlank :
            UpdateContact(c, phone, email) \/ ImportContact(c, phone, email)

AttendanceSpec == AttendanceInit /\ [][AttendanceNext]_attendanceVars

-----------------------------------------------------------------------------
\* Every variable keeps its type.
AttendanceTypeOK ==
  /\ contact \in [Contact -> Row]
  /\ customer \in Seq(Customer)
  /\ participant \in [Contact -> Participant]
  /\ invitation \in Seq(Invitation)
  /\ request \in [Request -> Call]
  /\ minted \in Nat
  /\ agenda \in [Errand -> Nat]
  /\ outrun \subseteq Request
  /\ entered \subseteq Contact /\ mixed \subseteq Contact /\ raced \subseteq Contact
  /\ handed \subseteq Contact \X Nat

\* A form submission loses nothing. It fills blanks of a contact and overwrites no
\* detail that is held ("never overwrite details the tenant already holds", in
\* upsertContact), and its sender takes part in the event afterwards: both unless
\* the contacts it looked up were written in the meantime.
NothingLost ==
  [][\A q \in Request :
       /\ request[q].at = "patch" /\ request'[q].at = "join" =>
            \A c \in Contact :
              \/ q \in outrun
              \/ /\ contact[c].phone # Blank => contact'[c].phone = contact[c].phone
                 /\ contact[c].email # Blank => contact'[c].email = contact[c].email
       /\ request[q].at = "create" /\ request'[q].at = "idle" => q \in outrun
       /\ request[q].at = "join" /\ request'[q].at = "idle" =>
            q \in outrun \/ participant'[request[q].contact].status # "none"]_attendanceVars

\* An answer entered at the dashboard reaches the contact's appointment, though
\* invite and respond find the customer by the contact's phone or e-mail. Not so if
\* several customers fit, another contact fits the same customer, the contact has
\* changed, or two calls about it overlapped.
AnswerReaches ==
  \A c \in entered \ mixed : \A i \in DOMAIN invitation :
    /\ invitation[i].owner = c /\ ~invitation[i].shared
    /\ Cardinality(CustomersOf(contact[c].phone, contact[c].email)) = 1
    => invitation[i].status = StatusOf(participant[c].status)

\* A badge that was handed out scans as long as its contact is there: no later
\* invitation, form or request makes another token ("re-inviting must not mint a
\* new token", in invite), unless two requests for a first badge overlapped.
BadgesScan ==
  \A b \in handed : \/ participant[b[1]].token = b[2]
                    \/ contact[b[1]].st = "gone"
                    \/ b[1] \in raced
=============================================================================
