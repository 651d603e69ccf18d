----------------------------- MODULE Components -----------------------------
(***************************************************************************)
(* The components that share nothing with each other, in one state space:  *)
(* a behaviour picks a part and is a behaviour of that part, so that the   *)
(* reachable states are the disjoint union of those of the parts.          *)
(***************************************************************************)
EXTENDS Mailbox, Transfer, Agenda, Advisor

(* A variable that is none of the part's. *)
Unused ==
        /\ IF part = "ai" THEN TRUE
           ELSE breaker = 0 /\ current = 0 /\ uses = 0 /\ attempt = 0
        /\ IF part = "summaries" THEN TRUE
           ELSE /\ next = 0 /\ model = 0 /\ channel = 0 /\ round = 0 /\ boot = 0
                /\ step = 0 /\ read = 0 /\ events = 0
        /\ IF part = "learning" THEN TRUE
           ELSE drafts = 0 /\ portrait = 0 /\ task = 0 /\ outages = 0
        /\ IF part = "assistant" THEN TRUE
           ELSE /\ known = 0 /\ cards = 0 /\ turns = 0 /\ session = 0 /\ plans = 0
                /\ confirm = 0
        /\ IF part = "imap" THEN TRUE
           ELSE /\ slot = 0 /\ tracker = 0 /\ connected = 0 /\ opLock = 0
                /\ connLock = 0 /\ want = 0 /\ thread = 0 /\ ping = 0
                /\ wrong = 0
        /\ IF part = "outgoing" THEN TRUE
           ELSE /\ mode = 0 /\ outbox = 0 /\ delivered = 0 /\ learned = 0
                /\ appended = 0 /\ sends = 0
        /\ IF part = "attachments" THEN TRUE
           ELSE real = 0 /\ eml = 0 /\ parts = 0 /\ saving = 0
        /\ IF part = "lists" THEN TRUE
           ELSE /\ data = 0 /\ entries = 0 /\ order = 0 /\ change = 0
                /\ listed = 0 /\ odd = 0
        /\ IF part = "folders" THEN TRUE
           ELSE /\ tree = 0 /\ trash = 0 /\ shown = 0 /\ locals = 0 /\ rescued = 0
                /\ todo = 0 /\ moved = 0 /\ dropped = 0 /\ halfway = 0 /\ lost = 0
        /\ IF part = "moves" THEN TRUE
           ELSE /\ source = 0 /\ uidnext = 0 /\ given = 0 /\ shared = 0
                /\ archive = 0 /\ dismissed = 0 /\ mistaken = 0 /\ unproven = 0
        /\ IF part = "calendars" THEN TRUE
           ELSE urlless = 0 /\ collection = 0 /\ account = 0 /\ served = 0
        /\ IF part = "contacts" THEN TRUE
           ELSE book = 0 /\ removed = 0 /\ clock = 0 /\ several = 0 /\ on = 0 /\ token = 0
        /\ IF part = "tasks" THEN TRUE
           ELSE google = 0 /\ series = 0 /\ mine = 0 /\ untold = 0 /\ parted = 0
        /\ IF part = "meetings" THEN TRUE
           ELSE ignored = 0 /\ scan = 0
        /\ IF part = "ideas" THEN TRUE
           ELSE made = 0 /\ twice = 0 /\ unread = 0 /\ abandoned = 0 /\ calls = 0
        /\ IF part = "invitations" THEN TRUE
           ELSE /\ event = 0 /\ invitation = 0 /\ mails = 0 /\ handled = 0
                /\ invited = 0 /\ replied = 0 /\ crossed = 0
        /\ IF part = "google" THEN TRUE
           ELSE /\ there = 0 /\ app = 0 /\ setting = 0 /\ KONTEN = 0
                /\ ZUGAENGE = 0 /\ WARTEND = 0 /\ back = 0 /\ signout = 0
                /\ user = 0 /\ revoked = 0
        /\ IF part = "migration" THEN TRUE
           ELSE target = 0 /\ worker = 0 /\ ever = 0 /\ reset = 0 /\ status = 0 /\ changes = 0
        /\ IF part = "import" THEN TRUE
           ELSE imported = 0 /\ raced = 0
        /\ IF part \in {"ai", "imap", "folders"} THEN TRUE
           ELSE at = 0
        /\ IF part \in {"summaries", "outgoing", "migration",
                       "import"} THEN TRUE
           ELSE rows = 0
        /\ IF part \in {"summaries", "import"} THEN TRUE
           ELSE job = 0
        /\ IF part \in {"learning", "outgoing"} THEN TRUE
           ELSE diffs = 0 /\ list = 0
        /\ IF part \in {"assistant", "ideas"} THEN TRUE
           ELSE run = 0
        /\ IF part \in {"imap", "outgoing"} THEN TRUE
           ELSE disturbed = 0
        /\ IF part \in {"outgoing", "moves", "calendars", "contacts",
                       "tasks", "invitations"} THEN TRUE
           ELSE request = 0
        /\ IF part \in {"outgoing", "attachments", "migration",
                       "import"} THEN TRUE
           ELSE files = 0
        /\ IF part \in {"outgoing", "invitations"} THEN TRUE
           ELSE answer = 0
        /\ IF part \in {"attachments", "lists"} THEN TRUE
           ELSE reader = 0
        /\ IF part \in {"attachments", "ideas", "google", "import"} THEN TRUE
           ELSE crashes = 0
        /\ IF part \in {"lists", "invitations"} THEN TRUE
           ELSE own = 0
        /\ IF part \in {"folders", "moves"} THEN TRUE
           ELSE ops = 0
        /\ IF part \in {"folders", "moves", "invitations", "import"} THEN TRUE
           ELSE requests = 0
        /\ IF part \in {"moves", "calendars", "contacts", "tasks",
                       "meetings", "ideas"} THEN TRUE
           ELSE row = 0
        /\ IF part \in {"calendars", "tasks", "invitations",
                       "migration"} THEN TRUE
           ELSE server = 0
        /\ IF part \in {"calendars", "contacts", "tasks"} THEN TRUE
           ELSE sync = 0
        /\ IF part \in {"calendars", "tasks", "meetings", "ideas"} THEN TRUE
           ELSE version = 0
        /\ IF part \in {"calendars", "contacts"} THEN TRUE
           ELSE switches = 0
        /\ IF part \in {"calendars", "contacts", "tasks", "ideas",
                       "invitations", "google", "migration", "import"} THEN TRUE
           ELSE errors = 0
        /\ IF part \in {"contacts", "ideas", "google"} THEN TRUE
           ELSE excused = 0
        /\ IF part \in {"meetings", "ideas"} THEN TRUE
           ELSE file = 0
        /\ IF part \in {"google", "migration"} THEN TRUE
           ELSE starts = 0

\* Such a variable keeps its value.
Kept ==
        /\ IF part = "ai" THEN TRUE
           ELSE UNCHANGED <<breaker, current, uses, attempt>>
        /\ IF part = "summaries" THEN TRUE
           ELSE UNCHANGED <<next, model, channel, round, boot, step, read,
                            events>>
        /\ IF part = "learning" THEN TRUE
           ELSE UNCHANGED <<drafts, portrait, task, outages>>
        /\ IF part = "assistant" THEN TRUE
           ELSE UNCHANGED <<known, cards, turns, session, plans, confirm>>
        /\ IF part = "imap" THEN TRUE
           ELSE UNCHANGED <<slot, tracker, connected, opLock, connLock, want,
                            thread, ping, wrong>>
        /\ IF part = "outgoing" THEN TRUE
           ELSE UNCHANGED <<mode, outbox, delivered, learned, appended, sends>>
        /\ IF part = "attachments" THEN TRUE
           ELSE UNCHANGED <<real, eml, parts, saving>>
        /\ IF part = "lists" THEN TRUE
           ELSE UNCHANGED <<data, entries, order, change, listed, odd>>
        /\ IF part = "folders" THEN TRUE
           ELSE UNCHANGED <<tree, trash, shown, locals, rescued, todo, moved,
                            dropped, halfway, lost>>
        /\ IF part = "moves" THEN TRUE
           ELSE UNCHANGED <<source, uidnext, given, shared, archive, dismissed, mistaken, unproven>>
        /\ IF part = "calendars" THEN TRUE
           ELSE UNCHANGED <<urlless, collection, account, served>>
        /\ IF part = "contacts" THEN TRUE
           ELSE UNCHANGED <<book, removed, clock, several, on, token>>
        /\ IF part = "tasks" THEN TRUE
           ELSE UNCHANGED <<google, series, mine, untold, parted>>
        /\ IF part = "meetings" THEN TRUE
           ELSE UNCHANGED <<ignored, scan>>
        /\ IF part = "ideas" THEN TRUE
           ELSE UNCHANGED <<made, twice, unread, abandoned, calls>>
        /\ IF part = "invitations" THEN TRUE
           ELSE UNCHANGED <<event, invitation, mails, handled, invited, replied,
                            crossed>>
        /\ IF part = "google" THEN TRUE
           ELSE UNCHANGED <<there, app, setting, KONTEN, ZUGAENGE, WARTEND,
                            back, signout, user, revoked>>
        /\ IF part = "migration" THEN TRUE
           ELSE UNCHANGED <<target, worker, ever, reset, status, changes>>
        /\ IF part = "import" THEN TRUE
           ELSE UNCHANGED <<imported, raced>>
        /\ IF part \in {"ai", "imap", "folders"} THEN TRUE
           ELSE UNCHANGED <<at>>
        /\ IF part \in {"summaries", "outgoing", "migration",
                       "import"} THEN TRUE
           ELSE UNCHANGED <<rows>>
        /\ IF part \in {"summaries", "import"} THEN TRUE
           ELSE UNCHANGED <<job>>
        /\ IF part \in {"learning", "outgoing"} THEN TRUE
           ELSE UNCHANGED <<diffs, list>>
        /\ IF part \in {"assistant", "ideas"} THEN TRUE
           ELSE UNCHANGED <<run>>
        /\ IF part \in {"imap", "outgoing"} THEN TRUE
           ELSE UNCHANGED <<disturbed>>
        /\ IF part \in {"outgoing", "moves", "calendars", "contacts",
                       "tasks", "invitations"} THEN TRUE
           ELSE UNCHANGED <<request>>
        /\ IF part \in {"outgoing", "attachments", "migration",
                       "import"} THEN TRUE
           ELSE UNCHANGED <<files>>
        /\ IF part \in {"outgoing", "invitations"} THEN TRUE
           ELSE UNCHANGED <<answer>>
        /\ IF part \in {"attachments", "lists"} THEN TRUE
           ELSE UNCHANGED <<reader>>
        /\ IF part \in {"attachments", "ideas", "google", "import"} THEN TRUE
           ELSE UNCHANGED <<crashes>>
        /\ IF part \in {"lists", "invitations"} THEN TRUE
           ELSE UNCHANGED <<own>>
        /\ IF part \in {"folders", "moves"} THEN TRUE
           ELSE UNCHANGED <<ops>>
        /\ IF part \in {"folders", "moves", "invitations", "import"} THEN TRUE
           ELSE UNCHANGED <<requests>>
        /\ IF part \in {"moves", "calendars", "contacts", "tasks",
                       "meetings", "ideas"} THEN TRUE
           ELSE UNCHANGED <<row>>
        /\ IF part \in {"calendars", "tasks", "invitations",
                       "migration"} THEN TRUE
           ELSE UNCHANGED <<server>>
        /\ IF part \in {"calendars", "contacts", "tasks"} THEN TRUE
           ELSE UNCHANGED <<sync>>
        /\ IF part \in {"calendars", "tasks", "meetings", "ideas"} THEN TRUE
           ELSE UNCHANGED <<version>>
        /\ IF part \in {"calendars", "contacts"} THEN TRUE
           ELSE UNCHANGED <<switches>>
        /\ IF part \in {"calendars", "contacts", "tasks", "ideas",
                       "invitations", "google", "migration", "import"} THEN TRUE
           ELSE UNCHANGED <<errors>>
        /\ IF part \in {"contacts", "ideas", "google"} THEN TRUE
           ELSE UNCHANGED <<excused>>
        /\ IF part \in {"meetings", "ideas"} THEN TRUE
           ELSE UNCHANGED <<file>>
        /\ IF part \in {"google", "migration"} THEN TRUE
           ELSE UNCHANGED <<starts>>

Init == /\ \/ part = "ai" /\ Ai!Init
           \/ part = "summaries" /\ Sw!Init
           \/ part = "learning" /\ Le!Init
           \/ part = "assistant" /\ As!Init
           \/ part = "imap" /\ Is!Init
           \/ part = "outgoing" /\ Ou!Init
           \/ part = "attachments" /\ At!Init
           \/ part = "lists" /\ Li!Init
           \/ part = "folders" /\ Fo!Init
           \/ part = "moves" /\ Mo!Init
           \/ part = "calendars" /\ Ca!Init
           \/ part = "contacts" /\ Co!Init
           \/ part = "tasks" /\ Ta!Init
           \/ part = "meetings" /\ Mt!Init
           \/ part = "ideas" /\ Id!Init
           \/ part = "invitations" /\ In!Init
           \/ part = "google" /\ Go!Init
           \/ part = "migration" /\ Mi!Init
           \/ part = "import" /\ Im!Init
        /\ Unused

Next == /\ UNCHANGED part
        /\ \/ part = "ai" /\ Ai!Next
           \/ part = "summaries" /\ Sw!Next
           \/ part = "learning" /\ Le!Next
           \/ part = "assistant" /\ As!Next
           \/ part = "imap" /\ Is!Next
           \/ part = "outgoing" /\ Ou!Next
           \/ part = "attachments" /\ At!Next
           \/ part = "lists" /\ Li!Next
           \/ part = "folders" /\ Fo!Next
           \/ part = "moves" /\ Mo!Next
           \/ part = "calendars" /\ Ca!Next
           \/ part = "contacts" /\ Co!Next
           \/ part = "tasks" /\ Ta!Next
           \/ part = "meetings" /\ Mt!Next
           \/ part = "ideas" /\ Id!Next
           \/ part = "invitations" /\ In!Next
           \/ part = "google" /\ Go!Next
           \/ part = "migration" /\ Mi!Next
           \/ part = "import" /\ Im!Next
        /\ Kept

Spec == Init /\ [][Next]_vars

-----------------------------------------------------------------------------
(* The type invariant of every part. *)
TypeOK == /\ part = "ai" => Ai!TypeOK
          /\ part = "summaries" => Sw!TypeOK
          /\ part = "learning" => Le!TypeOK
          /\ part = "assistant" => As!TypeOK
          /\ part = "imap" => Is!TypeOK
          /\ part = "outgoing" => Ou!TypeOK
          /\ part = "attachments" => At!TypeOK
          /\ part = "lists" => Li!TypeOK
          /\ part = "folders" => Fo!TypeOK
          /\ part = "moves" => Mo!TypeOK
          /\ part = "calendars" => Ca!TypeOK
          /\ part = "contacts" => Co!TypeOK
          /\ part = "tasks" => Ta!TypeOK
          /\ part = "meetings" => Mt!TypeOK
          /\ part = "ideas" => Id!TypeOK
          /\ part = "invitations" => In!TypeOK
          /\ part = "google" => Go!TypeOK
          /\ part = "migration" => Mi!TypeOK
          /\ part = "import" => Im!TypeOK
=============================================================================
