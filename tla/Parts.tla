-------------------------------- MODULE Parts -------------------------------
(***************************************************************************)
(* The constants and variables of the components that share nothing with   *)
(* each other.  A variable is used by every part that has one of that      *)
(* name, and is 0 in the others; constants and variables of a part are the *)
(* ones of the same name, but for a few that one part has more or fewer    *)
(* of.                                                                     *)
(***************************************************************************)
EXTENDS Naturals, Sequences

CONSTANTS Users, Background, Streams, Threshold, MaxRetries, MaxClients,               \* AiGateway, GoogleSignIn
          Messages, Absent, Capacity, CatchUp, MaxEvents,                              \* SummaryWorker, Outgoing, Moves
          KeptDiffs, Batch, Hints, MaxDrafts, MaxOutages,                              \* Learning
          Things, KindOf, NumberOf, Confirms, MaxPlans, MaxTurns, MaxCards, MaxMessages, \* Assistant
          Ops, Others, MailFolders, InboxFolder,                                       \* ImapSlots, ListCache, Moves
          Runs, MaxSends,                                                              \* Outgoing
          Synced, Draft, Names, Contents, Torn, Letters, MaxCrashes,                   \* Attachments
          Readers, Ttl, MaxEntries, MaxChanges,                                        \* ListCache
          Filed, TreePaths, TrashPlaces, Nowhere, MaxRequests,                         \* FolderAdmin
          Uids, Local,                                                                 \* Moves
          Events, Ticker, MaxVersion, MaxSwitches, MaxErrors,                          \* Calendars
          Entries, MaxBooks, MaxEdits,                                                 \* Contacts
          Todos, Syncs, Changers, MaxTasks,                                            \* Tasks
          Memos, Scans, MaxMemos,                                                      \* Meetings
          Attempts, MaxCalls, MaxStops,                                                \* Ideas
          People, Me, MaxMails,                                                        \* Invitations
          MaxStarts,                                                                   \* GoogleSignIn
          Own, GivenUids, Limit, MaxMigrations, MaxResets,                             \* Migration
          Box, Anonymous, Importers                                                    \* MailImport, Moves

VARIABLES part,    \* the component a behaviour is one of
          breaker, current, uses, attempt, next, model, channel, round, boot,
          step, read, events, drafts, portrait, task, outages, known, cards,
          turns, session, plans, confirm, slot, tracker, connected, opLock,
          connLock, want, thread, ping, wrong, mode, outbox, delivered,
          learned, appended, sends, real, eml, parts, saving, data, entries,
          order, change, listed, odd, tree, trash, shown, locals, rescued,
          todo, moved, dropped, halfway, lost, source, uidnext, given, shared, archive,
          dismissed, mistaken, unproven, urlless, collection, account, served, book, removed, clock,
          several, on, token, google, series, mine, untold, parted, ignored, scan,
          made, twice, unread, abandoned, calls, event, invitation, mails, handled,
          invited, replied, crossed, there, app, setting, KONTEN, ZUGAENGE,
          WARTEND, back, signout, user, revoked, target, worker, ever, reset, status,
          changes, imported, raced, at, rows, job, diffs, list, run, disturbed,
          request, files, answer, reader, crashes, own, ops, requests, row,
          server, sync, version, switches, errors, excused, file, starts
vars == <<part,
          breaker, current, uses, attempt, next, model, channel, round, boot,
          step, read, events, drafts, portrait, task, outages, known, cards,
          turns, session, plans, confirm, slot, tracker, connected, opLock,
          connLock, want, thread, ping, wrong, mode, outbox, delivered,
          learned, appended, sends, real, eml, parts, saving, data, entries,
          order, change, listed, odd, tree, trash, shown, locals, rescued,
          todo, moved, dropped, halfway, lost, source, uidnext, given, shared, archive,
          dismissed, mistaken, unproven, urlless, collection, account, served, book, removed, clock,
          several, on, token, google, series, mine, untold, parted, ignored, scan,
          made, twice, unread, abandoned, calls, event, invitation, mails, handled,
          invited, replied, crossed, there, app, setting, KONTEN, ZUGAENGE,
          WARTEND, back, signout, user, revoked, target, worker, ever, reset, status,
          changes, imported, raced, at, rows, job, diffs, list, run, disturbed,
          request, files, answer, reader, crashes, own, ops, requests, row,
          server, sync, version, switches, errors, excused, file, starts>>
=============================================================================
