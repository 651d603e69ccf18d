---------------------------- MODULE GoogleSignIn ----------------------------
(***************************************************************************)
(* Signing a mail account in to Google (google/mod.rs) and the requests    *)
(* made with its access token.  A sign-in is known in three places: the    *)
(* setting on disk, KONTEN and ZUGAENGE in memory, each with a lock of its *)
(* own.  Refresh and access tokens are named by the sign-in they are from. *)
(***************************************************************************)
EXTENDS Naturals

CONSTANTS Users,     \* tasks that need an access token
          MaxStarts, \* bound: sign-ins begun
          MaxErrors, \* bound: calls and writes that fail
          MaxCrashes \* bound: restarts

SignInAssumption == {MaxStarts, MaxErrors, MaxCrashes} \subseteq Nat

VARIABLES there,     \* the mail account exists
          app,       \* the Google project's client is entered
          setting, KONTEN, \* the refresh token on disk and in memory, 0 for none
          ZUGAENGE,  \* the access token and whether it has a minute left
          WARTEND,   \* sign-ins whose page is open
          starts, back, signout, user,
          revoked,   \* sign-ins Google no longer honours
          excused,   \* see the property
          errors, crashes
vars == <<there, app, setting, KONTEN, ZUGAENGE, WARTEND, starts, back, signout, user, revoked, excused, errors, crashes>>

SignIns == 1 .. MaxStarts
Tokens == 0 .. MaxStarts
NoAccess == [of |-> 0, fresh |-> FALSE]
NoSignOut == [step |-> "none", of |-> 0, delete |-> FALSE]
Idle == [step |-> "idle", of |-> 0]

TypeOK == /\ there \in BOOLEAN /\ app \in BOOLEAN /\ setting \in Tokens /\ KONTEN \in Tokens
          /\ ZUGAENGE \in [of : Tokens, fresh : BOOLEAN] /\ WARTEND \subseteq SignIns /\ starts \in Tokens
          /\ back \in [SignIns -> {"none", "code", "stored", "known"}]
          /\ signout \in [step : {"none", "begun", "access", "setting", "revoke"}, of : Tokens, delete : BOOLEAN]
          /\ user \in [Users -> [step : {"idle", "wait", "look", "asked", "send"}, of : Tokens]]
          /\ revoked \subseteq SignIns /\ excused \in BOOLEAN /\ errors \in 0 .. MaxErrors /\ crashes \in 0 .. MaxCrashes

Init == /\ there = TRUE /\ app = FALSE /\ setting = 0 /\ KONTEN = 0 /\ ZUGAENGE = NoAccess /\ WARTEND = {}
        /\ starts = 0 /\ back = [s \in SignIns |-> "none"] /\ signout = NoSignOut /\ user = [u \in Users |-> Idle]
        /\ revoked = {} /\ excused = FALSE /\ errors = 0 /\ crashes = 0

Fails == errors < MaxErrors /\ errors' = errors + 1
Returning == {s \in SignIns : back[s] # "none"}
Refreshing == {u \in Users : user[u].step = "asked"}
Known == <<setting, KONTEN, ZUGAENGE>>
Bounds == <<errors, crashes>>

-----------------------------------------------------------------------------
\* Signing in

app_setzen == /\ ~app /\ app' = TRUE
              /\ UNCHANGED <<there, Known, WARTEND, starts, back, signout, user, revoked, excused, Bounds>>

start == /\ there /\ app /\ starts < MaxStarts
         /\ starts' = starts + 1 /\ WARTEND' = WARTEND \cup {starts + 1}
         /\ UNCHANGED <<there, app, Known, back, signout, user, revoked, excused, Bounds>>

\* Fifteen minutes over: the entry no longer counts.
Expire(s) == /\ s \in WARTEND /\ WARTEND' = WARTEND \ {s}
             /\ UNCHANGED <<there, app, Known, starts, back, signout, user, revoked, excused, Bounds>>

\* The browser comes back with a code or with the user's refusal; only a code
\* uses the entry up.
google_rueckweg(s) == /\ s \in WARTEND /\ app
                      /\ WARTEND' = WARTEND \ {s} /\ back' = [back EXCEPT ![s] = "code"]
                      /\ excused' = (excused \/ signout.step # "none" \/ Returning # {} \/ ~there)
                      /\ UNCHANGED <<there, app, Known, starts, signout, user, revoked, Bounds>>

NoCode(s) == /\ back[s] = "code" /\ Fails /\ back' = [back EXCEPT ![s] = "none"]
             /\ UNCHANGED <<there, app, Known, WARTEND, starts, signout, user, revoked, excused, crashes>>
StoreRefresh(s) == /\ back[s] = "code" /\ back' = [back EXCEPT ![s] = "stored"]
                   /\ setting' = s
                   /\ UNCHANGED <<there, app, KONTEN, ZUGAENGE, WARTEND, starts, signout, user, revoked, excused, Bounds>>
KnowRefresh(s) == /\ back[s] = "stored" /\ back' = [back EXCEPT ![s] = "known"]
                  /\ KONTEN' = s /\ excused' = (excused \/ Refreshing # {})
                  /\ UNCHANGED <<there, app, setting, ZUGAENGE, WARTEND, starts, signout, user, revoked, Bounds>>
KnowAccess(s) == /\ back[s] = "known" /\ back' = [back EXCEPT ![s] = "none"]
                 /\ ZUGAENGE' = [of |-> s, fresh |-> TRUE]
                 /\ UNCHANGED <<there, app, setting, KONTEN, WARTEND, starts, signout, user, revoked, excused, Bounds>>
rueckweg(s) == NoCode(s) \/ StoreRefresh(s) \/ KnowRefresh(s) \/ KnowAccess(s)

-----------------------------------------------------------------------------
\* Signing out, by the user or before the account is deleted

\* google_trennen and alles_aus switch calendar, tasks and contacts off first.
\* The deletion asks for a sign-out only where it finds a sign-in.
SignOut(delete) == /\ there /\ signout.step = "none"
                   /\ signout' = [step |-> IF delete /\ KONTEN = 0 THEN "revoke" ELSE "begun", of |-> 0, delete |-> delete]
                   /\ excused' = (excused \/ Returning # {})
                   /\ UNCHANGED <<there, app, Known, WARTEND, starts, back, user, revoked, Bounds>>

ForgetRefresh == /\ signout.step = "begun"
                 /\ signout' = [signout EXCEPT !.step = "access", !.of = KONTEN]
                 /\ KONTEN' = 0 /\ excused' = (excused \/ Refreshing # {})
                 /\ UNCHANGED <<there, app, setting, ZUGAENGE, WARTEND, starts, back, user, revoked, Bounds>>

KeptAccess == ZUGAENGE
WithoutAccess == NoAccess
ForgetAccess == /\ signout.step = "access" /\ signout' = [signout EXCEPT !.step = "setting"]
                /\ ZUGAENGE' = WithoutAccess /\ excused' = (excused \/ Refreshing # {})
                /\ UNCHANGED <<there, app, setting, KONTEN, WARTEND, starts, back, user, revoked, Bounds>>

\* Without the write nothing is revoked either; a deletion goes on.
ForgetSetting == /\ signout.step = "setting"
                 /\ \/ setting' = 0 /\ signout' = [signout EXCEPT !.step = "revoke"] /\ UNCHANGED <<errors, excused>>
                    \/ Fails /\ excused' = TRUE /\ UNCHANGED setting
                       /\ signout' = IF signout.delete THEN [signout EXCEPT !.step = "revoke", !.of = 0] ELSE NoSignOut
                 /\ UNCHANGED <<there, app, KONTEN, ZUGAENGE, WARTEND, starts, back, user, revoked, crashes>>

\* Best effort; then the account leaves, if that was asked for.
Revoke == /\ signout.step = "revoke" /\ signout' = NoSignOut
          /\ there' = ~signout.delete
          /\ \/ revoked' = revoked \cup ({signout.of} \ {0}) /\ UNCHANGED errors
             \/ signout.of # 0 /\ Fails /\ UNCHANGED revoked
          /\ UNCHANGED <<app, Known, WARTEND, starts, back, user, excused, crashes>>

trennen == ForgetRefresh \/ ForgetAccess \/ ForgetSetting \/ Revoke

-----------------------------------------------------------------------------
\* An access token for a request

To(u, step, of) == user' = [user EXCEPT ![u] = [step |-> step, of |-> of]]
Else == <<there, app, setting, KONTEN, WARTEND, starts, back, signout, revoked, excused, crashes>>

Call(u) == /\ user[u].step = "idle" /\ there
           /\ IF ZUGAENGE.fresh THEN To(u, "send", ZUGAENGE.of) ELSE To(u, "wait", 0)
           /\ UNCHANGED <<Else, ZUGAENGE, errors>>

\* ERNEUERN: one refresh at a time.
LockFree == \A u \in Users : user[u].step \notin {"look", "asked"}
Lock(u) == /\ user[u].step = "wait" /\ LockFree /\ To(u, "look", 0)
           /\ UNCHANGED <<Else, ZUGAENGE, errors>>

\* Looked at once more: another task may have refreshed meanwhile.  Without a
\* sign-in the request goes out without a token.
Look(u) == /\ user[u].step = "look"
           /\ IF ZUGAENGE.fresh THEN To(u, "send", ZUGAENGE.of)
              ELSE IF KONTEN = 0 \/ ~app THEN To(u, "send", 0) ELSE To(u, "asked", KONTEN)
           /\ UNCHANGED <<Else, ZUGAENGE, errors>>

Refreshed(u) == /\ user[u].step = "asked" /\ user[u].of \notin revoked
                /\ ZUGAENGE' = [of |-> user[u].of, fresh |-> TRUE] /\ To(u, "send", user[u].of)
                /\ UNCHANGED <<Else, errors>>
NotRefreshed(u) == /\ user[u].step = "asked" /\ To(u, "send", 0)
                   /\ user[u].of \notin revoked => Fails
                   /\ user[u].of \in revoked => UNCHANGED errors
                   /\ UNCHANGED <<Else, ZUGAENGE>>
zugang(u) == Call(u) \/ Lock(u) \/ Look(u) \/ Refreshed(u) \/ NotRefreshed(u)

send(u) == /\ user[u].step = "send" /\ user' = [user EXCEPT ![u] = Idle]
           /\ UNCHANGED <<Else, ZUGAENGE, errors>>

Age == /\ ZUGAENGE.fresh /\ ZUGAENGE' = [ZUGAENGE EXCEPT !.fresh = FALSE]
       /\ UNCHANGED <<Else, user, errors>>

\* laden: memory is what the setting says.
Restart == /\ crashes < MaxCrashes /\ crashes' = crashes + 1
           /\ KONTEN' = setting /\ ZUGAENGE' = NoAccess /\ WARTEND' = {}
           /\ back' = [s \in SignIns |-> "none"] /\ signout' = NoSignOut /\ user' = [u \in Users |-> Idle]
           /\ excused' = (excused /\ ~there)
           /\ UNCHANGED <<there, app, setting, starts, revoked, errors>>

Next == \/ app_setzen \/ start \/ trennen \/ Age \/ Restart
        \/ \E s \in SignIns : Expire(s) \/ google_rueckweg(s) \/ rueckweg(s)
        \/ \E delete \in BOOLEAN : SignOut(delete)
        \/ \E u \in Users : zugang(u) \/ send(u)

Spec == Init /\ [][Next]_vars

-----------------------------------------------------------------------------
(* Between two calls Google's sign-in is the same on disk, in memory and   *)
(* among the access tokens, and a deleted account has none: a sign-out, a  *)
(* new sign-in or a refresh cannot leave a token of another sign-in behind *)
(* to make requests with.  Excused are the races the code allows: a return *)
(* from Google or a refresh under way while the sign-in changes, a return  *)
(* after the account was deleted, and a sign-out whose write failed.       *)
Settled == signout.step = "none" /\ Returning = {}
OneSignIn == Settled /\ ~excused => /\ setting = KONTEN
                                    /\ ZUGAENGE.of \in {0, KONTEN}
                                    /\ ~there => KONTEN = 0
=============================================================================
