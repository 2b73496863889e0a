----------------------------- MODULE PopupPage -----------------------------
(***************************************************************************)
(* The page the OAuth callback serves into the popup (callback_html and    *)
(* callback.html), and the messages its script posts to the window that    *)
(* opened the popup, next to the claim as that window polls it.            *)
(*                                                                         *)
(* Only two of the callback's replies carry the page; the 400s without a   *)
(* challenge, the 404, the 410 and the 502 are plain text, on which no     *)
(* script runs.  A posted message is handled later, in whatever order.     *)
(*                                                                         *)
(* The text of an error comes with the redirect and is put between the     *)
(* quotes of initialError as it is.  When it is not the inside of a        *)
(* JavaScript string, the page's script is no longer the one in            *)
(* callback.html: it may be none, or one that posts what it likes, about   *)
(* any claim and as often as it likes, and leaves the popup open.          *)
(***************************************************************************)
EXTENDS ClaimFlow

VARIABLES popup,    \* the window each callback's reply is shown in
          posted,   \* messages the opener has not handled yet
          heard,    \* those it has
          opener    \* whether the opener is still there

pageVars == <<popup, posted, heard, opener>>
allVars == <<vars, pageVars>>

\* The page as written is in a window that a script opened ("popup") or that none
\* did ("tab"), or the page has a text in it that changes its script ("altered").
PopupState == {"loading", "popup", "tab", "altered", "closing", "open", "closed"}

\* Whose script posts a message is for the properties: the opener cannot tell.
Phase   == {"failed", "oauth_complete"}
Message == [from : Callback, script : {"written", "altered"}, challenge : Challenge, phase : Phase]

PPInit == /\ Init
          /\ popup = [k \in Callback |-> "loading"]
          /\ posted = {} /\ heard = {} /\ opener = TRUE

(***************************************************************************)
(* callback_html: the challenge and the phase the page is filled with.     *)
(***************************************************************************)
HasPage(k) == cb[k].pc \in {"failed_page", "progress_page"}
InitialPhase(k) == IF cb[k].pc = "failed_page" THEN "failed" ELSE "oauth_complete"
Notice(k) == [from |-> k, script |-> "written", challenge |-> cb[k].challenge,
              phase |-> InitialPhase(k)]

Shows(k, state) == popup' = [popup EXCEPT ![k] = state]

\* The reply reaches its window, or it never does.  A page of a claim in progress
\* has no error text in it.
Loads(k) == /\ popup[k] = "loading" /\ HasPage(k)
            /\ \/ Shows(k, "popup") \/ Shows(k, "tab")
               \/ InitialPhase(k) = "failed" /\ Shows(k, "altered")
            /\ UNCHANGED <<vars, posted, heard, opener>>

(***************************************************************************)
(* The script.                                                             *)
(***************************************************************************)
\* notifyOpener, which does nothing when there is no opener.
NotifyOpener(m) == posted' = IF opener THEN posted \cup {m} ELSE posted

\* A script that closes the popup only after a success.
ScriptKeepsFailure(k) ==
  /\ popup[k] = "popup"
  /\ NotifyOpener(Notice(k))
  /\ Shows(k, IF InitialPhase(k) = "failed" THEN "open" ELSE "closing")
  /\ UNCHANGED <<vars, heard, opener>>

\* In a popup: tell the opener, then closeSoon, whatever the phase.
Script(k) == /\ popup[k] = "popup"
             /\ NotifyOpener(Notice(k))
             /\ Shows(k, "closing")
             /\ UNCHANGED <<vars, heard, opener>>

\* In a tab, such as that of a link the user opened: there may be no opener to
\* tell, and a browser may refuse the window.close() of closeSoon.
ScriptInTab(k) == /\ popup[k] = "tab"
                  /\ NotifyOpener(Notice(k)) \/ UNCHANGED posted
                  /\ Shows(k, "closing") \/ Shows(k, "open")
                  /\ UNCHANGED <<vars, heard, opener>>

\* An altered script takes one more step of its own: any message, or the end.
AlteredScript(k) ==
  /\ popup[k] = "altered"
  /\ \/ \E m \in Message : /\ m.from = k /\ m.script = "altered"
                           /\ NotifyOpener(m) /\ UNCHANGED popup
     \/ Shows(k, "closing") /\ UNCHANGED posted
  /\ UNCHANGED <<vars, heard, opener>>

\* The 400 ms are over, or the user closes the window.
Closes(k) == /\ popup[k] = "closing"
             /\ Shows(k, "closed")
             /\ UNCHANGED <<vars, posted, heard, opener>>
UserCloses(k) == /\ popup[k] # "closed" /\ popup[k] # "closing"
                 /\ Shows(k, "closed")
                 /\ UNCHANGED <<vars, posted, heard, opener>>

(***************************************************************************)
(* The opener (external).                                                  *)
(***************************************************************************)
Hears(m) == /\ opener /\ m \in posted
            /\ posted' = posted \ {m} /\ heard' = heard \cup {m}
            /\ UNCHANGED <<vars, popup, opener>>

\* It is closed, or navigates away: what it has not handled is gone.
OpenerLeaves == /\ opener
                /\ opener' = FALSE /\ posted' = {}
                /\ UNCHANGED <<vars, popup, heard>>

Page(k) == \/ Loads(k) \/ Script(k) \/ ScriptInTab(k) \/ AlteredScript(k)
           \/ Closes(k) \/ UserCloses(k)

PPNext == \/ Next /\ UNCHANGED pageVars
          \/ \E k \in Callback : Page(k)
          \/ \E m \in posted : Hears(m)
          \/ OpenerLeaves

PPSpec == PPInit /\ [][PPNext]_allVars

\* A browser runs the script of a page it has loaded, and the timer it sets.
PPFairSpec == PPSpec /\ \A k \in Callback : WF_allVars(Script(k)) /\ WF_allVars(Closes(k))

(***************************************************************************)
(* Properties.                                                             *)
(***************************************************************************)
\* However late a message of the page as written is handled, no poll that follows
\* contradicts it, in this process or the next, whatever other windows say: after
\* "failed" no claim in progress or done, after "oauth_complete" none that waits.
NewsMatchesPoll ==
  \A m \in posted \cup heard : m.script = "written" =>
    IF m.phase = "failed" THEN StatusView(m.challenge) \in {"failed", "not_found"}
                          ELSE StatusView(m.challenge) # "waiting"

\* "the popup closes now and the UI polls the result endpoint" (callback.rs:152): a
\* window that a script opened goes away once it shows the page as written, after a
\* failure too.  Of a tab and of an altered script the code promises nothing.
PopupCloses == \A k \in Callback : popup[k] = "popup" ~> popup[k] = "closed"
=============================================================================
