------------------------------ MODULE Settings ------------------------------
(***************************************************************************)
(* The settings screen: a switch and a date picker, the preference kept    *)
(* over restarts, and the reminder that the notification centre keeps and  *)
(* delivers.  Each time the screen disappears it stores the one and asks   *)
(* for the other; requests are carried out later, in order.                *)
(*                                                                         *)
(* Dates are minutes.  A picked date names year, month and day, so its     *)
(* reminder comes once, when the minute begins, or not at all.             *)
(***************************************************************************)
EXTENDS Naturals, Sequences

CONSTANTS
  MaxDate,    \* bound: the last minute looked at
  MaxAdds     \* bound: requests to the notification centre under way

BoundsAssumption == MaxDate \in Nat /\ MaxAdds \in Nat

VARIABLES
  now,
  loaded,            \* a settings screen exists
  isOn, date,        \* its switch and its date picker
  showNotifications, \* the stored preference
  adding,            \* requests under way, in order
  pending,           \* dates of the reminders the centre keeps
  delivered,         \* a reminder stands in the notification centre
  asked,             \* history: the date last asked for
  failed             \* history: the last request carried out was turned down

vars == <<now, loaded, isOn, date, showNotifications, adding, pending, delivered,
          asked, failed>>

Date == 0..MaxDate

(* Every variable keeps its type; the only invariant that says no more.    *)
TypeOK ==
  /\ now \in Date /\ date \in Date /\ asked \in Date
  /\ loaded \in BOOLEAN /\ isOn \in BOOLEAN /\ showNotifications \in BOOLEAN
  /\ adding \in Seq(Date) /\ pending \subseteq Date
  /\ delivered \in BOOLEAN /\ failed \in BOOLEAN

Init ==
  /\ now = 0 /\ date = 0 /\ asked = 0
  /\ loaded = FALSE /\ isOn = FALSE /\ showNotifications = FALSE
  /\ adding = <<>> /\ pending = {} /\ delivered = FALSE /\ failed = FALSE

-----------------------------------------------------------------------------
(* What a new date picker shows: the present, whatever is pending.         *)
PickerDate == now

(* viewDidLoad: the switch shows the preference.                           *)
ViewDidLoad ==
  /\ ~loaded
  /\ loaded' = TRUE
  /\ isOn' = showNotifications
  /\ date' = PickerDate
  /\ UNCHANGED <<now, showNotifications, adding, pending, delivered, asked, failed>>

EnableNotificationsChecked ==
  /\ loaded
  /\ isOn' = ~isOn
  /\ UNCHANGED <<now, loaded, date, showNotifications, adding, pending, delivered,
                 asked, failed>>

(* The picker is enabled while the switch is on.                           *)
PickDate(d) ==
  /\ loaded /\ isOn
  /\ date' = d
  /\ UNCHANGED <<now, loaded, isOn, showNotifications, adding, pending, delivered,
                 asked, failed>>

(* viewWillDisappear: by going back, which ends the screen, or by another  *)
(* tab or a swipe back that is given up, which do not.                     *)
ViewWillDisappear(goesBack) ==
  /\ loaded
  /\ loaded' = ~goesBack
  /\ showNotifications' = isOn
  /\ IF isOn
     THEN /\ Len(adding) < MaxAdds
          /\ adding' = Append(adding, date)
          /\ asked' = date
          /\ UNCHANGED delivered
     ELSE /\ delivered' = FALSE
          /\ UNCHANGED <<adding, asked>>
  /\ UNCHANGED <<now, isOn, date, pending, failed>>

(* The process ends and starts again: what was not stored is lost.         *)
Restart ==
  /\ loaded
  /\ loaded' = FALSE
  /\ UNCHANGED <<now, isOn, date, showNotifications, adding, pending, delivered,
                 asked, failed>>

-----------------------------------------------------------------------------
(* Mutation: each request has an identifier of its own.                    *)
AddToPending(d) == pending \cup {d}

(* A request takes the place of the pending one with its identifier.       *)
ReplacePending(d) == {d}

(* The notification centre carries out a request, or turns it down.        *)
Add(ok) ==
  /\ adding # <<>>
  /\ pending' = IF ok THEN ReplacePending(Head(adding)) ELSE pending
  /\ adding' = Tail(adding)
  /\ failed' = ~ok
  /\ UNCHANGED <<now, loaded, isOn, date, showNotifications, delivered, asked>>

(* A minute begins; its reminder comes and is pending no longer.           *)
Tick ==
  /\ now < MaxDate
  /\ now' = now + 1
  /\ pending' = pending \ {now + 1}
  /\ delivered' = (delivered \/ now + 1 \in pending)
  /\ UNCHANGED <<loaded, isOn, date, showNotifications, adding, asked, failed>>

Next ==
  \/ ViewDidLoad
  \/ EnableNotificationsChecked
  \/ \E d \in Date : PickDate(d)
  \/ \E goesBack \in BOOLEAN : ViewWillDisappear(goesBack)
  \/ Restart
  \/ \E ok \in BOOLEAN : Add(ok)
  \/ Tick

Spec == Init /\ [][Next]_vars

-----------------------------------------------------------------------------
(* However often the screen disappears, and with how many requests under   *)
(* way: one reminder is pending at most.  With the preference stored as on *)
(* and no request under way it is the one asked for last, or its minute    *)
(* has begun, unless that request was turned down; no restart and no       *)
(* switching off in between counts.                                        *)
OneReminder ==
  /\ \A d, e \in pending : d = e
  /\ showNotifications /\ adding = <<>> /\ ~failed => asked \in pending \/ asked <= now

(* "Enable notifications" (Main.storyboard): reminders come only with the  *)
(* preference on.                                                          *)
OnlyRemindsIfEnabled == [][~delivered /\ delivered' => showNotifications]_vars

=============================================================================
