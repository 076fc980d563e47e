------------------------ MODULE NotifierChainProofs ------------------------
(***************************************************************************)
(* Proofs about NotifierChain, for any number of threads, alerts,          *)
(* notifiers and channels, every threshold, and services that fail and     *)
(* recover at any time.                                                    *)
(***************************************************************************)
EXTENDS NotifierChain, TLAPS

-----------------------------------------------------------------------------
(* The inductive invariant. *)

\* The lock of a notifier: one thread at a time tries it, and only while its
\* circuit is closed.
OneTry ==
  \A t, u \in Threads : pc[t] = "try" /\ pc[u] = "try" /\ At(t) = At(u) /\ At(t) # Log => t = u

TryClosed == \A t \in Threads : pc[t] = "try" /\ At(t) # Log => circuit[At(t)] = "closed"

\* What was wasted on a service is counted while its circuit is closed, is at
\* most the threshold when it opens, and nothing once it has rested.
Budget ==
  \A n \in Guarded :
    /\ circuit[n] = "closed" => wasted[n] <= failures[n]
    /\ circuit[n] = "open" => wasted[n] <= Threshold
    /\ circuit[n] = "cooled" => wasted[n] = 0

\* A success is known of an alert that was taken, and every alert that is sent,
\* late ones included, was tried.
Told ==
  /\ \A t \in Threads : /\ ok[t] => alert[t] \in taken /\ pc[t] # "idle"
                        /\ pc[t] # "idle" => alert[t] \in tried
  /\ taken \subseteq tried /\ hanging \subseteq tried

ChainInv == ChainTypeOK /\ OneTry /\ TryClosed /\ Budget /\ Told

-----------------------------------------------------------------------------
(* Where a thread is, and how it moves on. *)

LEMMA Elements ==
  ASSUME NEW S, NEW s \in Seq(S)
  PROVE  \A i \in DOMAIN s : s[i] \in S
OBVIOUS

LEMMA Configured ==
  /\ Log \in Notifiers /\ Threshold \in Nat \ {0}
  /\ 1 \in Channel /\ Channel \subseteq Nat
  /\ \A c \in Channel : /\ Routes[c].chained \in BOOLEAN
                        /\ Routes[c].notifiers \in Seq(Notifiers)
<1>1. Routes \in Seq([chained : BOOLEAN, notifiers : Seq(Notifiers)]) /\ Routes # <<>>
  BY ChainAssumption DEF ChainAssumption
<1>2. DOMAIN Routes = 1 .. Len(Routes) /\ Len(Routes) \in Nat \ {0}
  BY <1>1
<1>3. \A c \in DOMAIN Routes : Routes[c] \in [chained : BOOLEAN, notifiers : Seq(Notifiers)]
  BY <1>1, Elements
<1>. QED BY <1>2, <1>3, ChainAssumption DEF ChainAssumption, Channel

\* A thread in a channel is at a place of its route, where there is a notifier.
LEMMA Places ==
  ASSUME ChainTypeOK, NEW t \in Threads, InChannel(t)
  PROVE  /\ at[t] = <<at[t][1], at[t][2]>> /\ at[t][1] \in Channel
         /\ Len(Route(t)) \in Nat /\ at[t][2] \in 1 .. Len(Route(t))
         /\ At(t) \in Notifiers
<1>1. at[t] \in Channel \X Nat
  BY DEF ChainTypeOK
<1>2. Route(t) \in Seq(Notifiers)
  BY <1>1, Configured DEF Route
<1>3. at[t][2] \in DOMAIN Route(t)
  BY DEF ChainTypeOK
<1>4. DOMAIN Route(t) = 1 .. Len(Route(t)) /\ Len(Route(t)) \in Nat
  BY <1>2
<1>5. At(t) \in Notifiers
  BY <1>2, <1>3 DEF At
<1>. QED BY <1>1, <1>3, <1>4, <1>5

\* The others stay where they are.
Stays(u) == pc'[u] = pc[u] /\ at'[u] = at[u] /\ ok'[u] = ok[u]

\* What the parts of ChainTypeOK about the threads' places say.
PlacesOK ==
  /\ pc \in [Threads -> ThreadPc] /\ at \in [Threads -> Channel \X Nat]
  /\ ok \in [Threads -> BOOLEAN]
  /\ \A t \in Threads : InChannel(t) => at[t][2] \in DOMAIN Route(t)

LEMMA LeaveMoves ==
  ASSUME ChainTypeOK, NEW t \in Threads, NEW success \in BOOLEAN, Leave(t, success)
  PROVE  /\ PlacesOK' /\ pc'[t] = "channel" /\ ok'[t] = (ok[t] \/ success)
         /\ \A u \in Threads \ {t} : Stays(u)
<1>1. pc' \in [Threads -> ThreadPc] /\ at' \in [Threads -> Channel \X Nat]
      /\ ok' \in [Threads -> BOOLEAN]
  BY Configured DEF ChainTypeOK, Leave, ThreadPc, Nowhere
<1>2. pc'[t] = "channel" /\ ok'[t] = (ok[t] \/ success) /\ \A u \in Threads \ {t} : Stays(u)
  BY DEF ChainTypeOK, Leave, Stays
<1>3. ASSUME NEW u \in Threads, InChannel(u)' PROVE (at[u][2] \in DOMAIN Route(u))'
  <2>1. u # t
    BY <1>2, <1>3 DEF InChannel
  <2>. QED BY <1>2, <1>3, <2>1 DEF Stays, InChannel, Route, ChainTypeOK
<1>. QED BY <1>1, <1>2, <1>3 DEF PlacesOK

LEMMA AdvanceMoves ==
  ASSUME ChainTypeOK, NEW t \in Threads, InChannel(t), Advance(t)
  PROVE  /\ PlacesOK' /\ pc'[t] \in {"look", "channel"} /\ ok'[t] = ok[t]
         /\ pc'[t] = "channel" => at[t][2] = Len(Route(t))
         /\ \A u \in Threads \ {t} : Stays(u)
<1>0. /\ at[t] = <<at[t][1], at[t][2]>> /\ at[t][1] \in Channel
      /\ Len(Route(t)) \in Nat /\ at[t][2] \in 1 .. Len(Route(t))
  BY Places
<1>1. CASE at[t][2] < Len(Route(t))
  <2>1. pc' = [pc EXCEPT ![t] = "look"] /\ at' = [at EXCEPT ![t] = <<at[t][1], at[t][2] + 1>>]
        /\ ok' = ok
    BY <1>0, <1>1 DEF Advance, ChainTypeOK
  <2>2. pc' \in [Threads -> ThreadPc] /\ at' \in [Threads -> Channel \X Nat]
        /\ ok' \in [Threads -> BOOLEAN]
    BY <1>0, <2>1 DEF ChainTypeOK, ThreadPc
  <2>3. pc'[t] = "look" /\ ok'[t] = ok[t] /\ at'[t] = <<at[t][1], at[t][2] + 1>>
        /\ \A u \in Threads \ {t} : Stays(u)
    BY <2>1 DEF ChainTypeOK, Stays
  <2>4. ASSUME NEW u \in Threads, InChannel(u)' PROVE (at[u][2] \in DOMAIN Route(u))'
    <3>1. CASE u = t
      <4>1. Route(t)' = Route(t) /\ at'[t][2] \in 1 .. Len(Route(t))
        BY <1>0, <1>1, <2>3 DEF Route
      <4>2. Route(t) \in Seq(Notifiers)
        BY <1>0, Configured DEF Route
      <4>. QED BY <3>1, <4>1, <4>2
    <3>2. CASE u # t
      BY <2>3, <2>4, <3>2 DEF Stays, InChannel, Route, ChainTypeOK
    <3>. QED BY <3>1, <3>2
  <2>. QED BY <2>2, <2>3, <2>4 DEF PlacesOK
<1>2. CASE ~(at[t][2] < Len(Route(t)))
  <2>0. Leave(t, FALSE)
    BY <1>2 DEF Advance
  <2>1. at[t][2] = Len(Route(t))
    BY <1>0, <1>2
  <2>2. ok[t] \in BOOLEAN
    BY DEF ChainTypeOK
  <2>. QED BY <2>0, <2>1, <2>2, LeaveMoves
<1>. QED BY <1>1, <1>2

\* A thread that does not end up in a try leaves the locks of the others alone.
LEMMA LocksKept ==
  ASSUME OneTry, NEW t \in Threads, pc'[t] # "try", \A u \in Threads \ {t} : Stays(u)
  PROVE  /\ OneTry'
         /\ \A u \in Threads : pc'[u] = "try" => u # t /\ pc[u] = "try" /\ At(u)' = At(u)
<1>1. \A u \in Threads : pc'[u] = "try" => u # t /\ pc[u] = "try" /\ At(u)' = At(u)
  BY DEF Stays, At, Route
<1>. QED BY <1>1 DEF OneTry

-----------------------------------------------------------------------------
(* The breakers. *)

BreakersOK ==
  /\ circuit \in [Notifiers -> {"closed", "open", "cooled"}]
  /\ failures \in [Notifiers -> 0 .. Threshold] /\ wasted \in [Notifiers -> Nat]
  /\ \A n \in Guarded : circuit[n] = "closed" => failures[n] < Threshold

OthersOK ==
  /\ up \in [Guarded -> BOOLEAN] /\ alert \in [Threads -> Alerts]
  /\ todo \in [Threads -> SUBSET Channel]
  /\ verdict \in [Threads -> {"none", "sent", "failed"}]
  /\ hanging \subseteq Alerts /\ tried \subseteq Alerts /\ taken \subseteq Alerts

LEMMA TypesApart ==
  /\ ChainTypeOK <=> BreakersOK /\ OthersOK /\ PlacesOK
  /\ ChainTypeOK' <=> BreakersOK' /\ OthersOK' /\ PlacesOK'
BY DEF ChainTypeOK, BreakersOK, OthersOK, PlacesOK

LEMMA BreakersKept ==
  ASSUME BreakersOK, Budget, UNCHANGED <<breakerVars, wasted>>
  PROVE  BreakersOK' /\ Budget' /\ circuit' = circuit
BY DEF breakerVars, BreakersOK, Budget

\* A failed try counts on both sides, and opens the circuit at the threshold.
LEMMA FailureCounted ==
  ASSUME BreakersOK, Budget, NEW n \in Notifiers, n # Log => circuit[n] = "closed",
         CountFailure(n)
  PROVE  /\ BreakersOK' /\ Budget'
         /\ \A m \in Notifiers : m # n \/ n = Log => circuit'[m] = circuit[m]
<1>1. CASE n = Log
  BY <1>1, BreakersKept DEF CountFailure, breakerVars
<1>2. CASE n # Log
  <2>1. n \in Guarded /\ failures[n] < Threshold /\ wasted[n] <= failures[n]
    BY <1>2 DEF Guarded, BreakersOK, Budget
  <2>2. failures[n] \in Nat /\ wasted[n] \in Nat /\ Threshold \in Nat
    BY Configured DEF BreakersOK
  <2>3. /\ failures' = [failures EXCEPT ![n] = failures[n] + 1]
        /\ wasted' = [wasted EXCEPT ![n] = wasted[n] + 1]
        /\ circuit' = IF failures[n] + 1 >= Threshold
                      THEN [circuit EXCEPT ![n] = "open"] ELSE circuit
    BY <1>2 DEF CountFailure
  <2>4. /\ failures' \in [Notifiers -> 0 .. Threshold] /\ wasted' \in [Notifiers -> Nat]
        /\ circuit' \in [Notifiers -> {"closed", "open", "cooled"}]
    BY <2>1, <2>2, <2>3 DEF BreakersOK
  <2>5. /\ failures'[n] = failures[n] + 1 /\ wasted'[n] = wasted[n] + 1
        /\ circuit'[n] = IF failures[n] + 1 >= Threshold THEN "open" ELSE "closed"
    BY <1>2, <2>3 DEF BreakersOK
  <2>6. \A m \in Notifiers \ {n} :
          failures'[m] = failures[m] /\ wasted'[m] = wasted[m] /\ circuit'[m] = circuit[m]
    BY <2>3 DEF BreakersOK
  <2>7. ASSUME NEW m \in Guarded
        PROVE  /\ circuit'[m] = "closed" => failures'[m] < Threshold /\ wasted'[m] <= failures'[m]
               /\ circuit'[m] = "open" => wasted'[m] <= Threshold
               /\ circuit'[m] = "cooled" => wasted'[m] = 0
    <3>1. CASE m = n
      BY <2>1, <2>2, <2>5, <3>1
    <3>2. CASE m # n
      BY <2>6, <3>2 DEF Guarded, BreakersOK, Budget
    <3>. QED BY <3>1, <3>2
  <2>. QED BY <1>2, <2>4, <2>6, <2>7 DEF BreakersOK, Budget
<1>. QED BY <1>1, <1>2

\* A notifier whose failures and waste are forgotten while its circuit is closed.
LEMMA Forgiven ==
  ASSUME BreakersOK, Budget, NEW n \in Notifiers,
         circuit' \in {circuit, [circuit EXCEPT ![n] = "closed"]},
         n # Log => circuit'[n] = "closed",
         failures' = [failures EXCEPT ![n] = 0], wasted' = [wasted EXCEPT ![n] = 0]
  PROVE  /\ BreakersOK' /\ Budget'
         /\ \A m \in Notifiers \ {n} : circuit'[m] = circuit[m]
<1>1. Threshold \in Nat \ {0}
  BY Configured
<1>2. /\ failures' \in [Notifiers -> 0 .. Threshold] /\ wasted' \in [Notifiers -> Nat]
      /\ circuit' \in [Notifiers -> {"closed", "open", "cooled"}]
  BY <1>1 DEF BreakersOK
<1>3. failures'[n] = 0 /\ wasted'[n] = 0
  BY DEF BreakersOK
<1>4. \A m \in Notifiers \ {n} :
        failures'[m] = failures[m] /\ wasted'[m] = wasted[m] /\ circuit'[m] = circuit[m]
  BY DEF BreakersOK
<1>5. ASSUME NEW m \in Guarded
      PROVE  /\ circuit'[m] = "closed" => failures'[m] < Threshold /\ wasted'[m] <= failures'[m]
             /\ circuit'[m] = "open" => wasted'[m] <= Threshold
             /\ circuit'[m] = "cooled" => wasted'[m] = 0
  <2>1. CASE m = n
    BY <1>1, <1>3, <2>1 DEF Guarded
  <2>2. CASE m # n
    BY <1>4, <2>2 DEF Guarded, BreakersOK, Budget
  <2>. QED BY <2>1, <2>2
<1>. QED BY <1>2, <1>4, <1>5 DEF BreakersOK, Budget

-----------------------------------------------------------------------------
(* The channels of a dispatch. *)

LEMMA DispatchKeeps ==
  ASSUME ChainInv, NEW t \in Threads, NEW a \in Alerts, NEW plan \in SUBSET Channel,
         Dispatch(t, a, plan)
  PROVE  ChainInv'
<1>1. /\ pc[t] = "idle" /\ pc' = [pc EXCEPT ![t] = "channel"]
      /\ alert' = [alert EXCEPT ![t] = a] /\ todo' = [todo EXCEPT ![t] = plan]
      /\ verdict' = [verdict EXCEPT ![t] = "none"] /\ tried' = tried \cup {a}
      /\ UNCHANGED <<breakerVars, wasted>> /\ up' = up /\ at' = at /\ ok' = ok
      /\ hanging' = hanging /\ taken' = taken
  BY DEF Dispatch
<1>2. BreakersOK /\ OthersOK /\ PlacesOK /\ OneTry /\ TryClosed /\ Budget /\ Told
  BY TypesApart DEF ChainInv
<1>3. pc'[t] = "channel" /\ \A u \in Threads \ {t} : Stays(u)
  BY <1>1, <1>2 DEF PlacesOK, Stays
<1>4. BreakersOK' /\ Budget' /\ circuit' = circuit
  BY <1>1, <1>2, BreakersKept
<1>5. OthersOK'
  BY <1>1, <1>2 DEF OthersOK
<1>6. PlacesOK'
  <2>1. pc' \in [Threads -> ThreadPc]
    BY <1>1, <1>2 DEF PlacesOK, ThreadPc
  <2>2. \A u \in Threads : InChannel(u)' => InChannel(u) /\ Route(u)' = Route(u)
    BY <1>1, <1>3 DEF InChannel, Stays, Route
  <2>. QED BY <1>1, <1>2, <2>1, <2>2 DEF PlacesOK
<1>7. OneTry' /\ TryClosed'
  BY <1>2, <1>3, <1>4, LocksKept DEF TryClosed
<1>8. Told'
  <2>1. alert'[t] = a /\ \A u \in Threads \ {t} : alert'[u] = alert[u]
    BY <1>1, <1>2 DEF OthersOK
  <2>. QED BY <1>1, <1>2, <1>3, <2>1 DEF Told, Stays
<1>. QED BY <1>4, <1>5, <1>6, <1>7, <1>8, TypesApart DEF ChainInv

LEMMA NextChannelKeeps ==
  ASSUME ChainInv, NEW t \in Threads, NextChannel(t)
  PROVE  ChainInv'
<1>1. PICK c \in todo[t] :
        /\ todo' = [todo EXCEPT ![t] = @ \ {c}]
        /\ IF Routes[c].notifiers = <<>>
           THEN UNCHANGED <<pc, at>>
           ELSE /\ pc' = [pc EXCEPT ![t] = IF Routes[c].chained THEN "look" ELSE "call"]
                /\ at' = [at EXCEPT ![t] = <<c, 1>>]
  BY DEF NextChannel
<1>2. BreakersOK /\ OthersOK /\ PlacesOK /\ OneTry /\ TryClosed /\ Budget /\ Told
  BY TypesApart DEF ChainInv
<1>3. /\ pc[t] = "channel" /\ UNCHANGED <<breakerVars, wasted>> /\ up' = up /\ alert' = alert
      /\ ok' = ok /\ verdict' = verdict
      /\ hanging' = hanging /\ tried' = tried /\ taken' = taken
  BY DEF NextChannel, outsideVars
<1>4. c \in Channel /\ c \in Nat /\ Routes[c].notifiers \in Seq(Notifiers)
  BY <1>2, Configured DEF OthersOK
<1>5. /\ pc'[t] \in {"channel", "look", "call"} /\ \A u \in Threads \ {t} : Stays(u)
      /\ pc'[t] # "channel" => at'[t] = <<c, 1>> /\ Routes[c].notifiers # <<>>
  BY <1>1, <1>2, <1>3 DEF PlacesOK, Stays
<1>6. BreakersOK' /\ Budget' /\ circuit' = circuit
  BY <1>2, <1>3, BreakersKept
<1>7. OthersOK'
  BY <1>1, <1>2, <1>3 DEF OthersOK
<1>8. PlacesOK'
  <2>1. pc' \in [Threads -> ThreadPc] /\ at' \in [Threads -> Channel \X Nat]
    <3>1. CASE Routes[c].notifiers = <<>>
      BY <1>1, <1>2, <3>1 DEF PlacesOK
    <3>2. CASE Routes[c].notifiers # <<>>
      <4>1. <<c, 1>> \in Channel \X Nat
        BY <1>4
      <4>2. at' = [at EXCEPT ![t] = <<c, 1>>]
            /\ pc' = [pc EXCEPT ![t] = IF Routes[c].chained THEN "look" ELSE "call"]
        BY <1>1, <3>2
      <4>. QED BY <1>2, <4>1, <4>2 DEF PlacesOK, ThreadPc
    <3>. QED BY <3>1, <3>2
  <2>2. ASSUME NEW u \in Threads, InChannel(u)' PROVE (at[u][2] \in DOMAIN Route(u))'
    <3>1. CASE u = t
      <4>1. at'[t] = <<c, 1>> /\ Routes[c].notifiers # <<>>
        BY <1>5, <2>2, <3>1 DEF InChannel
      <4>2. 1 \in DOMAIN Routes[c].notifiers
        BY <1>4, <4>1
      <4>. QED BY <3>1, <4>1, <4>2 DEF Route
    <3>2. CASE u # t
      BY <1>2, <1>5, <2>2, <3>2 DEF PlacesOK, Stays, InChannel, Route
    <3>. QED BY <3>1, <3>2
  <2>. QED BY <1>2, <1>3, <2>1, <2>2 DEF PlacesOK
<1>9. OneTry' /\ TryClosed'
  BY <1>2, <1>5, <1>6, LocksKept DEF TryClosed
<1>10. Told'
  BY <1>2, <1>3, <1>5 DEF Told, Stays
<1>. QED BY <1>6, <1>7, <1>8, <1>9, <1>10, TypesApart DEF ChainInv

LEMMA FinishKeeps ==
  ASSUME ChainInv, NEW t \in Threads, Finish(t)
  PROVE  ChainInv'
<1>1. /\ pc[t] = "channel" /\ pc' = [pc EXCEPT ![t] = "idle"]
      /\ verdict' = [verdict EXCEPT ![t] = IF ok[t] THEN "sent" ELSE "failed"]
      /\ ok' = [ok EXCEPT ![t] = FALSE]
      /\ UNCHANGED <<breakerVars, wasted>> /\ up' = up /\ alert' = alert /\ todo' = todo
      /\ at' = at /\ hanging' = hanging /\ tried' = tried /\ taken' = taken
  BY DEF Finish, outsideVars
<1>2. BreakersOK /\ OthersOK /\ PlacesOK /\ OneTry /\ TryClosed /\ Budget /\ Told
  BY TypesApart DEF ChainInv
<1>3. pc'[t] = "idle" /\ ok'[t] = FALSE /\ \A u \in Threads \ {t} : Stays(u)
  BY <1>1, <1>2 DEF PlacesOK, Stays
<1>4. BreakersOK' /\ Budget' /\ circuit' = circuit
  BY <1>1, <1>2, BreakersKept
<1>5. OthersOK'
  BY <1>1, <1>2 DEF OthersOK
<1>6. PlacesOK'
  <2>1. pc' \in [Threads -> ThreadPc] /\ ok' \in [Threads -> BOOLEAN]
    BY <1>1, <1>2 DEF PlacesOK, ThreadPc
  <2>2. \A u \in Threads : InChannel(u)' => InChannel(u) /\ Route(u)' = Route(u)
    BY <1>1, <1>3 DEF InChannel, Stays, Route
  <2>. QED BY <1>1, <1>2, <2>1, <2>2 DEF PlacesOK
<1>7. OneTry' /\ TryClosed'
  BY <1>2, <1>3, <1>4, LocksKept DEF TryClosed
<1>8. Told'
  BY <1>1, <1>2, <1>3 DEF Told, Stays
<1>. QED BY <1>4, <1>5, <1>6, <1>7, <1>8, TypesApart DEF ChainInv

-----------------------------------------------------------------------------
(* The notifiers of a channel. *)

\* A thread looks at a notifier, or has tried it, and moves on.
LEMMA MovesOn ==
  ASSUME ChainInv, NEW t \in Threads, InChannel(t),
         PlacesOK', pc'[t] \notin {"try", "idle"}, \A u \in Threads \ {t} : Stays(u),
         BreakersOK', Budget',
         \A u \in Threads \ {t} :
           pc[u] = "try" /\ At(u) # Log => circuit'[At(u)] = circuit[At(u)],
         UNCHANGED <<up, alert, todo, verdict, tried>>,
         hanging' \subseteq hanging \cup {alert[t]},
         taken' \in {taken, taken \cup {alert[t]}}, ok'[t] => ok[t] \/ alert[t] \in taken'
  PROVE  ChainInv'
<1>1. OthersOK /\ OneTry /\ TryClosed /\ Told
  BY TypesApart DEF ChainInv
<1>2. alert[t] \in Alerts /\ alert[t] \in tried
  BY <1>1 DEF OthersOK, Told, InChannel
<1>3. OthersOK'
  BY <1>1, <1>2 DEF OthersOK
<1>4. OneTry' /\ TryClosed'
  BY <1>1, LocksKept DEF TryClosed
<1>5. Told'
  BY <1>1, <1>2 DEF Told, Stays
<1>. QED BY <1>3, <1>4, <1>5, TypesApart DEF ChainInv

LEMMA LookKeeps ==
  ASSUME ChainInv, NEW t \in Threads, LookAvailable(t)
  PROVE  ChainInv'
<1>1. /\ pc[t] = "look" /\ UNCHANGED <<breakerVars, wasted>>
      /\ UNCHANGED <<up, alert, todo, verdict, tried>>
      /\ hanging' = hanging /\ taken' = taken
  BY DEF LookAvailable, outsideVars
<1>2. ChainTypeOK /\ BreakersOK /\ PlacesOK /\ Budget /\ InChannel(t)
  BY <1>1, TypesApart DEF ChainInv, InChannel
<1>3. BreakersOK' /\ Budget' /\ circuit' = circuit
  BY <1>1, <1>2, BreakersKept
<1>4. /\ PlacesOK' /\ pc'[t] \notin {"try", "idle"} /\ ok'[t] = ok[t]
      /\ \A u \in Threads \ {t} : Stays(u)
  <2>1. CASE Advance(t)
    BY <1>2, <2>1, AdvanceMoves
  <2>2. CASE pc' = [pc EXCEPT ![t] = "call"] /\ UNCHANGED <<at, ok>>
    <3>1. pc'[t] = "call" /\ ok'[t] = ok[t] /\ \A u \in Threads \ {t} : Stays(u)
      BY <1>2, <2>2 DEF PlacesOK, Stays
    <3>2. \A u \in Threads : InChannel(u)' => InChannel(u) /\ Route(u)' = Route(u)
      BY <1>2, <2>2, <3>1 DEF InChannel, Stays, Route
    <3>. QED BY <1>2, <2>2, <3>1, <3>2 DEF PlacesOK, ThreadPc
  <2>. QED BY <2>1, <2>2 DEF LookAvailable
<1>. QED BY <1>1, <1>2, <1>3, <1>4, MovesOn

LEMMA TrySucceedsKeeps ==
  ASSUME ChainInv, NEW t \in Threads, TrySucceeds(t)
  PROVE  ChainInv'
<1>1. /\ pc[t] = "try" /\ taken' = taken \cup {alert[t]}
      /\ failures' = [failures EXCEPT ![At(t)] = 0]
      /\ wasted' = [wasted EXCEPT ![At(t)] = 0] /\ circuit' = circuit
      /\ Leave(t, TRUE) /\ UNCHANGED <<up, alert, todo, verdict, tried>> /\ hanging' = hanging
  BY DEF TrySucceeds
<1>2. ChainTypeOK /\ BreakersOK /\ Budget /\ TryClosed /\ InChannel(t)
  BY <1>1, TypesApart DEF ChainInv, InChannel
<1>3. At(t) \in Notifiers /\ (At(t) # Log => circuit[At(t)] = "closed")
  BY <1>1, <1>2, Places DEF TryClosed
<1>4. BreakersOK' /\ Budget'
  BY <1>1, <1>2, <1>3, Forgiven
<1>5. PlacesOK' /\ pc'[t] = "channel" /\ \A u \in Threads \ {t} : Stays(u)
  BY <1>1, <1>2, LeaveMoves
<1>. QED BY <1>1, <1>2, <1>4, <1>5, MovesOn

\* In time or by the time-out.
LEMMA TryFailsKeeps ==
  ASSUME ChainInv, NEW t \in Threads, TryFails(t) \/ TryTimesOut(t)
  PROVE  ChainInv'
<1>1. /\ pc[t] = "try" /\ CountFailure(At(t)) /\ Advance(t)
      /\ UNCHANGED <<up, alert, todo, verdict, tried>> /\ taken' = taken
      /\ hanging' \subseteq hanging \cup {alert[t]}
  BY DEF TryFails, TryTimesOut, outsideVars
<1>2. ChainTypeOK /\ BreakersOK /\ Budget /\ TryClosed /\ OneTry /\ InChannel(t)
  BY <1>1, TypesApart DEF ChainInv, InChannel
<1>3. At(t) \in Notifiers /\ (At(t) # Log => circuit[At(t)] = "closed")
  BY <1>1, <1>2, Places DEF TryClosed
<1>4. /\ BreakersOK' /\ Budget'
      /\ \A m \in Notifiers : m # At(t) \/ At(t) = Log => circuit'[m] = circuit[m]
  BY <1>1, <1>2, <1>3, FailureCounted
<1>5. ASSUME NEW u \in Threads \ {t}, pc[u] = "try", At(u) # Log
      PROVE  circuit'[At(u)] = circuit[At(u)]
  <2>1. At(u) \in Notifiers
    BY <1>2, <1>5, Places DEF InChannel
  <2>2. At(u) # At(t)
    BY <1>1, <1>2, <1>5 DEF OneTry
  <2>. QED BY <1>4, <2>1, <2>2
<1>6. /\ PlacesOK' /\ pc'[t] \in {"look", "channel"} /\ ok'[t] = ok[t]
      /\ \A u \in Threads \ {t} : Stays(u)
  BY <1>1, <1>2, AdvanceMoves
<1>. QED BY <1>1, <1>2, <1>4, <1>5, <1>6, MovesOn

\* The lock, the look at the breaker, and the begin of a try.
LEMMA CallKeeps ==
  ASSUME ChainInv, NEW t \in Threads, Call(t)
  PROVE  ChainInv'
<1>1. /\ pc[t] = "call" /\ Free(At(t)) /\ UNCHANGED <<up, alert, todo, verdict, tried>>
      /\ wasted' = wasted /\ hanging' = hanging /\ taken' = taken
  BY DEF Call, outsideVars
<1>2. /\ ChainTypeOK /\ BreakersOK /\ PlacesOK /\ OthersOK /\ Budget
      /\ OneTry /\ TryClosed /\ Told /\ InChannel(t)
  BY <1>1, TypesApart DEF ChainInv, InChannel
<1>3. At(t) \in Notifiers
  BY <1>2, Places
<1>4. CASE At(t) # Log /\ circuit[At(t)] = "open"
  <2>1. Advance(t) /\ UNCHANGED breakerVars
    BY <1>4 DEF Call
  <2>2. BreakersOK' /\ Budget' /\ circuit' = circuit
    BY <1>1, <1>2, <2>1, BreakersKept
  <2>3. /\ PlacesOK' /\ pc'[t] \in {"look", "channel"} /\ ok'[t] = ok[t]
        /\ \A u \in Threads \ {t} : Stays(u)
    BY <1>2, <2>1, AdvanceMoves
  <2>. QED BY <1>1, <1>2, <2>2, <2>3, MovesOn
<1>5. CASE ~(At(t) # Log /\ circuit[At(t)] = "open")
  <2>1. /\ circuit' = [circuit EXCEPT ![At(t)] = "closed"]
        /\ failures' = [failures EXCEPT ![At(t)] = IF circuit[At(t)] = "cooled" THEN 0 ELSE @]
        /\ pc' = [pc EXCEPT ![t] = "try"] /\ at' = at /\ ok' = ok
    BY <1>5 DEF Call
  <2>2. pc'[t] = "try" /\ \A u \in Threads \ {t} : Stays(u)
    BY <1>2, <2>1 DEF PlacesOK, Stays
  <2>3. \A u \in Threads : At(u)' = At(u) /\ Route(u)' = Route(u)
    BY <2>1 DEF At, Route
  <2>4. PlacesOK'
    <3>1. \A u \in Threads : InChannel(u)' => InChannel(u)
      BY <1>2, <2>2 DEF InChannel, Stays
    <3>. QED BY <1>2, <2>1, <2>3, <3>1 DEF PlacesOK, ThreadPc
  <2>5. BreakersOK' /\ Budget'
    <3>1. Threshold \in Nat \ {0}
      BY Configured
    <3>2. CASE circuit[At(t)] = "cooled"
      <4>1. At(t) # Log => wasted[At(t)] = 0
        BY <1>2, <1>3, <3>2 DEF Budget, Guarded
      <4>2. failures' = [failures EXCEPT ![At(t)] = 0]
        BY <2>1, <3>2
      <4>3. /\ failures' \in [Notifiers -> 0 .. Threshold] /\ wasted' \in [Notifiers -> Nat]
            /\ circuit' \in [Notifiers -> {"closed", "open", "cooled"}]
        <5>1. 0 \in 0 .. Threshold
          BY <3>1
        <5>2. failures' \in [Notifiers -> 0 .. Threshold]
          BY <1>2, <4>2, <5>1 DEF BreakersOK
        <5>. QED BY <1>1, <1>2, <2>1, <5>2 DEF BreakersOK
      <4>4. ASSUME NEW m \in Guarded
            PROVE  /\ circuit'[m] = "closed" => failures'[m] < Threshold
                                                /\ wasted'[m] <= failures'[m]
                   /\ circuit'[m] = "open" => wasted'[m] <= Threshold
                   /\ circuit'[m] = "cooled" => wasted'[m] = 0
        <5>1. CASE m = At(t)
          BY <1>1, <1>2, <1>3, <2>1, <3>1, <4>1, <4>2, <5>1 DEF BreakersOK, Guarded
        <5>2. CASE m # At(t)
          BY <1>1, <1>2, <1>3, <2>1, <4>2, <5>2 DEF BreakersOK, Budget, Guarded
        <5>. QED BY <5>1, <5>2
      <4>. QED BY <4>3, <4>4 DEF BreakersOK, Budget
    <3>3. CASE circuit[At(t)] # "cooled"
      <4>1. At(t) # Log => circuit[At(t)] = "closed"
        BY <1>2, <1>3, <1>5, <3>3 DEF BreakersOK
      <4>2. failures' = failures
        BY <1>2, <2>1, <3>3 DEF BreakersOK
      <4>3. /\ \A m \in Guarded : circuit'[m] = circuit[m]
            /\ circuit' \in [Notifiers -> {"closed", "open", "cooled"}]
        BY <1>2, <1>3, <2>1, <4>1 DEF BreakersOK, Guarded
      <4>. QED BY <1>1, <1>2, <4>2, <4>3 DEF BreakersOK, Budget
    <3>. QED BY <3>2, <3>3
  <2>6. OthersOK' /\ Told'
    BY <1>1, <1>2, <2>1, <2>2 DEF OthersOK, Told, Stays
  <2>7. OneTry'
    <3>1. \A u \in Threads \ {t} : pc'[u] = "try" => pc[u] = "try"
      BY <2>2 DEF Stays
    <3>2. \A u \in Threads \ {t} : pc'[u] = "try" /\ At(u) = At(t) => At(t) = Log
      BY <1>1, <3>1 DEF Free
    <3>. QED BY <1>2, <2>3, <3>1, <3>2 DEF OneTry
  <2>8. TryClosed'
    <3>1. circuit'[At(t)] = "closed" /\ \A m \in Notifiers : circuit[m] = "closed" => circuit'[m] = "closed"
      BY <1>2, <1>3, <2>1 DEF BreakersOK
    <3>2. \A u \in Threads : pc'[u] = "try" => At(u) \in Notifiers
      BY <1>2, <1>3, <2>2, Places DEF Stays, InChannel
    <3>. QED BY <1>2, <2>2, <2>3, <3>1, <3>2 DEF TryClosed, Stays
  <2>. QED BY <2>4, <2>5, <2>6, <2>7, <2>8, TypesApart DEF ChainInv
<1>. QED BY <1>4, <1>5

-----------------------------------------------------------------------------
(* Outside the threads. *)

\* A step that moves no thread and leaves the circuits under try as they are.
LEMMA ThreadsKept ==
  ASSUME ChainInv, UNCHANGED threadVars, BreakersOK', Budget', OthersOK',
         \A t \in Threads : pc[t] = "try" /\ At(t) # Log => circuit'[At(t)] = "closed",
         taken \subseteq taken', tried' = tried, taken' \subseteq tried, hanging' \subseteq hanging
  PROVE  ChainInv'
<1>1. PlacesOK /\ OneTry /\ TryClosed /\ Told
  BY TypesApart DEF ChainInv
<1>2. pc' = pc /\ at' = at /\ ok' = ok /\ alert' = alert
  BY DEF threadVars
<1>3. PlacesOK'
  BY <1>1, <1>2 DEF PlacesOK, InChannel, Route
<1>4. OneTry' /\ TryClosed'
  BY <1>1, <1>2 DEF OneTry, TryClosed, At, Route
<1>5. Told'
  BY <1>1, <1>2 DEF Told
<1>. QED BY <1>3, <1>4, <1>5, TypesApart DEF ChainInv

LEMMA LateKeeps ==
  ASSUME ChainInv, NEW a \in Alerts, Late(a)
  PROVE  ChainInv'
<1>1. BreakersOK /\ OthersOK /\ TryClosed /\ Budget /\ Told
  BY TypesApart DEF ChainInv
<1>2. /\ a \in hanging /\ hanging' = hanging \ {a} /\ taken' \in {taken, taken \cup {a}}
      /\ UNCHANGED <<breakerVars, wasted>> /\ up' = up /\ UNCHANGED threadVars /\ tried' = tried
  BY DEF Late
<1>3. BreakersOK' /\ Budget' /\ circuit' = circuit
  BY <1>1, <1>2, BreakersKept
<1>4. OthersOK'
  BY <1>1, <1>2 DEF OthersOK, threadVars
<1>5. a \in tried /\ taken \subseteq tried
  BY <1>1, <1>2 DEF Told
<1>. QED BY <1>1, <1>2, <1>3, <1>4, <1>5, ThreadsKept DEF TryClosed

LEMMA OutsideKeeps ==
  ASSUME ChainInv, NEW n \in Guarded, Outside(n)
  PROVE  ChainInv'
<1>1. /\ BreakersOK /\ OthersOK /\ PlacesOK /\ TryClosed /\ Budget /\ Told /\ ChainTypeOK
      /\ n \in Notifiers /\ n # Log
  BY TypesApart DEF ChainInv, Guarded
<1>2. UNCHANGED threadVars /\ hanging' = hanging /\ tried' = tried /\ taken' = taken
  BY DEF Outside, Cool, ResetCircuit, ServiceChanges, outsideVars
<1>3. \A t \in Threads : pc[t] = "try" => At(t) \in Notifiers
  BY <1>1, Places DEF InChannel
<1>4. CASE Cool(n)
  <2>1. /\ circuit[n] = "open" /\ circuit' = [circuit EXCEPT ![n] = "cooled"]
        /\ wasted' = [wasted EXCEPT ![n] = 0] /\ failures' = failures /\ up' = up
    BY <1>4 DEF Cool
  <2>2. BreakersOK'
    BY <1>1, <2>1 DEF BreakersOK
  <2>3. Budget'
    BY <1>1, <2>1 DEF BreakersOK, Budget, Guarded
  <2>4. \A m \in Notifiers : circuit[m] = "closed" => circuit'[m] = "closed"
    BY <1>1, <2>1 DEF BreakersOK
  <2>5. OthersOK'
    BY <1>1, <1>2, <2>1 DEF OthersOK, threadVars
  <2>. QED BY <1>1, <1>2, <1>3, <2>2, <2>3, <2>4, <2>5, ThreadsKept DEF TryClosed, Told
<1>5. CASE ResetCircuit(n)
  <2>1. /\ circuit' = [circuit EXCEPT ![n] = "closed"] /\ failures' = [failures EXCEPT ![n] = 0]
        /\ wasted' = [wasted EXCEPT ![n] = 0] /\ up' = up
    BY <1>5 DEF ResetCircuit
  <2>2. circuit'[n] = "closed"
    BY <1>1, <2>1 DEF BreakersOK
  <2>3. BreakersOK' /\ Budget' /\ \A m \in Notifiers \ {n} : circuit'[m] = circuit[m]
    BY <1>1, <2>1, <2>2, Forgiven
  <2>4. OthersOK'
    BY <1>1, <1>2, <2>1 DEF OthersOK, threadVars
  <2>. QED BY <1>1, <1>2, <1>3, <2>2, <2>3, <2>4, ThreadsKept DEF TryClosed, Told
<1>6. CASE ServiceChanges(n)
  <2>1. up' = [up EXCEPT ![n] = ~@] /\ UNCHANGED <<breakerVars, wasted>>
    BY <1>6 DEF ServiceChanges
  <2>2. BreakersOK' /\ Budget' /\ circuit' = circuit
    BY <1>1, <2>1, BreakersKept
  <2>3. OthersOK'
    BY <1>1, <1>2, <2>1 DEF OthersOK, threadVars
  <2>. QED BY <1>1, <1>2, <2>2, <2>3, ThreadsKept DEF TryClosed, Told
<1>. QED BY <1>4, <1>5, <1>6 DEF Outside

-----------------------------------------------------------------------------
(* The theorems. *)

THEOREM ChainInvariant == ChainSpec => []ChainInv
<1>1. ChainInit => ChainInv
  <2>. SUFFICES ASSUME ChainInit PROVE ChainInv
    OBVIOUS
  <2>1. Threshold \in Nat \ {0} /\ Nowhere \in Channel \X Nat
    BY Configured DEF Nowhere
  <2>2. BreakersOK /\ Budget
    BY <2>1 DEF ChainInit, BreakersOK, Budget, Guarded
  <2>3. OthersOK
    BY DEF ChainInit, OthersOK
  <2>4. PlacesOK
    BY <2>1 DEF ChainInit, PlacesOK, ThreadPc, InChannel
  <2>5. OneTry /\ TryClosed /\ Told
    BY DEF ChainInit, OneTry, TryClosed, Told
  <2>. QED BY <2>2, <2>3, <2>4, <2>5, TypesApart DEF ChainInv
<1>2. ChainInv /\ [ChainNext]_chainVars => ChainInv'
  <2>. SUFFICES ASSUME ChainInv, [ChainNext]_chainVars PROVE ChainInv'
    OBVIOUS
  <2>1. ASSUME NEW t \in Threads, ThreadStep(t) PROVE ChainInv'
    BY <2>1, NextChannelKeeps, FinishKeeps, LookKeeps, CallKeeps, TrySucceedsKeeps,
       TryFailsKeeps
       DEF ThreadStep
  <2>2. ASSUME NEW t \in Threads, NEW a \in Alerts, NEW plan \in SUBSET Channel, Dispatch(t, a, plan)
        PROVE  ChainInv'
    BY <2>2, DispatchKeeps
  <2>3. ASSUME NEW n \in Guarded, Outside(n) PROVE ChainInv'
    BY <2>3, OutsideKeeps
  <2>4. ASSUME NEW a \in Alerts, Late(a) PROVE ChainInv'
    BY <2>4, LateKeeps
  <2>5. CASE UNCHANGED chainVars
    BY <2>5 DEF chainVars, breakerVars, threadVars, outsideVars, ChainInv, ChainTypeOK,
       OneTry,
       TryClosed, Budget, Told, InChannel, At, Route
  <2>. QED BY <2>1, <2>2, <2>3, <2>4, <2>5 DEF ChainNext
<1>. QED BY <1>1, <1>2, PTL DEF ChainSpec

\* Types, and the failures of a notifier against the threshold of its breaker.
THEOREM ChainTyped == ChainSpec => []ChainTypeOK
<1>1. ChainInv => ChainTypeOK
  BY DEF ChainInv
<1>. QED BY <1>1, ChainInvariant, PTL

\* FailSafeNotifier: no number of worker threads spends more than the threshold
\* on a service that is down before it is left alone.
THEOREM DownServiceRests == ChainSpec => []BreakerRests
<1>1. ChainInv => BreakerRests
  <2>. SUFFICES ASSUME ChainInv, NEW n \in Guarded PROVE wasted[n] <= Threshold
    BY DEF BreakerRests
  <2>1. BreakersOK /\ Budget /\ n \in Notifiers /\ Threshold \in Nat
    BY TypesApart, Configured DEF ChainInv, Guarded
  <2>2. /\ circuit[n] \in {"closed", "open", "cooled"}
        /\ failures[n] \in 0 .. Threshold /\ wasted[n] \in Nat
    BY <2>1 DEF BreakersOK
  <2>. QED BY <2>1, <2>2 DEF Budget
<1>. QED BY <1>1, ChainInvariant, PTL

\* NotifierFallbackChain: an alert is given up only when the log failed too.
THEOREM LastResort == ChainSpec => LogIsLastResort
<1>. DEFINE Ends(t) == /\ InChannel(t) /\ pc'[t] = "channel"
                       /\ Route(t)[Len(Route(t))] = Log /\ ~ok[t] /\ ~ok'[t]
<1>1. ASSUME ChainInv, [ChainNext]_chainVars, NEW t \in Threads, Ends(t)
      PROVE  pc[t] = "try" /\ At(t) = Log
  <2>1. ChainTypeOK /\ PlacesOK /\ pc[t] \in {"look", "call", "try"}
    BY <1>1, TypesApart DEF ChainInv, InChannel
  <2>2. ASSUME Advance(t) PROVE At(t) = Log
    <3>1. at[t][2] = Len(Route(t))
      BY <1>1, <2>1, <2>2, AdvanceMoves
    <3>. QED BY <1>1, <3>1 DEF At
  <2>3. ASSUME NEW u \in Threads, ThreadStep(u) PROVE pc[t] = "try" /\ At(t) = Log
    <3>1. CASE u # t
      <4>1. pc'[t] = pc[t]
        <5>1. CASE Advance(u) \/ Leave(u, TRUE)
          BY <2>1, <3>1, <5>1 DEF Advance, Leave, PlacesOK
        <5>2. CASE ~(Advance(u) \/ Leave(u, TRUE))
          BY <2>1, <2>3, <3>1, <5>2 DEF ThreadStep, NextChannel, Finish, LookAvailable,
             Call,
             TrySucceeds, TryFails, TryTimesOut, PlacesOK
        <5>. QED BY <5>1, <5>2
      <4>. QED BY <1>1, <2>1, <4>1
    <3>2. CASE u = t
      <4>1. CASE NextChannel(t) \/ Finish(t)
        BY <2>1, <4>1 DEF NextChannel, Finish
      <4>2. CASE LookAvailable(t)
        <5>1. CASE Advance(t)
          BY <1>1, <2>1, <2>2, <4>2, <5>1 DEF LookAvailable, PlacesOK
        <5>2. CASE ~Advance(t)
          BY <1>1, <2>1, <4>2, <5>2 DEF LookAvailable, PlacesOK
        <5>. QED BY <5>1, <5>2
      <4>3. CASE Call(t)
        <5>1. CASE Advance(t) /\ At(t) # Log
          BY <2>2, <5>1
        <5>2. CASE ~(Advance(t) /\ At(t) # Log)
          BY <1>1, <2>1, <4>3, <5>2 DEF Call, PlacesOK
        <5>. QED BY <5>1, <5>2
      <4>4. CASE TrySucceeds(t)
        <5>1. ok'[t] = (ok[t] \/ TRUE)
          BY <2>1, <4>4, LeaveMoves DEF TrySucceeds
        <5>. QED BY <1>1, <5>1
      <4>5. CASE TryFails(t) \/ TryTimesOut(t)
        BY <2>2, <4>5 DEF TryFails, TryTimesOut
      <4>. QED BY <2>3, <3>2, <4>1, <4>2, <4>3, <4>4, <4>5 DEF ThreadStep
    <3>. QED BY <3>1, <3>2
  <2>4. ASSUME NEW u \in Threads, NEW a \in Alerts, NEW plan \in SUBSET Channel, Dispatch(u, a, plan)
        PROVE  FALSE
    BY <1>1, <2>1, <2>4 DEF Dispatch, PlacesOK
  <2>5. CASE UNCHANGED pc
    BY <1>1, <2>1, <2>5
  <2>6. ASSUME NEW n \in Guarded, Outside(n) PROVE UNCHANGED pc
    BY <2>6 DEF Outside, Cool, ResetCircuit, ServiceChanges, threadVars
  <2>7. ASSUME NEW a \in Alerts, Late(a) PROVE UNCHANGED pc
    BY <2>7 DEF Late, threadVars
  <2>8. CASE UNCHANGED chainVars
    BY <2>5, <2>8 DEF chainVars, threadVars
  <2>. QED BY <1>1, <2>3, <2>4, <2>5, <2>6, <2>7, <2>8 DEF ChainNext
<1>2. ChainInv /\ [ChainNext]_chainVars =>
        [\A t \in Threads :
           /\ InChannel(t) /\ pc'[t] = "channel"
           /\ Routes[at[t][1]].chained /\ Route(t)[Len(Route(t))] = Log
           /\ ~ok[t] /\ ~ok'[t]
           => pc[t] = "try" /\ At(t) = Log]_chainVars
  BY <1>1
<1>. QED BY <1>2, ChainInvariant, PTL DEF ChainSpec, LogIsLastResort

\* AlertSend: an alert is reported as sent only when a notifier took it; the
\* answers SendSucceeds and SendFails of AlertQueue are the ones the chain gives.
THEOREM ImplementsAlertSend == ChainSpec => SendRefined
<1>. DEFINE Report(t) == IF pc[t] = "idle" THEN verdict[t] ELSE "busy"
            report == [t \in Threads |-> Report(t)]
<1>1. ChainInit => Promise!Init
  BY DEF ChainInit, Promise!Init
<1>2. ChainInv /\ [ChainNext]_chainVars => [Promise!Next]_(Promise!sendVars)
  <2>. SUFFICES ASSUME ChainInv, [ChainNext]_chainVars
                PROVE  Promise!Next \/ UNCHANGED Promise!sendVars
    OBVIOUS
  <2>1. ChainTypeOK /\ PlacesOK /\ OthersOK /\ Told
    BY TypesApart DEF ChainInv
  <2>2. ASSUME NEW t \in Threads, ~(pc'[t] = "idle") /\ ~(pc[t] = "idle"),
               \A u \in Threads \ {t} : Stays(u), verdict' = verdict
        PROVE  report' = report
    BY <2>2 DEF Stays
  <2>3. ASSUME NEW t \in Threads, NEW a \in Alerts, NEW plan \in SUBSET Channel, Dispatch(t, a, plan)
        PROVE  Promise!Begin(t, a)
    <3>1. /\ pc[t] = "idle" /\ pc' = [pc EXCEPT ![t] = "channel"]
          /\ verdict' = [verdict EXCEPT ![t] = "none"]
      BY <2>3 DEF Dispatch
    <3>2. Report(t) # "busy"
      BY <2>1, <3>1 DEF OthersOK
    <3>3. \A u \in Threads : pc'[u] = IF u = t THEN "channel" ELSE pc[u]
      BY <2>1, <3>1 DEF PlacesOK
    <3>4. \A u \in Threads : verdict'[u] = IF u = t THEN "none" ELSE verdict[u]
      BY <2>1, <3>1 DEF OthersOK
    <3>5. report' = [report EXCEPT ![t] = "busy"]
      BY <3>3, <3>4
    <3>. QED BY <2>3, <3>2, <3>5 DEF Dispatch, Promise!Begin
  <2>4. ASSUME NEW t \in Threads, Finish(t)
        PROVE  Promise!ReportSent(t) \/ Promise!ReportFailed(t)
    <3>1. /\ pc[t] = "channel" /\ pc' = [pc EXCEPT ![t] = "idle"]
          /\ verdict' = [verdict EXCEPT ![t] = IF ok[t] THEN "sent" ELSE "failed"]
          /\ alert' = alert /\ tried' = tried /\ taken' = taken
      BY <2>4 DEF Finish, outsideVars
    <3>2. \A u \in Threads : pc'[u] = IF u = t THEN "idle" ELSE pc[u]
      BY <2>1, <3>1 DEF PlacesOK
    <3>3. \A u \in Threads :
            verdict'[u] = IF u = t THEN (IF ok[t] THEN "sent" ELSE "failed") ELSE verdict[u]
      BY <2>1, <3>1 DEF OthersOK
    <3>4. report' = [report EXCEPT ![t] = IF ok[t] THEN "sent" ELSE "failed"]
      BY <3>2, <3>3
    <3>5. ok[t] => alert[t] \in taken
      BY <2>1 DEF Told
    <3>. QED BY <3>1, <3>4, <3>5 DEF Promise!ReportSent, Promise!ReportFailed
  <2>5. ASSUME NEW t \in Threads, TrySucceeds(t) PROVE Promise!Take(alert[t])
    <3>1. /\ pc[t] = "try" /\ Leave(t, TRUE) /\ taken' = taken \cup {alert[t]}
          /\ verdict' = verdict /\ alert' = alert /\ tried' = tried
      BY <2>5 DEF TrySucceeds
    <3>2. pc'[t] = "channel" /\ \A u \in Threads \ {t} : Stays(u)
      BY <2>1, <3>1, LeaveMoves
    <3>3. report' = report
      BY <2>2, <3>1, <3>2
    <3>4. alert[t] \in tried
      BY <2>1, <3>1 DEF Told
    <3>. QED BY <3>1, <3>3, <3>4 DEF Promise!Take
  <2>6. ASSUME NEW a \in Alerts, Late(a) PROVE Promise!Take(a) \/ UNCHANGED Promise!sendVars
    <3>1. /\ a \in hanging /\ UNCHANGED threadVars /\ tried' = tried
          /\ taken' \in {taken, taken \cup {a}}
      BY <2>6 DEF Late
    <3>2. a \in tried
      BY <2>1, <3>1 DEF Told
    <3>3. report' = report /\ alert' = alert
      BY <3>1 DEF threadVars
    <3>. QED BY <3>1, <3>2, <3>3 DEF Promise!Take, Promise!sendVars
  <2>7. ASSUME NEW t \in Threads,
               NextChannel(t) \/ LookAvailable(t) \/ Call(t) \/ TryFails(t) \/ TryTimesOut(t)
        PROVE  UNCHANGED Promise!sendVars
    <3>1. pc[t] \notin {"idle"} /\ verdict' = verdict /\ alert' = alert /\ tried' = tried /\ taken' = taken
      BY <2>7 DEF NextChannel, LookAvailable, Call, TryFails, TryTimesOut, outsideVars
    <3>2. pc'[t] # "idle" /\ \A u \in Threads \ {t} : Stays(u)
      <4>1. CASE NextChannel(t)
        BY <2>1, <4>1 DEF NextChannel, PlacesOK, Stays
      <4>2. CASE ~NextChannel(t)
        <5>1. InChannel(t)
          BY <2>7, <4>2 DEF LookAvailable, Call, TryFails, TryTimesOut, InChannel
        <5>2. CASE Advance(t)
          BY <2>1, <5>1, <5>2, AdvanceMoves
        <5>3. CASE ~Advance(t)
          BY <2>1, <2>7, <4>2, <5>3 DEF LookAvailable, Call, TryFails, TryTimesOut,
             PlacesOK, Stays
        <5>. QED BY <5>2, <5>3
      <4>. QED BY <4>1, <4>2
    <3>3. report' = report
      BY <2>2, <3>1, <3>2
    <3>. QED BY <3>1, <3>3 DEF Promise!sendVars
  <2>8. ASSUME NEW n \in Guarded, Outside(n) PROVE UNCHANGED Promise!sendVars
    <3>1. UNCHANGED threadVars /\ tried' = tried /\ taken' = taken
      BY <2>8 DEF Outside, Cool, ResetCircuit, ServiceChanges, outsideVars
    <3>. QED BY <3>1 DEF threadVars, Promise!sendVars
  <2>9. CASE UNCHANGED chainVars
    BY <2>9 DEF chainVars, threadVars, outsideVars, Promise!sendVars
  <2>10. \A t \in Threads : alert[t] \in Alerts
    BY <2>1 DEF OthersOK
  <2>. QED BY <2>3, <2>4, <2>5, <2>6, <2>7, <2>8, <2>9, <2>10
           DEF ChainNext, ThreadStep, Promise!Next
<1>. QED BY <1>1, <1>2, ChainInvariant, PTL DEF ChainSpec, SendRefined, Promise!Spec
=============================================================================
