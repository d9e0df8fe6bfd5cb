------------------------------ MODULE KalModem ------------------------------
(***************************************************************************)
(* The links of one process and the engines under them: creation and       *)
(* freeing of a kal_link (src/kal_link.c) with its modem (src/kal_modem.c),*)
(* down to the table of ggwave instances all of them share.                *)
(*                                                                         *)
(* One thread owns one link, so each link is at its own place in its own   *)
(* call.  A call proceeds in steps because it can fail between any two of  *)
(* them, and because the table has no lock: finding a free slot and        *)
(* occupying it are two steps (the instance is constructed in between).    *)
(***************************************************************************)
EXTENDS Naturals, FiniteSets

CONSTANTS
  Link,      \* the links the application creates and frees
  Profile,   \* acoustic profiles
  Slots,     \* GGWAVE_MAX_INSTANCES
  Overlap    \* whether calls of two threads may overlap

ASSUME SlotsAssumption == Slots \in Nat /\ Overlap \in BOOLEAN /\ Profile # {}

Slot == 0 .. Slots - 1
NoSlot == Slots

VARIABLES
  engine,  \* engine[i]: g_instances[i], "none", or whether its decoder still "hears"
  cache,   \* the profiles whose frame size query_frame_samples has measured
  link     \* link[l]: where l's thread is, l's profile, and the instances it holds

modemVars == <<engine, cache, link>>

EngineState == {"none", "hears", "deaf"}

\* What each is about to do; "found" and "chosen" hold a slot that was free.
Probing == {"found", "query", "unprobe"}
Working == {"chosen", "buffers", "arrays", "live"}

Place == {"gone", "sizing", "init"} \cup Probing \cup Working

Gone == [at |-> "gone", profile |-> CHOOSE p \in Profile : TRUE,
         probe |-> NoSlot, instance |-> NoSlot]

Init ==
  /\ engine = [i \in Slot |-> "none"]
  /\ cache = {}
  /\ link = [l \in Link |-> Gone]

Free == {i \in Slot : engine[i] = "none"}
First == CHOOSE i \in Free : \A j \in Free : i =< j

\* l's thread goes on to a place, with what has changed.
Goes(l, L) == link' = [link EXCEPT ![l] = L]

\* ggwave_free of an instance that may not be there.
Released(i) == [engine EXCEPT ![i] = "none"]
ReleasedAny(i) == IF i = NoSlot THEN engine ELSE Released(i)

\* Mutant: a failed creation keeps its engine.
AbandonKeeping(l) == Goes(l, Gone) /\ UNCHANGED engine

\* kal_modem_free and kal_link_free give back what the link holds, in a creation that
\* fails as well as at the end of a link's life.
Abandon(l) == Goes(l, Gone) /\ engine' = ReleasedAny(link[l].instance)

----------------------------------------------------------------------------
(* kal_link_create.                                                        *)

InCall(l) == link[l].at \notin {"gone", "live"}
MayCall(l) == Overlap \/ \A k \in Link : ~InCall(k)

\* The link and the modem are allocated.  A failure here has taken nothing yet.
kal_link_create(l, p) ==
  /\ link[l].at = "gone" /\ MayCall(l)
  /\ Goes(l, [Gone EXCEPT !.at = IF p \in cache THEN "init" ELSE "sizing", !.profile = p])
  /\ UNCHANGED <<engine, cache>>

\* query_frame_samples: a throwaway instance, KAL_ERR_MODEM if there is none.
FindProbe(l) ==
  /\ link[l].at = "sizing"
  /\ IF Free = {} THEN Abandon(l)
     ELSE Goes(l, [link[l] EXCEPT !.at = "found", !.probe = First]) /\ UNCHANGED engine
  /\ UNCHANGED cache

OpenProbe(l) ==
  /\ link[l].at = "found"
  /\ engine' = [engine EXCEPT ![link[l].probe] = "hears"]
  /\ Goes(l, [link[l] EXCEPT !.at = "query"])
  /\ UNCHANGED cache

\* The size query leaves the instance unable to decode.
Query(l) ==
  /\ link[l].at = "query"
  /\ engine' = [engine EXCEPT ![link[l].probe] = IF @ = "none" THEN @ ELSE "deaf"]
  /\ Goes(l, [link[l] EXCEPT !.at = "unprobe"])
  /\ UNCHANGED cache

\* Mutants: the instance that was queried goes on as the working instance; the probe is
\* never freed.
KeepProbe(l) ==
  /\ link[l].at = "unprobe"
  /\ cache' = cache \cup {link[l].profile}
  /\ Goes(l, [link[l] EXCEPT !.at = "buffers", !.probe = NoSlot,
                             !.instance = link[l].probe])
  /\ UNCHANGED engine
LeakProbe(l) ==
  /\ link[l].at = "unprobe"
  /\ cache' = cache \cup {link[l].profile}
  /\ Goes(l, [link[l] EXCEPT !.at = "init", !.probe = NoSlot])
  /\ UNCHANGED engine

\* The probe is freed, and the size kept unless the query failed.
FreeProbe(l) ==
  /\ link[l].at = "unprobe"
  /\ engine' = Released(link[l].probe)
  /\ \/ /\ cache' = cache \cup {link[l].profile}
        /\ Goes(l, [link[l] EXCEPT !.at = "init", !.probe = NoSlot])
     \/ /\ UNCHANGED cache
        /\ Goes(l, Gone)

\* Mutant: that there is none goes unnoticed.
FindUnchecked(l) ==
  /\ link[l].at = "init"
  /\ Goes(l, [link[l] EXCEPT !.at = "chosen", !.instance = IF Free = {} THEN NoSlot ELSE First])
  /\ UNCHANGED <<engine, cache>>

\* The working instance: KAL_ERR_MEMORY if there is none.
FindInstance(l) ==
  /\ link[l].at = "init"
  /\ IF Free = {} THEN Abandon(l)
     ELSE Goes(l, [link[l] EXCEPT !.at = "chosen", !.instance = First]) /\ UNCHANGED engine
  /\ UNCHANGED cache

OpenInstance(l) ==
  /\ link[l].at = "chosen"
  /\ engine' = [engine EXCEPT ![link[l].instance] = "hears"]
  /\ Goes(l, [link[l] EXCEPT !.at = "buffers"])
  /\ UNCHANGED cache

\* The buffers of the modem, then the arrays of the link; either may fail.
Allocate(l, from, to) ==
  /\ link[l].at = from
  /\ \/ Goes(l, [link[l] EXCEPT !.at = to]) /\ UNCHANGED engine
     \/ Abandon(l)
  /\ UNCHANGED cache

kal_link_free(l) ==
  /\ link[l].at = "live" /\ MayCall(l)
  /\ Abandon(l)
  /\ UNCHANGED cache

Next ==
  \E l \in Link :
    \/ \E p \in Profile : kal_link_create(l, p)
    \/ FindProbe(l) \/ OpenProbe(l) \/ Query(l) \/ FreeProbe(l)
    \/ FindInstance(l) \/ OpenInstance(l)
    \/ Allocate(l, "buffers", "arrays") \/ Allocate(l, "arrays", "live")
    \/ kal_link_free(l)

Spec == Init /\ [][Next]_modemVars

----------------------------------------------------------------------------
(* Properties.                                                             *)

\* Every variable keeps its type, and a call that goes on has the instance it looked for.
TypeOK ==
  /\ engine \in [Slot -> EngineState]
  /\ cache \subseteq Profile
  /\ link \in [Link -> [at : Place, profile : Profile, probe : 0 .. Slots, instance : 0 .. Slots]]
  /\ \A l \in Link : /\ link[l].at \in Probing => link[l].probe \in Slot
                     /\ link[l].at \in Working => link[l].instance \in Slot

Live == {l \in Link : link[l].at = "live"}

\* The slots l has occupied.
Held(l) == (IF link[l].at \in Probing \ {"found"} THEN {link[l].probe} ELSE {})
             \cup (IF link[l].at \in Working \ {"chosen"} THEN {link[l].instance} ELSE {})

\* However creations fail, every instance in the engine's table belongs to one link, and
\* no two links share one.
NoEngineLost ==
  /\ \A i \in Slot : engine[i] # "none" <=> \E l \in Link : i \in Held(l)
  /\ \A k, l \in Link : Held(k) \cap Held(l) # {} => k = l

\* No link that came into being has the instance whose size was queried, or one that is
\* gone: what it is sent it can decode.
EveryLinkHears == \A l \in Live : engine[link[l].instance] = "hears"

\* A creation finds no instance only when there really are as many links as instances:
\* the probe is never the one too many.
EveryEngineUsable ==
  [][\A l \in Link : link[l].at \in {"sizing", "init"} /\ link'[l].at = "gone"
       => Cardinality(Live) = Slots]_modemVars

\* README: "at most 4/4 ggwave-backed links can exist in one process".
AtMostAllSlots == Cardinality(Live) =< Slots

=============================================================================
