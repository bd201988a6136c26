---------------------------- MODULE GraphListing ----------------------------
(***************************************************************************)
(* GraphClient.iter_managed_devices, driven page by page by                *)
(* SyncRunner._collect_devices: the server may apply the ownership filter, *)
(* ignore it, or reject it.                                                *)
(***************************************************************************)
EXTENDS RunSettings, SequencesExt, ListingContract

CONSTANTS
  PageSize,   \* GRAPH_PAGE_SIZE
  Repeated,   \* the devices that may be listed twice
  Slipping    \* the devices that may slip from one page to an earlier one

ASSUME PageAssumption == PageSize \in Nat \ {0}

VARIABLES
  request,   \* the request under way: "filtered", "plain" or "next" ("none": over)
  unlisted,  \* what the server still has to list
  devices,   \* `kept`, in the order listed
  missed     \* history: what slipped past the page being read, and is never listed

listingVars == <<request, unlisted, devices, missed>>

(* _ownership_filter *)
FirstRequest == IF cfg.serverFilter /\ cfg.ownership # "any" THEN "filtered" ELSE "plain"

ListingInit ==
  /\ request = FirstRequest
  /\ unlisted = Device
  /\ devices = <<>>
  /\ missed = {}

(* Bound on the listings looked at: one kept device may be listed twice. *)
MayRepeat == Cardinality(Range(devices)) = Len(devices)

(* Pages shift while they are read: a page may start with a device listed before. *)
Again == {<<>>} \cup (IF MayRepeat THEN {<<d>> : d \in Repeated \cap Range(devices)} ELSE {})

(* Or devices move up to a page that was read before, and no link leads back to it. *)
Slips == IF request = "next" THEN SUBSET (unlisted \cap Slipping) ELSE {{}}

(* What the server lists for the request under way and those that follow it. *)
Listed(honours, slip) ==
  {d \in unlisted \ slip : request = "filtered" /\ honours => Owner[d] = cfg.ownership}

(* INTUNE_DEVICE_LIMIT stops the collection once the cap is met. *)
Capped(kept) ==
  IF cfg.limit > 0 /\ Len(kept) > cfg.limit THEN SubSeq(kept, 1, cfg.limit) ELSE kept

(***************************************************************************)
(* A page S, with a device listed before in front of it, after `slip` have *)
(* slipped past it.  The loop ends when the cap is met or the page has no  *)
(* nextLink.                                                               *)
(***************************************************************************)
ListPage(honours, slip, S, again) ==
  /\ request # "none"
  /\ S \subseteq Listed(honours, slip)
  /\ Cardinality(S) <= PageSize
  /\ S = {} => Listed(honours, slip) = {}
  /\ devices' = Capped(devices \o again \o SetToSeq({d \in S : IsCorporate(d)}))
  /\ unlisted' = Listed(honours, slip) \ S
  /\ missed' = missed \cup slip
  /\ request' = IF unlisted' = {} \/ (cfg.limit > 0 /\ Len(devices') >= cfg.limit)
                THEN "none" ELSE "next"

(* A bug of that kind: the rejection is taken for an answer without devices. *)
FilterRejectedQuietly ==
  /\ request = "filtered"
  /\ request' = "none"
  /\ UNCHANGED <<unlisted, devices, missed>>

(* A 400 for the filtered first request: the same request without the filter. *)
FilterRejected ==
  /\ request = "filtered"
  /\ request' = "plain"
  /\ UNCHANGED <<unlisted, devices, missed>>

-----------------------------------------------------------------------------
(* A device the run is for, as INTUNE_OWNERSHIP says. *)
Owned(d) == cfg.ownership \in {"any", Owner[d]}

(***************************************************************************)
(* Nothing else falls between the pages: short of the cap, what is to be   *)
(* synchronised is kept, still to come, or slipped past its page.          *)
(***************************************************************************)
ListingBooks ==
  /\ devices \in Seq(Device) /\ \A d \in Range(devices) : Owned(d)
  /\ unlisted \subseteq Device /\ missed \subseteq Slipping
  /\ request = "filtered" => cfg.ownership # "any"
  /\ cfg.limit > 0 => Len(devices) <= cfg.limit
  /\ (cfg.limit = 0 \/ Len(devices) < cfg.limit) =>
       {d \in Device : Owned(d)} \subseteq Range(devices) \cup unlisted \cup missed
  /\ missed \cap (Range(devices) \cup unlisted) = {} /\ unlisted \cap Range(devices) = {}
  /\ request = "none" => unlisted = {} \/ (cfg.limit > 0 /\ Len(devices) = cfg.limit)

(***************************************************************************)
(* A listing that ended without an exception and without a cap holds every *)
(* device that is to be synchronised but those that slipped past their     *)
(* page, whether the server applied the filter, ignored it or rejected it; *)
(* with a cap, that many at most, and fewer only if there are no more.     *)
(***************************************************************************)
ListingComplete ==
  (request = "none" /\ stage # "raised") =>
    LET wanted == {d \in Device \ missed : Owned(d)}
    IN  /\ cfg.limit = 0 => Range(devices) = wanted
        /\ cfg.limit > 0 => /\ Len(devices) <= cfg.limit
                            /\ Len(devices) = cfg.limit \/ Range(devices) = wanted

(***************************************************************************)
(* What the rest of a run relies on when the listing is over: the wanted   *)
(* devices, all of them without a cap, some of them with one; of the       *)
(* devices that Graph listed, which are all unless some slipped past their *)
(* page (SyncRun's partial listings).                                      *)
(***************************************************************************)
ListingKeepsContract ==
  (request = "none" /\ stage # "raised") =>
    Collected(cfg.limit, {d \in Device \ missed : Owned(d)}, Range(devices))
=============================================================================
