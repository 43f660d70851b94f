------------------------------- MODULE StateFile -------------------------------
(***************************************************************************)
(* The operating-state file (state_file.py): the four registries a build   *)
(* populates, written next to the topology and applied again to a model    *)
(* freshly imported from it.  What failed and what is impaired stays out   *)
(* of the file; JSON, versions and provenance are left out here.           *)
(***************************************************************************)
EXTENDS NetworkModel

CONSTANT IdOrder      \* LightpathIds sorted, the order of the file's lightpaths

ASSUME IdOrderAssumption ==
  /\ IdOrder \in Seq(LightpathIds) /\ Range(IdOrder) = LightpathIds
  /\ \A i, j \in 1 .. Len(IdOrder) : IdOrder[i] = IdOrder[j] => i = j

Dump(m) ==
  [lightpaths |-> m.lightpaths, qot |-> m.qot, ipLinks |-> m.ipLinks, services |-> m.services]

\* A mutator refused a record: the load stops with a StateFileError.
Guarded(acc, can, m) == [model |-> IF acc.ok /\ can THEN m ELSE acc.model, ok |-> acc.ok /\ can]

\* The document has no record of an id that was not lit.
AddRecord(acc, id, doc) ==
  IF id \notin DOMAIN doc.lightpaths THEN acc
  ELSE Guarded(acc, CanAddLightpath(acc.model, id, doc.lightpaths[id]),
               AddLightpath(acc.model, id, doc.lightpaths[id]))

RestoreQot(m, ids, doc) ==
  [m EXCEPT !.qot = Overlay([id \in ids \cap DOMAIN doc.qot |-> doc.qot[id]], @)]

\* One pass: each lightpath is added and its record put back at once.
LoadInterleaved(acc, doc) ==                                         \* mutant
  LET after[n \in 0 .. Len(IdOrder)] ==
        IF n = 0 THEN acc
        ELSE [AddRecord(after[n - 1], IdOrder[n], doc) EXCEPT !.model = RestoreQot(@, {IdOrder[n]}, doc)]
  IN  after[Len(IdOrder)]

\* The lightpaths of the document, added one by one in its order.
AddRecords(acc, doc) ==
  LET after[n \in 0 .. Len(IdOrder)] ==
        IF n = 0 THEN acc ELSE AddRecord(after[n - 1], IdOrder[n], doc)
  IN  after[Len(IdOrder)]

\* Two passes: adding a lightpath drops the record of those it shares a section with.
LoadLightpaths(acc, doc) ==
  LET added == AddRecords(acc, doc)
  IN  IF added.ok THEN [added EXCEPT !.model = RestoreQot(@, DOMAIN doc.lightpaths, doc)]
      ELSE added

\* Links and services follow in the model's own order; none depends on another
\* of its kind.
LoadLinks(acc, doc) ==
  Guarded(acc, \A k \in DOMAIN doc.ipLinks : CanAddIPLink(acc.model, k, doc.ipLinks[k]),
          [acc.model EXCEPT !.ipLinks = Overlay(doc.ipLinks, @)])

LoadServices(acc, doc) ==
  Guarded(acc, \A s \in DOMAIN doc.services : CanAddService(acc.model, s, doc.services[s]),
          [acc.model EXCEPT !.services = Overlay(doc.services, @)])

\* load_state: lightpaths, then links, then services.
LoadState(m, doc) == LoadServices(LoadLinks(LoadLightpaths([model |-> m, ok |-> TRUE], doc), doc), doc)

\* "simulate_ip_routing(reloaded) == simulate_ip_routing(built)": what is dumped
\* from any model whose service paths are intact loads, and brings back every
\* lightpath, QoT record, link and service.  A path that names a link torn down
\* meanwhile is a forward reference, and its file is refused as a whole.
ReloadRestores ==
  LET loaded == LoadState(EmptyModel, Dump(model))
      intact == \A s \in DOMAIN model.services :
                  AllPresent(model, model.services[s].working)
                    /\ AllPresent(model, model.services[s].protection)
  IN  loaded.ok = intact /\ (intact => Dump(loaded.model) = Dump(model))
===============================================================================
