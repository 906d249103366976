\* Does a disconnect revoke only after an enrollment in flight has settled, when
\* another disconnect comes?  relationship-controller.test.ts:367 says a disconnect does.
SPECIFICATION Spec

CONSTANTS
  MaxRelationships = 1
  MaxInFlight = 1

INVARIANT DisconnectAlwaysWaits
