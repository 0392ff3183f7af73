SPECIFICATION Spec
INVARIANT PackRoundTrip
