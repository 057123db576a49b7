----------------------------- MODULE MCConvScan -----------------------------
EXTENDS ConvScan
Airport == [freq |-> 1, priority |-> 0]
Fire == [freq |-> 2, priority |-> 1]
ScanList == <<Airport, Fire>>
OneChannel == <<Airport>>
Vfo == {[freq |-> 3, priority |-> 0]}
=============================================================================
