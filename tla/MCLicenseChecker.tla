------------------------- MODULE MCLicenseChecker --------------------------
EXTENDS LicenseChecker
LOCAL INSTANCE TLC
AnyPage == Permutations(Page)
=============================================================================
