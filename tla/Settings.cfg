SPECIFICATION Spec
CONSTANTS
    r1 = r1
    r2 = r2
    usd = usd
    vnd = vnd
    None = None
    Absent = Absent
    Requests = {r1, r2}
    Currencies = {usd, vnd}
    Dates <- MCDates
    Patches <- MCPatches
SYMMETRY Symmetry
PROPERTIES
    CurrencyKept
    DatesStayOrdered
