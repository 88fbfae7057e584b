SPECIFICATION StayPriceSpec
CONSTANTS
  RateTables <- TheRateTables
  NewRates <- TheNewRates
  StaysAsked <- TheStays
  StaffRooms <- TheStaffRooms
  AnyPlan = "none"
  Service <- TheService
  SettingsSets <- TheSettings
  Hours = {0, 30, 100, 200}
  MaxRooms = 2
  MaxAdults = 3
  MaxEdits = 1
INVARIANT ChargedAsQuoted
CHECK_DEADLOCK FALSE
